----------------------------- MODULE Remediation -----------------------------
(***************************************************************************)
(* The adaptive remediation loop of the investigation engine               *)
(* (scaffold/engine.py: remediate, _remediate_loop, propose_remediation,   *)
(* apply_remediation) with the parts of remediation.py it drives: planning,*)
(* the gated execution, verify_recovery and the undo file, the provider's  *)
(* read-through inspect cache, and the workload itself, which goes on      *)
(* crashing and being restarted while the engine thinks.                   *)
(*                                                                         *)
(* A configuration stands for everything a catalog edit can change (image, *)
(* environment, resources, probe).  The workload crashes while it runs a   *)
(* configuration that is not Healthy.  Every step of the engine is one     *)
(* action between two points where the world may move: an LLM call, the    *)
(* approval prompt, the shell-out, the wait before verification.           *)
(***************************************************************************)
EXTENDS Catalog, Sequences

CONSTANTS
  Requests,       \* the runs considered
  Configs,        \* the configurations a workload can run
  Healthy,        \* those under which it does not crash
  InitialConfig,  \* the one it is diagnosed under
  Offered,        \* the catalog actions the Remediator may propose
  MaxAttempts,    \* max_remediation_attempts
  MaxRestarts,    \* bound: restarts of the workload the model follows
  None            \* no value: no snapshot, no configuration, no outcome yet

ASSUME ConfigAssumption ==
  /\ Healthy \subseteq Configs
  /\ InitialConfig \in Configs

\* `scale` changes the number of pods and not their definition, which is all a
\* configuration tells apart here.
ASSUME OfferAssumption == Offered \subseteq CatalogActions \ {"scale"}

ASSUME BoundAssumption == MaxAttempts \in Nat \ {0} /\ MaxRestarts \in Nat

\* A run: its arguments, whether the namespace of the target is protected, and
\* whether the state directory can be written.
Request == [platform : Platforms, apply : BOOLEAN, maxRisk : Risks,
            verify : BOOLEAN, protected : BOOLEAN, disk : BOOLEAN]

ASSUME RequestAssumption ==
  /\ Requests \subseteq Request
  /\ \A r \in Requests : r.protected => r.platform = "kubernetes"

VARIABLES
  request,     \* the run
  pod,         \* the workload the target names
  desired,     \* Kubernetes: the pod template its controller holds
  cache,       \* the provider's inspect cache for the target
  pc,          \* where the engine is
  plan,        \* the proposal, planned
  baseline,    \* what capture_baseline saw
  prior,       \* history: the configuration in force just before the last shell-out
  crashed,     \* history: did the workload crash since the last shell-out
  attempts,    \* what the loop returns as its trail
  outcome,     \* the loop's outcome
  undo,        \* the last-remediation file of the target
  experience   \* what remediate() stored in the experience memory

world  == <<pod, desired>>
engine == <<cache, pc, plan, baseline, attempts, outcome, undo, experience>>
vars   == <<request, world, engine, prior, crashed>>

------------------------------------------------------------------------------
Snapshot == [config : Configs, running : BOOLEAN, restarts : Nat, oom : BOOLEAN]

Pod == [present : BOOLEAN, config : Configs, running : BOOLEAN, restarts : Nat,
        oom : BOOLEAN]

Verdicts == {"recovered", "still-failing", "unknown", "skipped"}

Attempt == [action   : CatalogActions,
            config   : Configs \cup {None},  \* the configuration it asked for
            reversal : Configs \cup {None},  \* the configuration undo would restore
            prior    : Configs \cup {None},  \* history: what it really replaced
            applied  : {"skipped", "refused", "error", "executed"},
            verdict  : Verdicts \cup {None},
            judged   : Configs \cup {None},  \* the configuration verification looked at
            crashed  : BOOLEAN]              \* history: a crash since the shell-out

Plan == [action : CatalogActions, config : Configs \cup {None},
         reversal : Configs \cup {None}]

Outcomes == {"resolved", "unresolved", "proposed", "refused", "needs_context",
             "no_action", "blocked"}

ASSUME NoneAssumption == None \notin Configs \cup Outcomes \cup Verdicts

Working  == {"propose", "apply", "gate", "execute", "verify", "replan"}
Terminal == {"done", "raised", "killed"}

Podman == request.platform = "podman"

------------------------------------------------------------------------------
(* Reading the workload. *)

SnapshotOf(p) == [config |-> p.config, running |-> p.running,
                  restarts |-> p.restarts, oom |-> p.oom]

\* What an inspect can return now: the state of the workload, or None for a
\* ProviderError (the workload is gone, or the command failed or timed out).
LiveReads == {None} \cup IF pod.present THEN {SnapshotOf(pod)} ELSE {}

\* A provider asks the platform only when it has not asked before: no read of
\* the run sees a change made after the first one until the cache is cleared.
CachedReads == IF cache = None THEN LiveReads ELSE {cache}

------------------------------------------------------------------------------
(* verify_recovery *)

\* Mutant of Climbed: one restart is forgiven after every action.
ClimbedForgiving(a, before, after) ==
  after.restarts > (IF before = None THEN 0 ELSE before.restarts) + 1

\* The restart counter rose past what the action itself accounts for.
Climbed(a, before, after) ==
  after.restarts > (IF before = None THEN 0 ELSE before.restarts)
                   + (IF a = "restart" THEN 1 ELSE 0)

OutOfMemory(before, after) == after.oom /\ ~(before # None /\ before.oom)

WasRunning(before) == before # None /\ before.running

\* The judgement on a workload that was re-read after the wait.
Judge(a, before, after) ==
  IF after = None                      THEN "unknown"
  ELSE IF \/ Climbed(a, before, after)
          \/ OutOfMemory(before, after) THEN "still-failing"
  ELSE IF after.running                THEN "recovered"
  ELSE IF WasRunning(before)           THEN "still-failing" ELSE "unknown"

\* Kubernetes replaces the pod, or the action has no rule: no look is taken.
NotObservable(a) == \/ ~Podman /\ a \in ReplacesPod
                    \/ a \notin VerifiableActions

\* Mutant of VerificationReads: the cache is not cleared after the wait.
VerificationReadsStale == CachedReads

\* The cache is cleared before the look: the one read of the run that is
\* certain to be fresh.
VerificationReads == LiveReads

------------------------------------------------------------------------------
(* The end of an attempt, and of the loop. *)

\* Mutant of Remember: a fix that failed to execute is not counted.
RememberExecuted(trail, attempt) ==
  IF attempt.applied = "error" THEN trail ELSE Append(trail, attempt)

Remember(trail, attempt) == Append(trail, attempt)

\* Mutant of AttemptsLeft: off by one.
AttemptsLeftInclusive(trail) == Len(trail) <= MaxAttempts

AttemptsLeft(trail) == Len(trail) < MaxAttempts

\* An attempt built from the plan, as the engine appends it.
Tried(applied, verdict, judged) ==
  [action |-> plan.action, config |-> plan.config, reversal |-> plan.reversal,
   prior |-> prior, applied |-> applied, verdict |-> verdict,
   judged |-> judged, crashed |-> crashed]

\* remediate() records the two verified outcomes in the experience memory when
\* learning is on and the store accepts them.
WorthRemembering(o) == request.apply /\ o \in {"resolved", "unresolved"}

Finish(o) ==
  /\ pc' = "done"
  /\ outcome' = o
  /\ experience' \in {None} \cup
       (IF WorthRemembering(o)
          THEN {IF o = "resolved" THEN "recovered" ELSE "unresolved"} ELSE {})

\* A ProviderError that nothing in the loop or its callers catches.
Raise == pc' = "raised" /\ UNCHANGED <<outcome, experience>>

\* A dead fix: the team replans while attempts are left.
NextAttempt(trail) ==
  IF AttemptsLeft(trail)
    THEN pc' = "replan" /\ UNCHANGED <<outcome, experience>>
    ELSE Finish("unresolved")

------------------------------------------------------------------------------
(* propose_remediation *)

\* The plan of a catalog action, computed from what the planner reads: the
\* cached inspect on Podman, the controller itself on Kubernetes.
Planned(a, c, seen) ==
  [action   |-> a,
   config   |-> IF EditsDefinition(a) THEN c ELSE None,
   reversal |-> IF HasReversal(a)
                  THEN (IF Podman THEN seen.config ELSE desired) ELSE None]

Plannable(a) == /\ Supports(request.platform, a)
                /\ ~(request.protected /\ ChecksNamespace(request.platform, a))

\* The Remediator fills the form and the catalog accepts it.
Propose ==
  /\ pc = "propose"
  /\ \E seen \in CachedReads \ {None}, a \in Offered, c \in Configs :
       /\ cache' = seen
       /\ Plannable(a)
       /\ plan' = Planned(a, c, seen)
  /\ IF request.apply
       THEN pc' = "apply" /\ UNCHANGED <<outcome, experience>>
       ELSE Finish("proposed")
  /\ UNCHANGED <<request, world, baseline, prior, crashed, attempts, undo>>

\* No fix comes back: the call failed (None), a value is missing, or the agent
\* has no idea left or the catalog refused the form (both arrive as "none").
NoProposal ==
  /\ pc = "propose"
  /\ cache' \in CachedReads \ {None}
  /\ \/ Finish("no_action")
     \/ Finish("needs_context")
     \/ attempts # <<>> /\ Finish("unresolved")
  /\ UNCHANGED <<request, world, plan, baseline, prior, crashed, attempts, undo>>

\* collect() cannot read the workload: the exception leaves the loop.
CollectFails ==
  /\ pc \in {"propose", "replan"}
  /\ None \in CachedReads
  /\ Raise
  /\ UNCHANGED <<request, world, cache, plan, baseline, prior, crashed, attempts, undo>>

------------------------------------------------------------------------------
(* apply_remediation *)

WithinRisk(a) == Rank(RiskOf(a)) <= Rank(request.maxRisk)

\* The risk tier stops the fix, or the second planning of it fails: on
\* Kubernetes that reads the controller again, and the quantities of a resource
\* edit are parsed a second time (module Undo).
Block ==
  /\ pc = "apply"
  /\ \/ ~WithinRisk(plan.action)
     \/ EditsDefinition(plan.action) /\ (~Podman \/ plan.action = "set-resources")
  /\ attempts' = Remember(attempts, Tried("skipped", None, None))
  /\ Finish("blocked")
  /\ UNCHANGED <<request, world, cache, plan, baseline, prior, crashed, undo>>

\* The fix is planned again and the baseline captured, through the cache.
Apply ==
  /\ pc = "apply"
  /\ WithinRisk(plan.action)
  /\ \E seen \in CachedReads \ {None} :
       /\ cache' = seen
       /\ plan' = Planned(plan.action, plan.config, seen)
       /\ baseline' = IF request.verify THEN seen ELSE None
  /\ pc' = "gate"
  /\ UNCHANGED <<request, world, prior, crashed, attempts, outcome, undo, experience>>

Approve ==
  /\ pc = "gate"
  /\ pc' = "execute"
  /\ UNCHANGED <<request, world, cache, plan, baseline, prior, crashed, attempts,
                 outcome, undo, experience>>

\* Mutant of Refuse: a refusal is treated like a dead fix.
RefuseAndRetry ==
  /\ pc = "gate"
  /\ attempts' = Remember(attempts, Tried("refused", None, None))
  /\ NextAttempt(attempts')
  /\ UNCHANGED <<request, world, cache, plan, baseline, prior, crashed, undo>>

\* The user's explicit "no" ends the loop.
Refuse ==
  /\ pc = "gate"
  /\ attempts' = Remember(attempts, Tried("refused", None, None))
  /\ Finish("refused")
  /\ UNCHANGED <<request, world, cache, plan, baseline, prior, crashed, undo>>

------------------------------------------------------------------------------
(* The shell-out. *)

\* Podman's restart: the restart counter may be kept, cleared or raised.
PodmanRestart ==
  \E n \in {0, pod.restarts} \cup ({pod.restarts + 1} \cap (0 .. MaxRestarts)) :
    pod' = [pod EXCEPT !.running = TRUE, !.restarts = n]

\* What a completed action does to the world.
Effect(a, c) ==
  \/ /\ a = "shell"
     /\ UNCHANGED world
  \/ /\ a = "restart"
     /\ IF Podman THEN PodmanRestart ELSE pod' = [pod EXCEPT !.present = FALSE]
     /\ UNCHANGED desired
  \/ /\ Podman /\ RebuildsContainer(a)
     /\ pod' = [present |-> TRUE, config |-> c, running |-> TRUE,
                restarts |-> 0, oom |-> FALSE]
     /\ UNCHANGED desired
  \/ /\ Podman /\ a = "set-resources"
     /\ pod' = [pod EXCEPT !.config = c]
     /\ UNCHANGED desired
  \/ /\ ~Podman /\ EditsDefinition(a)
     /\ desired' = c
     /\ UNCHANGED pod

\* The commands that fail on a workload that is gone.  A rebuild and a patch of
\* the controller do not need it, and exec never reports a failure: a `shell`
\* that could not run counts as executed.
NeedsWorkload(a) == a = "restart" \/ (Podman /\ a = "set-resources")

InForce == IF Podman THEN pod.config ELSE desired

ExecuteSucceeds ==
  /\ pc = "execute"
  /\ NeedsWorkload(plan.action) => pod.present
  /\ Effect(plan.action, plan.config)
  /\ prior' = InForce
  /\ crashed' = FALSE
  /\ pc' = "verify"
  /\ UNCHANGED <<request, cache, plan, baseline, attempts, outcome, undo, experience>>

\* The command reports an error: nothing happened, or a rebuild removed the
\* container and could not run the new one, or the command timed out after it
\* took effect.  All three come back as "not executed".
ExecuteFails ==
  /\ pc = "execute"
  /\ prior' = InForce
  /\ crashed' = FALSE
  /\ \/ UNCHANGED world
     \/ /\ Podman /\ RebuildsContainer(plan.action)
        /\ pod' = [pod EXCEPT !.present = FALSE]
        /\ UNCHANGED desired
     \/ /\ NeedsWorkload(plan.action) => pod.present
        /\ Effect(plan.action, plan.config)
  /\ attempts' = Remember(attempts, [Tried("error", None, None) EXCEPT
                                       !.prior = InForce, !.crashed = FALSE])
  /\ NextAttempt(attempts')
  /\ UNCHANGED <<request, cache, plan, baseline, undo>>

------------------------------------------------------------------------------
(* After the wait: verify_recovery, save_for_undo and the loop's decision. *)

\* Mutant of SaveForUndo: an existing file is kept.
SaveFirstForUndo ==
  undo' = IF request.disk /\ undo = None
            THEN [action |-> plan.action, reversal |-> plan.reversal] ELSE undo

\* The payload kept for --undo: the action and what would reverse it.  An
\* OSError is swallowed, and the file stays as it was.
SaveForUndo ==
  undo' = IF request.disk
            THEN [action |-> plan.action, reversal |-> plan.reversal] ELSE undo

\* Mutant of Conclude: an unknown verdict passes for a recovery.
ConcludeHopeful(verdict, judged) ==
  /\ SaveForUndo
  /\ attempts' = Remember(attempts, Tried("executed", verdict, judged))
  /\ IF verdict \in {"recovered", "unknown"} THEN Finish("resolved")
     ELSE NextAttempt(attempts')

Conclude(verdict, judged) ==
  /\ SaveForUndo
  /\ attempts' = Remember(attempts, Tried("executed", verdict, judged))
  /\ IF verdict = "recovered" THEN Finish("resolved") ELSE NextAttempt(attempts')

\* Verification is off, or no look can be taken: the cache stays as it was.
SkipVerification ==
  /\ pc = "verify"
  /\ ~request.verify \/ NotObservable(plan.action)
  /\ Conclude(IF ~request.verify THEN None
              ELSE IF ~Podman /\ plan.action \in ReplacesPod
              THEN "unknown" ELSE "skipped", None)
  /\ UNCHANGED <<request, world, cache, plan, baseline, prior, crashed>>

Verify ==
  /\ pc = "verify"
  /\ request.verify /\ ~NotObservable(plan.action)
  /\ \E seen \in VerificationReads :
       /\ cache' = seen
       /\ Conclude(Judge(plan.action, baseline, seen),
                   IF seen = None THEN None ELSE seen.config)
  /\ UNCHANGED <<request, world, plan, baseline, prior, crashed>>

\* _replan_after_failed_fix and _refresh_diagnosis: the team reconsiders, over
\* a context collected through the cache.
Replan ==
  /\ pc = "replan"
  /\ cache' \in CachedReads \ {None}
  /\ pc' = "propose"
  /\ UNCHANGED <<request, world, plan, baseline, prior, crashed, attempts, outcome,
                 undo, experience>>

------------------------------------------------------------------------------
(* The world. *)

Crash ==
  /\ pod.present /\ pod.running /\ pod.config \notin Healthy
  /\ \E killed \in BOOLEAN :
       pod' = [pod EXCEPT !.running = FALSE, !.oom = killed]
  /\ crashed' = TRUE
  /\ UNCHANGED <<request, desired, engine, prior>>

\* The restart policy brings the container back.
PolicyRestart ==
  /\ pod.present /\ ~pod.running /\ pod.restarts < MaxRestarts
  /\ pod' = [pod EXCEPT !.running = TRUE, !.restarts = @ + 1]
  /\ UNCHANGED <<request, desired, engine, prior, crashed>>

\* The controller replaces the pod by one of the template it holds: the target
\* of the run, a pod name, is gone.
Rollout ==
  /\ ~Podman /\ pod.present /\ pod.config # desired
  /\ pod' = [pod EXCEPT !.present = FALSE]
  /\ UNCHANGED <<request, desired, engine, prior, crashed>>

\* Ctrl-C.
Kill ==
  /\ pc \in Working
  /\ pc' = "killed"
  /\ UNCHANGED <<request, world, cache, plan, baseline, prior, crashed, attempts,
                 outcome, undo, experience>>

------------------------------------------------------------------------------
NoPlan == [action |-> "restart", config |-> None, reversal |-> None]

\* The loop starts when the investigation has just reported: the workload was
\* inspected when the investigation began, and what the cache holds is that
\* first look, however old.
Init ==
  /\ request \in Requests
  /\ \E running \in BOOLEAN, n \in 0 .. MaxRestarts :
       pod = [present |-> TRUE, config |-> InitialConfig, running |-> running,
              restarts |-> n, oom |-> FALSE]
  /\ desired = InitialConfig
  /\ \E running \in BOOLEAN, n \in 0 .. pod.restarts :
       cache = [config |-> InitialConfig, running |-> running, restarts |-> n,
                oom |-> FALSE]
  /\ pc = "propose"
  /\ plan = NoPlan
  /\ baseline = None
  /\ prior = None
  /\ crashed = FALSE
  /\ attempts = <<>>
  /\ outcome = None
  /\ undo = None
  /\ experience = None

LoopStep == \/ Propose \/ NoProposal \/ CollectFails \/ Block \/ Apply
            \/ Approve \/ Refuse \/ ExecuteSucceeds \/ ExecuteFails
            \/ SkipVerification \/ Verify \/ Replan

World == Crash \/ PolicyRestart \/ Rollout

Next == LoopStep \/ World \/ Kill

\* Every call the loop makes returns: LLM calls and commands have timeouts, and
\* the approval prompt is assumed to be answered.
Fairness == WF_vars(LoopStep)

Spec == Init /\ [][Next]_vars /\ Fairness
------------------------------------------------------------------------------
(* Properties. *)

Payload == [action : CatalogActions, reversal : Configs \cup {None}]

\* Every variable stays in its range, and the trail never exceeds
\* max_remediation_attempts.
TypeOK ==
  /\ request \in Requests
  /\ pod \in Pod
  /\ desired \in Configs
  /\ cache \in Snapshot \cup {None}
  /\ pc \in Working \cup Terminal
  /\ plan \in Plan
  /\ baseline \in Snapshot \cup {None}
  /\ prior \in Configs \cup {None}
  /\ crashed \in BOOLEAN
  /\ attempts \in Seq(Attempt)
  /\ Len(attempts) <= MaxAttempts
  /\ outcome \in Outcomes \cup {None}
  /\ undo \in Payload \cup {None}
  /\ experience \in {"recovered", "unresolved", None}

\* A fix that stops the loop is the last one tried: after a refusal, a risk
\* tier that is too low or a recovery, the loop never tries anything else
\* (engine._remediate_loop, the early returns after apply_remediation).
Stops(attempt) == \/ attempt.applied \in {"refused", "skipped"}
                  \/ attempt.verdict = "recovered"

StopsAtOnce ==
  /\ \A i \in 1 .. Len(attempts) - 1 : ~Stops(attempts[i])
  /\ pc \in Working /\ attempts # <<>> => ~Stops(attempts[Len(attempts)])

\* What the run reports, and what it teaches later runs, is what happened to
\* the last fix: "resolved" and a remembered recovery rest on a verification
\* that said so, and "unresolved" is never said of a run that tried nothing.
LastAttempt == attempts[Len(attempts)]

OutcomeMatchesTrail ==
  /\ outcome = "resolved" \/ experience = "recovered" =>
       attempts # <<>> /\ LastAttempt.verdict = "recovered"
  /\ outcome = "refused" => LastAttempt.applied = "refused"
  /\ outcome = "unresolved" => attempts # <<>> /\ ~Stops(LastAttempt)
  /\ outcome \in {"proposed", "needs_context", "no_action"} =>
       attempts = <<>> \/ ~Stops(LastAttempt)

\* No fix above --max-risk is ever put to the gate or run
\* (engine.apply_remediation, the ranking).
NothingAboveMaxRisk ==
  /\ \A i \in 1 .. Len(attempts) :
       attempts[i].applied # "skipped" =>
         Rank(RiskOf(attempts[i].action)) <= Rank(request.maxRisk)
  /\ pc \in {"gate", "execute", "verify"} =>
       Rank(RiskOf(plan.action)) <= Rank(request.maxRisk)

\* On Podman a recovery is judged on the workload the fix produced, never on a
\* look taken before it: verify_recovery clears the inspect cache first.
PodmanRecoverySeesTheFix ==
  Podman => \A i \in 1 .. Len(attempts) :
    attempts[i].verdict = "recovered" =>
      attempts[i].judged = IF EditsDefinition(attempts[i].action)
                             THEN attempts[i].config ELSE attempts[i].prior

\* A fix that leaves the container in place is not called a recovery when the
\* workload crashed after it, as long as no earlier command failed half-way:
\* the baseline, however stale, never counts more restarts than there were.
InPlaceRecoveryIsStable ==
  \A i \in 1 .. Len(attempts) :
    /\ attempts[i].verdict = "recovered"
    /\ EditsDefinition(attempts[i].action)
    /\ ~RebuildsContainer(attempts[i].action)
    /\ \A j \in 1 .. i - 1 : attempts[j].applied # "error"
    => ~attempts[i].crashed

\* When the run has ended, --undo is about the last fix that was executed, and
\* its reversal restores the configuration that fix really replaced, although
\* the plan was made from a cached look (no half-failed command, verification
\* on, state directory writable).
Executed == {i \in 1 .. Len(attempts) : attempts[i].applied = "executed"}

Clean == /\ request.disk /\ request.verify
         /\ \A i \in 1 .. Len(attempts) : attempts[i].applied # "error"

UndoRestoresLastFix ==
  pc \in {"propose", "apply", "gate", "execute", "replan", "done"} /\ Clean
  => \A i \in Executed :
       (\A j \in Executed : j <= i) =>
         /\ undo = [action |-> attempts[i].action, reversal |-> attempts[i].reversal]
         /\ attempts[i].reversal \in {None, attempts[i].prior}

\* The loop ends, whatever the workload does: every failed fix uses up one of
\* max_remediation_attempts.
Termination == <>(pc \in Terminal)

=============================================================================
