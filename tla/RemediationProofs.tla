-------------------------- MODULE RemediationProofs --------------------------
(***************************************************************************)
(* Theorems about the remediation loop, for every set of configurations,   *)
(* catalog offer, request and number of attempts.                          *)
(***************************************************************************)
EXTENDS Remediation, TLAPS

\* While the loop works it has an attempt left and nothing to report yet, and
\* the plan it holds names the configuration an edit asks for.
LoopInv ==
  /\ pc \in Working =>
       Len(attempts) < MaxAttempts /\ outcome = None /\ experience = None
  /\ pc \in {"raised", "killed"} => outcome = None /\ experience = None
  /\ pc = "done" => outcome \in Outcomes
  /\ EditsDefinition(plan.action) => plan.config \in Configs

USE DEF Podman

LEMMA InitTyped == Init => TypeOK /\ LoopInv
<1> SUFFICES ASSUME Init PROVE TypeOK /\ LoopInv
  OBVIOUS
<1>1. pod \in Pod
  BY ConfigAssumption, BoundAssumption DEF Init, Pod
<1>2. cache \in Snapshot
  <2>1. pod.restarts \in Nat
    BY <1>1 DEF Pod
  <2> QED
    BY <2>1, ConfigAssumption DEF Init, Snapshot
<1>3. plan \in Plan /\ ~EditsDefinition(plan.action)
  BY DEF Init, NoPlan, Plan, CatalogActions, EditsDefinition
<1>4. attempts \in Seq(Attempt) /\ Len(attempts) = 0
  BY DEF Init
<1>5. MaxAttempts \in Nat /\ 0 < MaxAttempts
  BY BoundAssumption
<1>6. /\ request \in Requests /\ desired \in Configs /\ pc = "propose"
      /\ baseline = None /\ prior = None /\ crashed = FALSE
      /\ outcome = None /\ undo = None /\ experience = None
  BY ConfigAssumption DEF Init
<1>7. TypeOK
  <2>1. crashed \in BOOLEAN
    BY <1>6
  <2>2. Len(attempts) <= MaxAttempts
    BY <1>4, <1>5
  <2>3. pc \in Working \cup Terminal
    BY <1>6 DEF Working
  <2> QED
    BY <1>1, <1>2, <1>3, <1>4, <1>6, <2>1, <2>2, <2>3 DEF TypeOK
<1> QED
  BY <1>3, <1>4, <1>5, <1>6, <1>7 DEF LoopInv

\* Whatever a read returns is a snapshot, or no value.
LEMMA ReadsTyped ==
  ASSUME TypeOK
  PROVE  /\ LiveReads \subseteq Snapshot \cup {None}
         /\ CachedReads \subseteq Snapshot \cup {None}
BY DEF TypeOK, LiveReads, CachedReads, SnapshotOf, Snapshot, Pod

\* An attempt made of the current plan is an attempt.
LEMMA TriedTyped ==
  ASSUME TypeOK, NEW applied \in {"skipped", "refused", "error", "executed"},
         NEW verdict \in Verdicts \cup {None}, NEW judged \in Configs \cup {None}
  PROVE  Tried(applied, verdict, judged) \in Attempt
BY DEF TypeOK, Tried, Attempt, Plan

LEMMA JudgeTyped ==
  ASSUME NEW a, NEW b, NEW o
  PROVE  Judge(a, b, o) \in Verdicts
BY DEF Judge, Verdicts

\* Appending one attempt to a trail with room left.
LEMMA TrailGrows ==
  ASSUME NEW t \in Seq(Attempt), NEW x \in Attempt, Len(t) < MaxAttempts
  PROVE  /\ Append(t, x) \in Seq(Attempt)
         /\ Len(Append(t, x)) = Len(t) + 1
         /\ Len(Append(t, x)) <= MaxAttempts
         /\ Append(t, x)[Len(Append(t, x))] = x
         /\ \A i \in 1 .. Len(t) : Append(t, x)[i] = t[i]
BY BoundAssumption

\* Finish reports and stores what it may.
LEMMA FinishTyped ==
  ASSUME NEW o \in Outcomes, Finish(o)
  PROVE  /\ pc' = "done"
         /\ outcome' \in Outcomes
         /\ experience' \in {"recovered", "unresolved", None}
BY DEF Finish

\* After a dead fix the loop replans with an attempt left, or ends.
LEMMA NextAttemptTyped ==
  ASSUME NEW trail, NextAttempt(trail), outcome = None, experience = None
  PROVE  \/ /\ pc' = "replan" /\ Len(trail) < MaxAttempts
            /\ outcome' = None /\ experience' = None
         \/ /\ pc' = "done" /\ outcome' \in Outcomes
            /\ experience' \in {"recovered", "unresolved", None}
BY FinishTyped DEF NextAttempt, AttemptsLeft, Outcomes

\* A plan made for a typed action, configuration and look.
LEMMA PlannedTyped ==
  ASSUME TypeOK, NEW a \in CatalogActions, NEW c \in Configs \cup {None},
         EditsDefinition(a) => c \in Configs, NEW seen \in Snapshot
  PROVE  /\ Planned(a, c, seen) \in Plan
         /\ EditsDefinition(a) => Planned(a, c, seen).config \in Configs
         /\ Planned(a, c, seen).action = a
BY DEF TypeOK, Planned, Plan, Snapshot

Inv == TypeOK /\ LoopInv

LEMMA ProposeTyped == Inv /\ Propose => Inv'
<1> SUFFICES ASSUME Inv, Propose PROVE Inv'
  OBVIOUS
<1> USE DEF Inv
<1>1. PICK seen \in CachedReads \ {None}, a \in Offered, c \in Configs :
        cache' = seen /\ plan' = Planned(a, c, seen)
  BY DEF Propose
<1>2. seen \in Snapshot /\ a \in CatalogActions
  BY ReadsTyped, OfferAssumption
<1>3. /\ plan' \in Plan
      /\ EditsDefinition(plan'.action) => plan'.config \in Configs
  BY <1>1, <1>2, PlannedTyped
<1>4. \/ pc' = "apply" /\ UNCHANGED <<outcome, experience>>
      \/ /\ pc' = "done" /\ outcome' \in Outcomes
         /\ experience' \in {"recovered", "unresolved", None}
  BY FinishTyped DEF Propose, Outcomes
<1> QED
  BY <1>1, <1>2, <1>3, <1>4
     DEF Propose, TypeOK, LoopInv, Working, Terminal, world

\* The trail after one more attempt, while the loop works.
LEMMA TrailTyped ==
  ASSUME Inv, pc \in Working, NEW x \in Attempt
  PROVE  /\ Remember(attempts, x) \in Seq(Attempt)
         /\ Len(Remember(attempts, x)) \in Nat
         /\ Len(Remember(attempts, x)) <= MaxAttempts
BY TrailGrows DEF Inv, TypeOK, LoopInv, Remember

\* What the end of an attempt leaves: a longer trail, and a loop that has ended
\* with an outcome or replans with an attempt left.
AttemptEnds ==
  /\ pc' \in {"replan", "done"}
  /\ attempts' \in Seq(Attempt) /\ Len(attempts') <= MaxAttempts
  /\ outcome' \in Outcomes \cup {None}
  /\ experience' \in {"recovered", "unresolved", None}
  /\ pc' = "replan" => /\ Len(attempts') < MaxAttempts
                       /\ outcome' = None /\ experience' = None
  /\ pc' = "done" => outcome' \in Outcomes

LEMMA AttemptTyped ==
  ASSUME Inv, pc \in Working, NEW x \in Attempt,
         attempts' = Remember(attempts, x),
         \/ NextAttempt(attempts')
         \/ \E o \in Outcomes : Finish(o)
  PROVE  AttemptEnds
<1>1. attempts' \in Seq(Attempt) /\ Len(attempts') <= MaxAttempts
  BY TrailTyped
<1>2. CASE NextAttempt(attempts')
  <2>1. outcome = None /\ experience = None
    BY DEF Inv, LoopInv
  <2> QED
    BY <1>1, <1>2, <2>1, NextAttemptTyped DEF AttemptEnds
<1>3. CASE \E o \in Outcomes : Finish(o)
  BY <1>1, <1>3, FinishTyped DEF AttemptEnds
<1> QED
  BY <1>2, <1>3

\* A completed command leaves a workload and a template.
LEMMA EffectTyped ==
  ASSUME TypeOK, NEW a \in CatalogActions, NEW c,
         EditsDefinition(a) => c \in Configs, Effect(a, c)
  PROVE  pod' \in Pod /\ desired' \in Configs
<1>1. pod \in Pod /\ desired \in Configs
  BY DEF TypeOK
<1>2. ASSUME NEW n \in Nat PROVE [pod EXCEPT !.running = TRUE, !.restarts = n] \in Pod
  BY <1>1 DEF Pod
<1>3. [pod EXCEPT !.present = FALSE] \in Pod
  BY <1>1 DEF Pod
<1>4. ASSUME c \in Configs
      PROVE  /\ [pod EXCEPT !.config = c] \in Pod
             /\ [present |-> TRUE, config |-> c, running |-> TRUE,
                 restarts |-> 0, oom |-> FALSE] \in Pod
  BY <1>1, <1>4 DEF Pod
<1>5. CASE a = "shell"
  BY <1>1, <1>5 DEF Effect, world, RebuildsContainer, EditsDefinition
<1>6. CASE a = "restart" /\ PodmanRestart /\ UNCHANGED desired
  <2>1. PICK n \in {0, pod.restarts} \cup ({pod.restarts + 1} \cap (0 .. MaxRestarts)) :
          pod' = [pod EXCEPT !.running = TRUE, !.restarts = n]
    BY <1>6 DEF PodmanRestart
  <2>2. n \in Nat
    BY <1>1, BoundAssumption DEF Pod
  <2> QED
    BY <1>1, <1>2, <1>6, <2>1, <2>2
<1>7. CASE a = "restart" /\ ~PodmanRestart
  BY <1>1, <1>3, <1>7 DEF Effect, RebuildsContainer, EditsDefinition
<1>8. CASE a \notin {"restart", "shell"}
  BY <1>1, <1>4, <1>8 DEF Effect, EditsDefinition
<1> QED
  BY <1>5, <1>6, <1>7, <1>8 DEF Effect, RebuildsContainer, EditsDefinition

LEMMA InForceTyped == TypeOK => InForce \in Configs
BY DEF TypeOK, InForce, Pod

LEMMA BlockTyped == Inv /\ (Block \/ Refuse) => Inv'
<1> SUFFICES ASSUME Inv, Block \/ Refuse PROVE Inv'
  OBVIOUS
<1>1. PICK applied \in {"skipped", "refused"} :
        attempts' = Remember(attempts, Tried(applied, None, None))
  BY DEF Block, Refuse
<1>2. Tried(applied, None, None) \in Attempt
  BY TriedTyped DEF Inv
<1>3. pc \in Working /\ \E o \in Outcomes : Finish(o)
  BY DEF Block, Refuse, Outcomes, Working
<1>4. UNCHANGED <<request, world, cache, plan, baseline, prior, crashed, undo>>
  BY DEF Block, Refuse
<1>5. AttemptEnds
  BY <1>1, <1>2, <1>3, AttemptTyped
<1> QED
  BY <1>4, <1>5 DEF AttemptEnds, Inv, TypeOK, LoopInv, Working, Terminal, world

LEMMA ExecuteFailsTyped == Inv /\ ExecuteFails => Inv'
<1> SUFFICES ASSUME Inv, ExecuteFails PROVE Inv'
  OBVIOUS
<1> DEFINE x == [Tried("error", None, None) EXCEPT !.prior = InForce, !.crashed = FALSE]
<1>1. x \in Attempt
  <2>1. Tried("error", None, None) \in Attempt
    BY TriedTyped DEF Inv
  <2> QED
    BY <2>1, InForceTyped DEF Inv, Attempt
<1>2. pc \in Working /\ attempts' = Remember(attempts, x) /\ NextAttempt(attempts')
  BY DEF ExecuteFails, Working
<1>3. AttemptEnds
  BY <1>1, <1>2, AttemptTyped
<1>4. pod' \in Pod /\ desired' \in Configs
  <2>1. /\ plan.action \in CatalogActions
        /\ EditsDefinition(plan.action) => plan.config \in Configs
        /\ pod \in Pod /\ desired \in Configs
    BY DEF Inv, TypeOK, LoopInv, Plan
  <2>2. [pod EXCEPT !.present = FALSE] \in Pod
    BY <2>1 DEF Pod
  <2> QED
    BY <2>1, <2>2, EffectTyped DEF Inv, ExecuteFails, world
<1>5. prior' \in Configs /\ crashed' \in BOOLEAN
  BY InForceTyped DEF Inv, ExecuteFails
<1> QED
  BY <1>3, <1>4, <1>5
     DEF AttemptEnds, Inv, TypeOK, LoopInv, ExecuteFails, Working, Terminal

LEMMA ExecuteSucceedsTyped == Inv /\ ExecuteSucceeds => Inv'
<1> SUFFICES ASSUME Inv, ExecuteSucceeds PROVE Inv'
  OBVIOUS
<1>1. /\ plan.action \in CatalogActions
      /\ EditsDefinition(plan.action) => plan.config \in Configs
  BY DEF Inv, TypeOK, LoopInv, Plan
<1>2. pod' \in Pod /\ desired' \in Configs
  BY <1>1, EffectTyped DEF Inv, ExecuteSucceeds
<1>3. prior' \in Configs /\ crashed' \in BOOLEAN
  BY InForceTyped DEF Inv, ExecuteSucceeds
<1> QED
  BY <1>2, <1>3 DEF Inv, TypeOK, LoopInv, ExecuteSucceeds, Working, Terminal

\* The end of a fix that was executed: Conclude, for a verdict and what it saw.
LEMMA ConcludeTyped ==
  ASSUME Inv, pc = "verify", NEW verdict \in Verdicts \cup {None},
         NEW judged \in Configs \cup {None}, Conclude(verdict, judged)
  PROVE  AttemptEnds /\ undo' \in Payload \cup {None}
<1>1. Tried("executed", verdict, judged) \in Attempt
  BY TriedTyped DEF Inv
<1>2. AttemptEnds
  BY <1>1, AttemptTyped DEF Conclude, Working, Outcomes
<1>3. undo' \in Payload \cup {None}
  BY DEF Conclude, SaveForUndo, Inv, TypeOK, Payload, Plan
<1> QED
  BY <1>2, <1>3

LEMMA VerifyTyped == Inv /\ (Verify \/ SkipVerification) => Inv'
<1> SUFFICES ASSUME Inv, Verify \/ SkipVerification PROVE Inv'
  OBVIOUS
<1>1. AttemptEnds /\ undo' \in Payload \cup {None} /\ cache' \in Snapshot \cup {None}
  <2>1. CASE Verify
    <3>1. PICK seen \in VerificationReads :
            /\ cache' = seen
            /\ Conclude(Judge(plan.action, baseline, seen),
                        IF seen = None THEN None ELSE seen.config)
      BY <2>1 DEF Verify
    <3>2. seen \in Snapshot \cup {None}
      BY ReadsTyped DEF Inv, VerificationReads
    <3>3. (IF seen = None THEN None ELSE seen.config) \in Configs \cup {None}
      BY <3>2 DEF Snapshot
    <3>4. Judge(plan.action, baseline, seen) \in Verdicts
      BY JudgeTyped
    <3> QED
      BY <2>1, <3>1, <3>2, <3>3, <3>4, ConcludeTyped DEF Verify
  <2>2. CASE SkipVerification
    <3>1. PICK v \in Verdicts \cup {None} : Conclude(v, None)
      BY <2>2 DEF SkipVerification, Verdicts
    <3> QED
      BY <2>2, <3>1, ConcludeTyped DEF SkipVerification, Inv, TypeOK
  <2> QED
    BY <2>1, <2>2
<1>2. UNCHANGED <<request, world, plan, baseline, prior, crashed>>
  BY DEF Verify, SkipVerification
<1> QED
  BY <1>1, <1>2 DEF AttemptEnds, Inv, TypeOK, LoopInv, Working, Terminal, world

LEMMA ApplyTyped == Inv /\ Apply => Inv'
<1> SUFFICES ASSUME Inv, Apply PROVE Inv'
  OBVIOUS
<1>1. PICK seen \in CachedReads \ {None} :
        /\ cache' = seen
        /\ plan' = Planned(plan.action, plan.config, seen)
        /\ baseline' = IF request.verify THEN seen ELSE None
  BY DEF Apply
<1>2. seen \in Snapshot
  BY ReadsTyped DEF Inv
<1>3. /\ plan.action \in CatalogActions /\ plan.config \in Configs \cup {None}
      /\ EditsDefinition(plan.action) => plan.config \in Configs
  BY DEF Inv, TypeOK, LoopInv, Plan
<1>4. /\ plan' \in Plan
      /\ EditsDefinition(plan'.action) => plan'.config \in Configs
  BY <1>1, <1>2, <1>3, PlannedTyped DEF Inv
<1> QED
  BY <1>1, <1>2, <1>4 DEF Inv, TypeOK, LoopInv, Apply, Working, Terminal, world

\* The steps that only move the engine on.
LEMMA EngineTyped ==
  Inv /\ (NoProposal \/ CollectFails \/ Approve \/ Replan \/ Kill) => Inv'
<1> SUFFICES ASSUME Inv, NoProposal \/ CollectFails \/ Approve \/ Replan \/ Kill
             PROVE  Inv'
  OBVIOUS
<1> USE DEF Inv, TypeOK, LoopInv, Working, Terminal, world
<1>1. CASE NoProposal
  <2>1. \E o \in Outcomes : Finish(o)
    BY <1>1 DEF NoProposal, Outcomes
  <2>2. /\ pc' = "done" /\ outcome' \in Outcomes
        /\ experience' \in {"recovered", "unresolved", None}
    BY <2>1, FinishTyped
  <2> QED
    BY <1>1, <2>2, ReadsTyped DEF NoProposal
<1>2. CASE CollectFails
  BY <1>2 DEF CollectFails, Raise
<1>3. CASE Approve
  BY <1>3 DEF Approve
<1>4. CASE Replan
  BY <1>4, ReadsTyped DEF Replan
<1>5. CASE Kill
  BY <1>5 DEF Kill
<1> QED
  BY <1>1, <1>2, <1>3, <1>4, <1>5

LEMMA WorldTyped == Inv /\ World => Inv'
<1> SUFFICES ASSUME Inv, World PROVE Inv'
  OBVIOUS
<1>1. pod \in Pod
  BY DEF Inv, TypeOK
<1>2. pod' \in Pod /\ crashed' \in BOOLEAN
  <2>1. CASE Crash
    <3>1. PICK killed \in BOOLEAN : pod' = [pod EXCEPT !.running = FALSE, !.oom = killed]
      BY <2>1 DEF Crash
    <3>2. [pod EXCEPT !.running = FALSE, !.oom = killed] \in Pod
      BY <1>1 DEF Pod
    <3>3. TRUE \in BOOLEAN
      OBVIOUS
    <3> QED
      BY <2>1, <3>1, <3>2, <3>3, Zenon DEF Crash
  <2>2. CASE PolicyRestart
    <3>1. pod' \in Pod
      <4>1. pod.restarts + 1 \in Nat
        BY <1>1 DEF Pod
      <4> QED
        BY <1>1, <2>2, <4>1 DEF PolicyRestart, Pod
    <3>2. crashed' \in BOOLEAN
      BY <2>2 DEF PolicyRestart, Inv, TypeOK
    <3> QED
      BY <3>1, <3>2
  <2>3. CASE Rollout
    BY <1>1, <2>3 DEF Rollout, Pod, Inv, TypeOK
  <2> QED
    BY <2>1, <2>2, <2>3 DEF World
<1>3. UNCHANGED <<request, desired, engine, prior>>
  BY DEF World, Crash, PolicyRestart, Rollout
<1> QED
  BY <1>2, <1>3 DEF Inv, TypeOK, LoopInv, engine

LEMMA StepTyped == Inv /\ [Next]_vars => Inv'
<1> SUFFICES ASSUME Inv, [Next]_vars PROVE Inv'
  OBVIOUS
<1>1. CASE UNCHANGED vars
  BY <1>1 DEF Inv, TypeOK, LoopInv, vars, world, engine
<1>2. CASE Next
  BY <1>2, ProposeTyped, BlockTyped, ApplyTyped, ExecuteFailsTyped,
     ExecuteSucceedsTyped, VerifyTyped, EngineTyped, WorldTyped
     DEF Next, LoopStep
<1> QED
  BY <1>1, <1>2

\* Every variable of the loop keeps its type, and the trail never exceeds
\* max_remediation_attempts, whatever the workload does.
THEOREM TypeCorrect == Spec => []TypeOK
<1>1. Init => Inv
  BY InitTyped DEF Inv
<1>2. Inv => TypeOK
  BY DEF Inv
<1> QED
  BY <1>1, <1>2, StepTyped, PTL DEF Spec

THEOREM Invariance == Spec => []Inv
<1>1. Init => Inv
  BY InitTyped DEF Inv
<1> QED
  BY <1>1, StepTyped, PTL DEF Spec

------------------------------------------------------------------------------
(* What a step that ends an attempt adds to the trail. *)

EndsAttempt == Block \/ Refuse \/ ExecuteFails \/ SkipVerification \/ Verify

\* The attempt x agrees with the plan, with where the loop stood, and with what
\* the loop does next.
Reported(x) ==
  /\ x.action = plan.action
  /\ x.applied # "skipped" => pc \in {"gate", "execute", "verify"}
  /\ pc' \in Working => ~Stops(x)
  /\ outcome' = "resolved" \/ experience' = "recovered" => x.verdict = "recovered"
  /\ outcome' = "refused" => x.applied = "refused"
  /\ outcome' = "unresolved" => ~Stops(x)
  /\ outcome' \notin {"proposed", "needs_context", "no_action"}

\* A finished loop has stored a recovery only when it reports one.
LEMMA FinishReports ==
  ASSUME NEW o \in Outcomes, Finish(o)
  PROVE  /\ pc' \notin Working /\ outcome' = o
         /\ experience' = "recovered" => o = "resolved"
BY NoneAssumption DEF Finish, WorthRemembering, Working, Verdicts

LEMMA NextAttemptReports ==
  ASSUME NEW trail, NextAttempt(trail), outcome = None, experience = None
  PROVE  outcome' \in {None, "unresolved"} /\ experience' # "recovered"
BY FinishReports, NoneAssumption DEF NextAttempt, Outcomes, Verdicts

LEMMA AttemptReported ==
  ASSUME Inv, EndsAttempt
  PROVE  \E x \in Attempt : attempts' = Append(attempts, x) /\ Reported(x)
<1> USE NoneAssumption DEF Remember, Reported, Stops, Tried
<1>1. outcome = None /\ experience = None
  BY DEF Inv, LoopInv, EndsAttempt, Working, Block, Refuse, ExecuteFails,
         SkipVerification, Verify
<1>2. CASE Block
  <2>1. Tried("skipped", None, None) \in Attempt
    BY TriedTyped DEF Inv
  <2>2. Finish("blocked") /\ attempts' = Append(attempts, Tried("skipped", None, None))
    BY <1>2 DEF Block
  <2>3. pc' \notin Working /\ outcome' = "blocked" /\ experience' # "recovered"
    BY <2>2, FinishReports DEF Outcomes
  <2> QED
    BY <2>1, <2>2, <2>3
<1>3. CASE Refuse
  <2>1. Tried("refused", None, None) \in Attempt
    BY TriedTyped DEF Inv
  <2>2. Finish("refused") /\ attempts' = Append(attempts, Tried("refused", None, None))
    BY <1>3 DEF Refuse
  <2>3. pc' \notin Working /\ outcome' = "refused" /\ experience' # "recovered"
    BY <2>2, FinishReports DEF Outcomes
  <2> QED
    BY <1>3, <2>1, <2>2, <2>3 DEF Refuse
<1>4. CASE ExecuteFails
  <2> DEFINE x == [Tried("error", None, None) EXCEPT !.prior = InForce, !.crashed = FALSE]
  <2>1. x \in Attempt
    <3>1. Tried("error", None, None) \in Attempt
      BY TriedTyped DEF Inv
    <3> QED
      BY <3>1, InForceTyped DEF Inv, Attempt
  <2>2. attempts' = Append(attempts, x) /\ NextAttempt(attempts')
    BY <1>4 DEF ExecuteFails
  <2>3. outcome' \in {None, "unresolved"} /\ experience' # "recovered"
    BY <1>1, <2>2, NextAttemptReports
  <2>4. x.action = plan.action /\ x.applied = "error" /\ x.verdict = None
    OBVIOUS
  <2>5. ~Stops(x)
    BY <2>4 DEF Verdicts
  <2>6. pc = "execute"
    BY <1>4 DEF ExecuteFails
  <2>7. Reported(x)
    BY <2>3, <2>4, <2>5, <2>6 DEF Outcomes
  <2> QED
    BY <2>1, <2>2, <2>7
<1>5. CASE SkipVerification \/ Verify
  <2>1. PICK v \in Verdicts \cup {None}, j \in Configs \cup {None} : Conclude(v, j)
    <3>1. CASE SkipVerification
      BY <3>1 DEF SkipVerification, Verdicts
    <3>2. CASE Verify
      <4>1. PICK seen \in VerificationReads :
              Conclude(Judge(plan.action, baseline, seen),
                       IF seen = None THEN None ELSE seen.config)
        BY <3>2 DEF Verify
      <4>2. (IF seen = None THEN None ELSE seen.config) \in Configs \cup {None}
        BY ReadsTyped DEF Inv, VerificationReads, Snapshot
      <4> QED
        BY <4>1, <4>2, JudgeTyped
    <3> QED
      BY <1>5, <3>1, <3>2
  <2> DEFINE x == Tried("executed", v, j)
  <2>2. x \in Attempt
    BY TriedTyped DEF Inv
  <2>3. attempts' = Append(attempts, x)
    BY <2>1 DEF Conclude
  <2>4. CASE v = "recovered"
    <3>1. Finish("resolved")
      BY <2>1, <2>4 DEF Conclude
    <3>2. pc' \notin Working /\ outcome' = "resolved"
      BY <3>1, FinishReports DEF Outcomes
    <3> QED
      BY <1>5, <2>2, <2>3, <2>4, <3>2 DEF SkipVerification, Verify
  <2>5. CASE v # "recovered"
    <3>1. NextAttempt(attempts')
      BY <2>1, <2>5 DEF Conclude
    <3>2. outcome' \in {None, "unresolved"} /\ experience' # "recovered"
      BY <1>1, <3>1, NextAttemptReports
    <3> QED
      BY <1>5, <2>2, <2>3, <2>5, <3>2 DEF SkipVerification, Verify, Outcomes
  <2> QED
    BY <2>4, <2>5
<1> QED
  BY <1>2, <1>3, <1>4, <1>5 DEF EndsAttempt

------------------------------------------------------------------------------
(* The safety of the trail, one property at a time. *)

\* The trail after one more attempt, element by element.
LEMMA Appended ==
  ASSUME Inv, NEW x \in Attempt, attempts' = Append(attempts, x)
  PROVE  /\ Len(attempts) \in Nat /\ Len(attempts') = Len(attempts) + 1
         /\ \A i \in 1 .. Len(attempts) : attempts'[i] = attempts[i]
         /\ attempts'[Len(attempts')] = x
         /\ attempts' # <<>>
BY DEF Inv, TypeOK

\* After the end of an attempt the loop replans or has ended.
LEMMA AttemptMovesOn == EndsAttempt => pc' \in {"replan", "done"}
BY DEF EndsAttempt, Block, Refuse, ExecuteFails, SkipVerification, Verify, Conclude,
       NextAttempt, Finish

\* Every other step leaves the trail alone, and none brings a loop that has
\* ended back to work.
LEMMA TrailKept ==
  ASSUME [Next]_vars, ~EndsAttempt
  PROVE  /\ attempts' = attempts
         /\ pc' \in Working => pc \in Working
BY DEF Next, LoopStep, World, vars, world, engine, EndsAttempt, Propose, NoProposal,
       CollectFails, Apply, Approve, ExecuteSucceeds, Replan, Crash, PolicyRestart,
       Rollout, Kill, Working, Finish, Raise

LEMMA StopsStep == Inv /\ StopsAtOnce /\ [Next]_vars => StopsAtOnce'
<1> SUFFICES ASSUME Inv, StopsAtOnce, [Next]_vars PROVE StopsAtOnce'
  OBVIOUS
<1>1. CASE EndsAttempt
  <2>1. PICK x \in Attempt : attempts' = Append(attempts, x) /\ Reported(x)
    BY <1>1, AttemptReported
  <2>2. pc \in Working
    BY <1>1 DEF EndsAttempt, Working, Block, Refuse, ExecuteFails, SkipVerification, Verify
  <2>3. \A i \in 1 .. Len(attempts) : ~Stops(attempts[i])
    BY <2>2 DEF StopsAtOnce, Inv, TypeOK
  <2>4. \A i \in 1 .. Len(attempts') - 1 : ~Stops(attempts'[i])
    BY <2>1, <2>3, Appended
  <2>5. pc' \in Working => ~Stops(attempts'[Len(attempts')])
    BY <2>1, Appended DEF Reported
  <2> QED
    BY <2>4, <2>5 DEF StopsAtOnce, Stops
<1>2. CASE ~EndsAttempt
  BY <1>2, TrailKept DEF StopsAtOnce, Stops
<1> QED
  BY <1>1, <1>2

\* A refusal, a risk tier that is too low or a recovery is the last thing the
\* loop tries.
THEOREM StoppingFixIsLast == Spec => []StopsAtOnce
<1>1. Init => StopsAtOnce
  BY DEF Init, StopsAtOnce
<1> QED
  BY <1>1, StopsStep, Invariance, PTL DEF Spec

LEMMA RiskStep == Inv /\ NothingAboveMaxRisk /\ [Next]_vars => NothingAboveMaxRisk'
<1> SUFFICES ASSUME Inv, NothingAboveMaxRisk, [Next]_vars PROVE NothingAboveMaxRisk'
  OBVIOUS
<1>1. request' = request
  BY DEF Next, LoopStep, World, vars, Propose, NoProposal, CollectFails, Block, Apply,
         Approve, Refuse, ExecuteSucceeds, ExecuteFails, SkipVerification, Verify,
         Replan, Crash, PolicyRestart, Rollout, Kill
<1>2. \A i \in 1 .. Len(attempts') : attempts'[i].applied # "skipped" =>
        Rank(RiskOf(attempts'[i].action)) <= Rank(request.maxRisk)
  <2>1. CASE EndsAttempt
    <3>1. PICK x \in Attempt : attempts' = Append(attempts, x) /\ Reported(x)
      BY <2>1, AttemptReported
    <3>2. x.applied # "skipped" => Rank(RiskOf(x.action)) <= Rank(request.maxRisk)
      BY <3>1 DEF Reported, NothingAboveMaxRisk
    <3> QED
      BY <3>1, <3>2, Appended DEF NothingAboveMaxRisk
  <2>2. CASE ~EndsAttempt
    BY <2>2, TrailKept DEF NothingAboveMaxRisk
  <2> QED
    BY <2>1, <2>2
<1>3. pc' \in {"gate", "execute", "verify"} =>
        Rank(RiskOf(plan'.action)) <= Rank(request.maxRisk)
  <2>1. CASE Apply
    BY <2>1 DEF Apply, WithinRisk, Planned
  <2>2. CASE EndsAttempt
    BY <2>2, AttemptMovesOn
  <2>3. CASE ~Apply /\ ~EndsAttempt
    BY <2>3 DEF NothingAboveMaxRisk, Next, LoopStep, World, vars, world, engine,
         EndsAttempt, Propose, NoProposal, CollectFails, Approve, ExecuteSucceeds,
         Replan, Crash, PolicyRestart, Rollout, Kill, Finish, Raise
  <2> QED
    BY <2>1, <2>2, <2>3
<1> QED
  BY <1>1, <1>2, <1>3 DEF NothingAboveMaxRisk

\* Nothing above --max-risk reaches the gate or the platform, for every catalog
\* offer and every number of attempts.
THEOREM RiskIsBounded == Spec => []NothingAboveMaxRisk
<1>1. Init => NothingAboveMaxRisk
  BY DEF Init, NothingAboveMaxRisk
<1> QED
  BY <1>1, RiskStep, Invariance, PTL DEF Spec

\* Outside the end of an attempt, the loop reports that it found nothing more to
\* do, or its report stays as it is.
LEMMA ReportKept ==
  ASSUME Inv, [Next]_vars, ~EndsAttempt
  PROVE  \/ UNCHANGED <<outcome, experience>>
         \/ /\ pc \in Working /\ experience' # "recovered"
            /\ \/ outcome' \in {"proposed", "needs_context", "no_action"}
               \/ outcome' = "unresolved" /\ attempts # <<>>
<1>1. CASE Propose
  <2>1. CASE Finish("proposed")
    BY <1>1, <2>1, FinishReports DEF Propose, Working, Outcomes
  <2>2. CASE UNCHANGED <<outcome, experience>>
    BY <2>2
  <2> QED
    BY <1>1, <2>1, <2>2 DEF Propose
<1>2. CASE NoProposal
  <2>1. PICK o \in {"no_action", "needs_context", "unresolved"} :
          Finish(o) /\ (o = "unresolved" => attempts # <<>>)
    BY <1>2 DEF NoProposal
  <2> QED
    BY <1>2, <2>1, FinishReports DEF NoProposal, Working, Outcomes
<1>3. CASE ~Propose /\ ~NoProposal
  BY <1>3 DEF Next, LoopStep, World, vars, world, engine, EndsAttempt, CollectFails,
       Apply, Approve, ExecuteSucceeds, Replan, Crash, PolicyRestart, Rollout, Kill, Raise
<1> QED
  BY <1>1, <1>2, <1>3

LEMMA OutcomeStep ==
  Inv /\ StopsAtOnce /\ OutcomeMatchesTrail /\ [Next]_vars => OutcomeMatchesTrail'
<1> SUFFICES ASSUME Inv, StopsAtOnce, OutcomeMatchesTrail, [Next]_vars
             PROVE  OutcomeMatchesTrail'
  OBVIOUS
<1>1. CASE EndsAttempt
  <2>1. PICK x \in Attempt : attempts' = Append(attempts, x) /\ Reported(x)
    BY <1>1, AttemptReported
  <2>2. attempts' # <<>> /\ LastAttempt' = x
    BY <2>1, Appended DEF LastAttempt
  <2> QED
    BY <2>1, <2>2 DEF OutcomeMatchesTrail, Reported, Stops
<1>2. CASE ~EndsAttempt
  <2>1. attempts' = attempts /\ LastAttempt' = LastAttempt
    BY <1>2, TrailKept DEF LastAttempt
  <2>2. CASE UNCHANGED <<outcome, experience>>
    BY <2>1, <2>2 DEF OutcomeMatchesTrail, Stops
  <2>3. CASE /\ pc \in Working /\ experience' # "recovered"
             /\ \/ outcome' \in {"proposed", "needs_context", "no_action"}
                \/ outcome' = "unresolved" /\ attempts # <<>>
    <3>1. attempts = <<>> \/ ~Stops(LastAttempt)
      BY <2>3 DEF StopsAtOnce, LastAttempt
    <3> QED
      BY <2>1, <2>3, <3>1 DEF OutcomeMatchesTrail, Stops
  <2> QED
    BY <1>2, <2>2, <2>3, ReportKept
<1> QED
  BY <1>1, <1>2

\* What the run reports and remembers is what happened to its last fix.
THEOREM OutcomeIsEarned == Spec => []OutcomeMatchesTrail
<1>1. Init => StopsAtOnce /\ OutcomeMatchesTrail
  BY NoneAssumption DEF Init, StopsAtOnce, OutcomeMatchesTrail, Outcomes, Verdicts
<1> QED
  BY <1>1, StopsStep, OutcomeStep, Invariance, PTL DEF Spec

------------------------------------------------------------------------------
(* On Podman the workload that is judged is the one the fix left. *)

\* What a fix leaves in force: what it asked for, or what was there before.
Left(action, asked, before) == IF EditsDefinition(action) THEN asked ELSE before

FixInForce ==
  Podman /\ pc = "verify" => pod.config = Left(plan.action, plan.config, prior)

LEMMA RequestKept == [Next]_vars => request' = request
BY DEF Next, LoopStep, World, vars, Propose, NoProposal, CollectFails, Block, Apply,
       Approve, Refuse, ExecuteSucceeds, ExecuteFails, SkipVerification, Verify,
       Replan, Crash, PolicyRestart, Rollout, Kill

LEMMA FixInForceStep == Inv /\ FixInForce /\ [Next]_vars => FixInForce'
<1> SUFFICES ASSUME Inv, FixInForce, [Next]_vars, Podman', pc' = "verify"
             PROVE  pod'.config = Left(plan'.action, plan'.config, prior')
  BY DEF FixInForce
<1> USE DEF Left
<1>1. Podman
  BY RequestKept
<1>2. pod \in Pod
  BY DEF Inv, TypeOK
<1>3. CASE ExecuteSucceeds
  <2>1. Effect(plan.action, plan.config) /\ prior' = pod.config /\ plan' = plan
    BY <1>1, <1>3 DEF ExecuteSucceeds, InForce
  <2>2. CASE plan.action = "restart"
    <3>1. PICK n \in {0, pod.restarts} \cup ({pod.restarts + 1} \cap (0 .. MaxRestarts)) :
            pod' = [pod EXCEPT !.running = TRUE, !.restarts = n]
      BY <1>1, <2>1, <2>2 DEF Effect, RebuildsContainer, PodmanRestart
    <3> QED
      BY <1>2, <2>1, <2>2, <3>1 DEF Pod, EditsDefinition
  <2>3. CASE plan.action # "restart"
    BY <1>1, <1>2, <2>1, <2>3 DEF Effect, RebuildsContainer, EditsDefinition, Pod, world
  <2> QED
    BY <2>2, <2>3
<1>4. CASE World
  <2>1. pc' = pc /\ plan' = plan /\ prior' = prior
    BY <1>4 DEF World, Crash, PolicyRestart, Rollout, engine
  <2>2. pod'.config = pod.config
    BY <1>2, <1>4 DEF World, Crash, PolicyRestart, Rollout, Pod
  <2> QED
    BY <1>1, <2>1, <2>2 DEF FixInForce
<1>5. CASE EndsAttempt
  BY <1>5, AttemptMovesOn
<1>6. CASE ~ExecuteSucceeds /\ ~World /\ ~EndsAttempt
  BY <1>1, <1>6 DEF FixInForce, Next, LoopStep, vars, world, engine, EndsAttempt,
       Propose, NoProposal, CollectFails, Apply, Approve, Replan, Kill, Finish, Raise
<1> QED
  BY <1>3, <1>4, <1>5, <1>6

\* A recovery is appended only by a look at the workload as it is.
LEMMA RecoverySeen ==
  ASSUME Inv, FixInForce, EndsAttempt, Podman
  PROVE  \E x \in Attempt :
           /\ attempts' = Append(attempts, x)
           /\ x.verdict = "recovered" => x.judged = Left(x.action, x.config, x.prior)
<1> USE NoneAssumption DEF Verdicts
<1>1. CASE Verify
  <2>1. PICK seen \in VerificationReads :
          Conclude(Judge(plan.action, baseline, seen),
                   IF seen = None THEN None ELSE seen.config)
    BY <1>1 DEF Verify
  <2> DEFINE v == Judge(plan.action, baseline, seen)
             j == IF seen = None THEN None ELSE seen.config
             x == Tried("executed", v, j)
  <2>2. v \in Verdicts /\ j \in Configs \cup {None}
    BY JudgeTyped, ReadsTyped DEF Inv, VerificationReads, Snapshot
  <2>3. x \in Attempt /\ attempts' = Append(attempts, x)
    BY <2>1, <2>2, TriedTyped DEF Inv, Conclude, Remember
  <2>4. v = "recovered" => seen = SnapshotOf(pod) /\ seen # None
    BY <2>1 DEF Judge, VerificationReads, LiveReads
  <2>5. v = "recovered" => j = pod.config
    BY <2>4 DEF SnapshotOf
  <2>6. pod.config = Left(plan.action, plan.config, prior)
    BY <1>1 DEF FixInForce, Verify
  <2>7. /\ x.verdict = v /\ x.judged = j /\ x.action = plan.action
        /\ x.config = plan.config /\ x.prior = prior
    BY DEF Tried
  <2> QED
    BY <2>3, <2>5, <2>6, <2>7
<1>2. CASE SkipVerification
  <2>1. PICK v \in {None, "unknown", "skipped"} : Conclude(v, None)
    BY <1>2 DEF SkipVerification
  <2>2. Tried("executed", v, None) \in Attempt
    BY <2>1, TriedTyped DEF Inv
  <2> QED
    BY <2>1, <2>2 DEF Conclude, Remember, Tried
<1>3. CASE Block \/ Refuse \/ ExecuteFails
  <2>1. PICK x \in Attempt : attempts' = Append(attempts, x) /\ Reported(x)
    BY <1>3, AttemptReported
  <2>2. x.verdict = None
    <3>1. attempts'[Len(attempts')].verdict = None
      <4>1. CASE Block \/ Refuse
        <5>1. PICK applied \in {"skipped", "refused"} :
                attempts' = Append(attempts, Tried(applied, None, None))
          BY <4>1 DEF Block, Refuse, Remember
        <5>2. Tried(applied, None, None) \in Attempt
          BY TriedTyped DEF Inv
        <5> QED
          BY <5>1, <5>2, Appended DEF Tried
      <4>2. CASE ExecuteFails
        <5> DEFINE y == [Tried("error", None, None) EXCEPT !.prior = InForce,
                                                          !.crashed = FALSE]
        <5>1. Tried("error", None, None) \in Attempt
          BY TriedTyped DEF Inv
        <5>2. y \in Attempt /\ y.verdict = None
          BY <5>1, InForceTyped DEF Inv, Attempt, Tried
        <5>3. attempts' = Append(attempts, y)
          BY <4>2 DEF ExecuteFails, Remember
        <5> QED
          BY <5>2, <5>3, Appended
      <4> QED
        BY <1>3, <4>1, <4>2
    <3> QED
      BY <2>1, <3>1, Appended
  <2> QED
    BY <2>1, <2>2
<1> QED
  BY <1>1, <1>2, <1>3 DEF EndsAttempt

LEMMA RecoveryStep ==
  Inv /\ FixInForce /\ PodmanRecoverySeesTheFix /\ [Next]_vars
  => PodmanRecoverySeesTheFix'
<1> SUFFICES ASSUME Inv, FixInForce, PodmanRecoverySeesTheFix, [Next]_vars
             PROVE  PodmanRecoverySeesTheFix'
  OBVIOUS
<1> USE DEF PodmanRecoverySeesTheFix, Left
<1>1. CASE EndsAttempt /\ Podman
  <2>1. PICK x \in Attempt :
           /\ attempts' = Append(attempts, x)
           /\ x.verdict = "recovered" => x.judged = Left(x.action, x.config, x.prior)
    BY <1>1, RecoverySeen
  <2> QED
    BY <1>1, <2>1, Appended
<1>2. CASE EndsAttempt /\ ~Podman
  BY <1>2, RequestKept
<1>3. CASE ~EndsAttempt
  BY <1>3, TrailKept, RequestKept
<1> QED
  BY <1>1, <1>2, <1>3

\* On Podman no recovery is judged on a look taken before the fix, whatever the
\* cache holds and however the workload crashes in between.
THEOREM RecoveryIsFresh == Spec => []PodmanRecoverySeesTheFix
<1>1. Init => FixInForce /\ PodmanRecoverySeesTheFix
  BY DEF Init, FixInForce, PodmanRecoverySeesTheFix
<1> QED
  BY <1>1, FixInForceStep, RecoveryStep, Invariance, PTL DEF Spec

------------------------------------------------------------------------------
(* What the engine believes of the workload, as long as no command failed    *)
(* half-way: the looks it planned and judges with.                           *)

NoErrors == \A i \in 1 .. Len(attempts) : attempts[i].applied # "error"

\* While this holds, every change the fixes made has been looked at.
Trusted == request.verify /\ NoErrors /\ pc \in Working

\* On Podman a fix has run and the look at its effect is still to come.
Unseen == Podman /\ pc = "verify" /\ plan.action # "shell"

\* A look, however old, never counts more restarts than the workload p has had,
\* and on Podman it shows the configuration that p still runs.
Fits(seen, p, podman) ==
  seen # None => seen.restarts <= p.restarts /\ (podman => seen.config = p.config)

CacheFits == Trusted /\ ~Unseen => Fits(cache, pod, Podman)

InPlace(a) == EditsDefinition(a) /\ ~RebuildsContainer(a)

\* The restarts verify_recovery will compare with.
Counted == IF baseline = None THEN 0 ELSE baseline.restarts

\* Before the shell-out: the baseline counts no more than there were, and the
\* reversal of the plan is the configuration in force.
PlanFits ==
  Trusted /\ pc \in {"gate", "execute"} =>
    Counted <= pod.restarts /\ plan.reversal \in {None, InForce}

\* After it: a workload that was edited in place, crashed and runs again has
\* been restarted at least once more than the baseline says.
FixFits ==
  Trusted /\ pc = "verify" =>
    /\ plan.reversal \in {None, prior}
    /\ InPlace(plan.action) =>
         /\ Counted <= pod.restarts
         /\ crashed /\ pod.running => Counted < pod.restarts

LooksFit == CacheFits /\ PlanFits /\ FixFits

\* Whatever is read, from the cache or from the platform, fits the workload.
LEMMA ReadsFit ==
  ASSUME Inv, Fits(cache, pod, Podman), NEW seen \in CachedReads
  PROVE  Fits(seen, pod, Podman)
BY DEF Inv, TypeOK, CachedReads, LiveReads, SnapshotOf, Fits, Pod

LEMMA LiveFits ==
  ASSUME Inv, NEW seen \in LiveReads
  PROVE  Fits(seen, pod, Podman)
BY DEF Inv, TypeOK, LiveReads, SnapshotOf, Fits, Pod

\* A look fits a later state of the workload that has had as many restarts or
\* more, under the same configuration.
LEMMA StillFits ==
  ASSUME NEW seen \in Snapshot \cup {None}, NEW p \in Pod, NEW q \in Pod,
         NEW podman \in BOOLEAN, Fits(seen, p, podman),
         p.restarts <= q.restarts, podman => p.config = q.config
  PROVE  Fits(seen, q, podman)
BY DEF Fits, Snapshot, Pod

\* An error in the trail stays there.
LEMMA ErrorsStay ==
  ASSUME Inv, [Next]_vars, NoErrors'
  PROVE  NoErrors
<1>1. CASE EndsAttempt
  <2>1. PICK x \in Attempt : attempts' = Append(attempts, x)
    BY <1>1, AttemptReported
  <2>2. /\ Len(attempts) \in Nat /\ Len(attempts') = Len(attempts) + 1
        /\ \A i \in 1 .. Len(attempts) : attempts'[i] = attempts[i]
    BY <2>1, Appended
  <2> QED
    BY <2>2 DEF NoErrors
<1>2. CASE ~EndsAttempt
  BY <1>2, TrailKept DEF NoErrors
<1> QED
  BY <1>1, <1>2

\* What is trusted after a step was trusted before it.
LEMMA TrustKept ==
  ASSUME Inv, [Next]_vars, Trusted'
  PROVE  Trusted /\ request' = request
<1>1. NoErrors /\ request' = request
  BY ErrorsStay, RequestKept DEF Trusted
<1>2. pc \in Working
  <2>1. CASE EndsAttempt
    BY <2>1 DEF EndsAttempt, Working, Block, Refuse, ExecuteFails, SkipVerification, Verify
  <2>2. CASE ~EndsAttempt
    BY <2>2, TrailKept DEF Trusted
  <2> QED
    BY <2>1, <2>2
<1> QED
  BY <1>1, <1>2 DEF Trusted

\* What the end of an attempt vouches for: the attempt x it appends, the file it
\* leaves for --undo, and the world, which only a failed command changes here.
Vouched(x) ==
  /\ Trusted /\ x.applied = "executed" => x.reversal \in {None, x.prior}
  /\ Trusted /\ x.verdict = "recovered" /\ InPlace(x.action) => ~x.crashed
  /\ x.verdict = "recovered" => request.verify
  /\ undo' = IF x.applied = "executed" /\ request.disk
               THEN [action |-> x.action, reversal |-> x.reversal] ELSE undo
  /\ x.applied # "error" => UNCHANGED <<pod, desired>>

\* What Conclude appends and leaves on file.
LEMMA ConcludeVouched ==
  ASSUME Inv, NEW v, NEW j, Conclude(v, j)
  PROVE  LET x == Tried("executed", v, j)
         IN  /\ attempts' = Append(attempts, x)
             /\ undo' = IF x.applied = "executed" /\ request.disk
                          THEN [action |-> x.action, reversal |-> x.reversal] ELSE undo
             /\ x.reversal = plan.reversal /\ x.prior = prior /\ x.action = plan.action
             /\ x.verdict = v /\ x.crashed = crashed /\ x.applied = "executed"
BY DEF Conclude, SaveForUndo, Remember, Tried

\* A recovery after an edit in place: the workload runs and has had no more
\* restarts than the baseline counts, so it has not crashed.
LEMMA RecoveredInPlace ==
  ASSUME Inv, FixFits, Trusted, pc = "verify", InPlace(plan.action),
         NEW seen \in LiveReads, Judge(plan.action, baseline, seen) = "recovered"
  PROVE  ~crashed
<1>1. seen = SnapshotOf(pod) /\ seen # None
  BY DEF LiveReads, Judge
<1>2. seen.restarts = pod.restarts /\ seen.running = pod.running
  BY <1>1 DEF SnapshotOf
<1>3. plan.action # "restart"
  BY DEF InPlace, EditsDefinition
<1>4. ~Climbed(plan.action, baseline, seen) /\ seen.running
  BY <1>1 DEF Judge
<1>5. pod.restarts \in Nat /\ Counted \in Nat
  BY DEF Inv, TypeOK, Pod, Snapshot, Counted
<1>6. Climbed(plan.action, baseline, seen) <=> pod.restarts > Counted + 0
  BY <1>2, <1>3 DEF Climbed, Counted
<1>7. ~(Counted < pod.restarts)
  BY <1>4, <1>5, <1>6
<1> QED
  BY <1>2, <1>4, <1>7 DEF FixFits

LEMMA AttemptVouched ==
  ASSUME Inv, FixFits, EndsAttempt
  PROVE  \E x \in Attempt : attempts' = Append(attempts, x) /\ Vouched(x)
<1>1. CASE Block \/ Refuse
  <2>1. PICK applied \in {"skipped", "refused"} :
          attempts' = Append(attempts, Tried(applied, None, None))
    BY <1>1 DEF Block, Refuse, Remember
  <2> DEFINE x == Tried(applied, None, None)
  <2>2. x \in Attempt
    BY TriedTyped DEF Inv
  <2>3. x.applied # "executed" /\ x.verdict # "recovered"
    BY <2>1, NoneAssumption DEF Tried, Verdicts
  <2>4. undo' = undo /\ UNCHANGED <<pod, desired>>
    BY <1>1 DEF Block, Refuse, world
  <2> QED
    BY <2>1, <2>2, <2>3, <2>4 DEF Vouched
<1>2. CASE ExecuteFails
  <2> DEFINE x == [Tried("error", None, None) EXCEPT !.prior = InForce, !.crashed = FALSE]
  <2>1. Tried("error", None, None) \in Attempt
    BY TriedTyped DEF Inv
  <2>2. x \in Attempt
    BY <2>1, InForceTyped DEF Inv, Attempt
  <2>3. x.applied = "error" /\ x.verdict # "recovered"
    BY NoneAssumption DEF Tried, Verdicts
  <2>4. attempts' = Append(attempts, x) /\ undo' = undo
    BY <1>2 DEF ExecuteFails, Remember
  <2> QED
    BY <2>2, <2>3, <2>4 DEF Vouched
<1>3. CASE SkipVerification
  <2>1. PICK v \in {None, "unknown", "skipped"} : Conclude(v, None)
    BY <1>3 DEF SkipVerification
  <2> DEFINE x == Tried("executed", v, None)
  <2>2. x \in Attempt
    BY <2>1, TriedTyped DEF Inv, Verdicts
  <2>3. v # "recovered" /\ UNCHANGED <<pod, desired>> /\ pc = "verify"
    BY <1>3, <2>1, NoneAssumption DEF SkipVerification, world, Verdicts
  <2>4. Trusted => x.reversal \in {None, x.prior}
    BY <2>3 DEF FixFits, Tried
  <2> QED
    BY <2>1, <2>2, <2>3, <2>4, ConcludeVouched DEF Vouched
<1>4. CASE Verify
  <2>1. PICK seen \in LiveReads :
          Conclude(Judge(plan.action, baseline, seen),
                   IF seen = None THEN None ELSE seen.config)
    BY <1>4 DEF Verify, VerificationReads
  <2> DEFINE v == Judge(plan.action, baseline, seen)
             j == IF seen = None THEN None ELSE seen.config
             x == Tried("executed", v, j)
  <2>2. v \in Verdicts /\ j \in Configs \cup {None}
    BY JudgeTyped, ReadsTyped DEF Inv, Snapshot
  <2>3. x \in Attempt
    BY <2>2, TriedTyped DEF Inv
  <2>4. request.verify /\ UNCHANGED <<pod, desired>> /\ pc = "verify"
    BY <1>4 DEF Verify, world
  <2>5. Trusted => x.reversal \in {None, x.prior}
    BY <2>4 DEF FixFits, Tried
  <2>6. Trusted /\ v = "recovered" /\ InPlace(plan.action) => ~crashed
    BY <2>4, RecoveredInPlace
  <2> HIDE DEF v, j
  <2>7. Conclude(v, j)
    BY <2>1 DEF v, j
  <2> QED
    BY <2>3, <2>4, <2>5, <2>6, <2>7, ConcludeVouched DEF Vouched
<1> QED
  BY <1>1, <1>2, <1>3, <1>4 DEF EndsAttempt

\* What a shell-out leaves of a workload, as far as looks can tell: a fix that
\* is not looked at on Podman, an edit in place, and a command inside the
\* workload lose no restart and change nothing Podman runs.
LEMMA EffectFits ==
  ASSUME Inv, NEW a \in CatalogActions, NEW c, Effect(a, c)
  PROVE  /\ ~Podman \/ a = "shell" \/ InPlace(a) => pod'.restarts = pod.restarts
         /\ a = "shell" => pod'.config = pod.config
<1>1. pod \in Pod
  BY DEF Inv, TypeOK
<1>2. CASE a = "restart"
  BY <1>1, <1>2 DEF Effect, EditsDefinition, RebuildsContainer, InPlace, Pod
<1>3. CASE a # "restart"
  BY <1>1, <1>3 DEF Effect, EditsDefinition, RebuildsContainer, InPlace, Pod, world
<1> QED
  BY <1>2, <1>3

LEMMA ShellOutFits == Inv /\ LooksFit /\ ExecuteSucceeds => LooksFit'
<1> SUFFICES ASSUME Inv, LooksFit, ExecuteSucceeds PROVE LooksFit'
  OBVIOUS
<1>1. /\ UNCHANGED <<request, cache, plan, baseline, attempts>>
      /\ pc = "execute" /\ pc' = "verify" /\ prior' = InForce /\ crashed' = FALSE
      /\ Effect(plan.action, plan.config)
  BY DEF ExecuteSucceeds
<1>2. pod \in Pod /\ pod' \in Pod /\ plan.action \in CatalogActions
  BY ExecuteSucceedsTyped DEF Inv, TypeOK, Plan
<1>3. Trusted' => Trusted
  BY <1>1 DEF Trusted, NoErrors, Working
<1>4. /\ ~Podman \/ plan.action = "shell" \/ InPlace(plan.action)
           => pod'.restarts = pod.restarts
      /\ plan.action = "shell" => pod'.config = pod.config
  BY <1>1, <1>2, EffectFits
<1>5. CacheFits'
  <2>1. SUFFICES ASSUME Trusted, ~Unseen' PROVE Fits(cache, pod', Podman)
    BY <1>1, <1>3 DEF CacheFits
  <2>2. ~Podman \/ plan.action = "shell"
    BY <1>1, <2>1 DEF Unseen
  <2>3. Fits(cache, pod, Podman)
    BY <1>1, <2>1 DEF LooksFit, CacheFits, Unseen
  <2>4. /\ cache \in Snapshot \cup {None} /\ Podman \in BOOLEAN
        /\ pod.restarts \in Nat
    BY <1>2 DEF Inv, TypeOK, Pod
  <2>5. pod.restarts <= pod'.restarts
    BY <1>4, <2>2, <2>4
  <2> QED
    BY <1>2, <1>4, <2>2, <2>3, <2>4, <2>5, StillFits
<1>6. PlanFits'
  BY <1>1 DEF PlanFits
<1>7. FixFits'
  <2>1. SUFFICES ASSUME Trusted
                 PROVE  /\ plan.reversal \in {None, prior'}
                        /\ InPlace(plan.action) => Counted <= pod'.restarts
    BY <1>1, <1>3 DEF FixFits, Counted
  <2> QED
    BY <1>1, <1>4, <2>1 DEF LooksFit, PlanFits
<1> QED
  BY <1>5, <1>6, <1>7 DEF LooksFit

LEMMA WorldFits == Inv /\ LooksFit /\ World => LooksFit'
<1> SUFFICES ASSUME Inv, LooksFit, World PROVE LooksFit'
  OBVIOUS
<1>1. UNCHANGED <<request, desired, cache, pc, plan, baseline, attempts, prior>>
  BY DEF World, Crash, PolicyRestart, Rollout, engine
<1>2. pod \in Pod /\ pod' \in Pod
  BY WorldTyped DEF Inv, TypeOK
<1>3. /\ pod.restarts \in Nat /\ pod'.restarts \in Nat
      /\ Counted \in Nat
  BY <1>2 DEF Pod, Inv, TypeOK, Snapshot, Counted
<1>4. /\ pod.restarts <= pod'.restarts /\ pod'.config = pod.config
      /\ pod'.running => \/ pod'.restarts = pod.restarts + 1
                         \/ pod.running /\ crashed' = crashed
      /\ pod'.restarts = pod.restarts \/ pod'.restarts = pod.restarts + 1
  <2>1. CASE Crash
    <3>1. PICK killed \in BOOLEAN : pod' = [pod EXCEPT !.running = FALSE, !.oom = killed]
      BY <2>1 DEF Crash
    <3>2. pod'.restarts = pod.restarts /\ pod'.config = pod.config /\ ~pod'.running
      BY <1>2, <3>1 DEF Pod
    <3> QED
      BY <1>3, <3>2
  <2>2. CASE PolicyRestart
    <3>1. pod'.restarts = pod.restarts + 1 /\ pod'.config = pod.config
      BY <1>2, <2>2 DEF PolicyRestart, Pod
    <3> QED
      BY <1>3, <3>1
  <2>3. CASE Rollout
    <3>1. /\ pod'.restarts = pod.restarts /\ pod'.config = pod.config
          /\ pod'.running = pod.running /\ crashed' = crashed
      BY <1>2, <2>3 DEF Rollout, Pod
    <3> QED
      BY <1>3, <3>1
  <2> QED
    BY <2>1, <2>2, <2>3 DEF World
<1>5. Trusted' = Trusted /\ Unseen' = Unseen /\ Counted' = Counted /\ InForce' = InForce
  BY <1>1, <1>4 DEF Trusted, NoErrors, Unseen, Counted, InForce
<1>6. CacheFits'
  <2>1. SUFFICES ASSUME Trusted, ~Unseen PROVE Fits(cache, pod', Podman)
    BY <1>1, <1>5 DEF CacheFits
  <2>2. Fits(cache, pod, Podman)
    BY <2>1 DEF LooksFit, CacheFits
  <2>3. cache \in Snapshot \cup {None} /\ Podman \in BOOLEAN
    BY DEF Inv, TypeOK
  <2> QED
    BY <1>2, <1>4, <2>2, <2>3, StillFits
<1>7. PlanFits'
  <2>1. SUFFICES ASSUME Trusted, pc \in {"gate", "execute"}
                 PROVE  Counted <= pod'.restarts /\ plan.reversal \in {None, InForce}
    BY <1>1, <1>5 DEF PlanFits
  <2>2. Counted <= pod.restarts /\ plan.reversal \in {None, InForce}
    BY <2>1 DEF LooksFit, PlanFits
  <2> QED
    BY <1>3, <1>4, <2>2
<1>8. FixFits'
  <2>1. SUFFICES ASSUME Trusted, pc = "verify"
                 PROVE  /\ plan.reversal \in {None, prior}
                        /\ InPlace(plan.action) =>
                             /\ Counted <= pod'.restarts
                             /\ crashed' /\ pod'.running => Counted < pod'.restarts
    BY <1>1, <1>5 DEF FixFits
  <2>2. /\ plan.reversal \in {None, prior}
        /\ InPlace(plan.action) => /\ Counted <= pod.restarts
                                   /\ crashed /\ pod.running => Counted < pod.restarts
    BY <2>1 DEF LooksFit, FixFits
  <2>3. ASSUME InPlace(plan.action) PROVE Counted <= pod'.restarts
    BY <1>3, <1>4, <2>2, <2>3
  <2>4. ASSUME InPlace(plan.action), crashed', pod'.running
        PROVE  Counted < pod'.restarts
    <3>1. CASE pod'.restarts = pod.restarts + 1
      BY <1>3, <2>2, <2>4, <3>1
    <3>2. CASE pod.running /\ crashed' = crashed
      BY <1>3, <1>4, <2>2, <2>4, <3>2
    <3> QED
      BY <1>4, <2>4, <3>1, <3>2
  <2> QED
    BY <2>2, <2>3, <2>4
<1> QED
  BY <1>6, <1>7, <1>8 DEF LooksFit

\* A step of the engine that is neither the shell-out nor the end of an attempt.
Thinks == Propose \/ NoProposal \/ CollectFails \/ Apply \/ Approve \/ Replan \/ Kill

LEMMA ThinkingFits == Inv /\ LooksFit /\ Thinks => LooksFit'
<1> SUFFICES ASSUME Inv, LooksFit, Thinks PROVE LooksFit'
  OBVIOUS
<1>1. /\ UNCHANGED <<request, pod, desired, prior, crashed, attempts>>
      /\ pc' # "verify"
  BY DEF Thinks, Propose, NoProposal, CollectFails, Apply, Approve, Replan, Kill, world,
         Finish, Raise
<1>2. Trusted' => Trusted /\ pc # "verify"
  BY DEF Thinks, Propose, NoProposal, CollectFails, Apply, Approve, Replan, Kill,
         Trusted, NoErrors, Working
<1>3. Trusted' => Fits(cache, pod, Podman)
  BY <1>2 DEF LooksFit, CacheFits, Unseen
<1>4. cache' = cache \/ cache' \in CachedReads
  BY DEF Thinks, Propose, NoProposal, CollectFails, Apply, Approve, Replan, Kill
<1>5. CacheFits'
  <2>1. SUFFICES ASSUME Trusted' PROVE Fits(cache', pod, Podman)
    BY <1>1 DEF CacheFits
  <2> QED
    BY <1>3, <1>4, <2>1, ReadsFit
<1>6. PlanFits'
  <2>1. SUFFICES ASSUME Trusted', pc' \in {"gate", "execute"}
                 PROVE  Counted' <= pod.restarts /\ plan'.reversal \in {None, InForce}
    BY <1>1 DEF PlanFits, InForce
  <2>2. CASE Apply
    <3>1. PICK seen \in CachedReads \ {None} :
            /\ plan' = Planned(plan.action, plan.config, seen)
            /\ baseline' = IF request.verify THEN seen ELSE None
      BY <2>2 DEF Apply
    <3>2. Fits(seen, pod, Podman) /\ seen # None
      BY <1>3, <2>1, <3>1, ReadsFit
    <3>3. Counted' <= pod.restarts
      BY <2>1, <1>1, <3>1, <3>2 DEF Counted, Fits, Trusted
    <3>4. plan'.reversal \in {None, InForce}
      BY <3>1, <3>2 DEF Planned, Fits, InForce
    <3> QED
      BY <3>3, <3>4
  <2>3. CASE Approve
    BY <1>2, <2>1, <2>3 DEF Approve, LooksFit, PlanFits, Counted
  <2> QED
    BY <2>1, <2>2, <2>3 DEF Thinks, Propose, NoProposal, CollectFails, Replan, Kill,
       Finish, Raise
<1>7. FixFits'
  BY <1>1 DEF FixFits
<1> QED
  BY <1>5, <1>6, <1>7 DEF LooksFit

LEMMA EndFits == Inv /\ LooksFit /\ EndsAttempt => LooksFit'
<1> SUFFICES ASSUME Inv, LooksFit, EndsAttempt PROVE LooksFit'
  OBVIOUS
<1>1. PICK x \in Attempt : attempts' = Append(attempts, x) /\ Vouched(x)
  BY AttemptVouched DEF LooksFit
<1>2. pc' \in {"replan", "done"}
  BY AttemptMovesOn
<1>3. PlanFits' /\ FixFits'
  BY <1>2 DEF PlanFits, FixFits
<1>4. SUFFICES ASSUME Trusted' PROVE Fits(cache', pod', Podman')
  BY <1>3 DEF LooksFit, CacheFits
<1>5. Trusted /\ request' = request
  BY <1>4, TrustKept DEF Next, LoopStep, EndsAttempt
<1>6. x.applied # "error"
  <2>1. Len(attempts) \in Nat /\ Len(attempts') = Len(attempts) + 1
        /\ attempts'[Len(attempts')] = x
    BY <1>1, Appended
  <2> QED
    BY <1>4, <2>1 DEF Trusted, NoErrors
<1>7. pod' = pod /\ Podman' = Podman
  BY <1>1, <1>5, <1>6 DEF Vouched
<1>8. CASE Verify
  <2>1. cache' \in LiveReads
    BY <1>8 DEF Verify, VerificationReads
  <2> QED
    BY <1>7, <2>1, LiveFits
<1>9. CASE SkipVerification
  <2>1. cache' = cache /\ ~Unseen
    BY <1>5, <1>9 DEF SkipVerification, NotObservable, Unseen, Trusted,
       VerifiableActions, Inv, TypeOK, Plan
  <2> QED
    BY <1>5, <1>7, <2>1 DEF LooksFit, CacheFits
<1>10. CASE ExecuteFails
  <2>1. attempts'[Len(attempts')].applied = "error"
    <3> DEFINE y == [Tried("error", None, None) EXCEPT !.prior = InForce,
                                                      !.crashed = FALSE]
    <3>1. Tried("error", None, None) \in Attempt
      BY TriedTyped DEF Inv
    <3>2. y \in Attempt /\ y.applied = "error"
      BY <3>1, InForceTyped DEF Inv, Attempt, Tried
    <3>3. attempts' = Append(attempts, y)
      BY <1>10 DEF ExecuteFails, Remember
    <3> QED
      BY <3>2, <3>3, Appended
  <2> QED
    BY <1>1, <1>6, <2>1, Appended
<1>11. CASE Block \/ Refuse
  BY <1>4, <1>11 DEF Block, Refuse, Finish, Trusted, Working
<1> QED
  BY <1>8, <1>9, <1>10, <1>11 DEF EndsAttempt

LEMMA LooksStep == Inv /\ LooksFit /\ [Next]_vars => LooksFit'
<1> SUFFICES ASSUME Inv, LooksFit, [Next]_vars PROVE LooksFit'
  OBVIOUS
<1>1. CASE UNCHANGED vars
  BY <1>1 DEF LooksFit, CacheFits, PlanFits, FixFits, Trusted, NoErrors, Unseen,
     Counted, InForce, vars, world, engine
<1>2. CASE Next
  BY <1>2, ShellOutFits, WorldFits, ThinkingFits, EndFits
     DEF Next, LoopStep, Thinks, EndsAttempt
<1> QED
  BY <1>1, <1>2

LEMMA InitFits == Init => LooksFit
<1> SUFFICES ASSUME Init PROVE LooksFit
  OBVIOUS
<1>1. /\ pc = "propose" /\ pod.config = InitialConfig
      /\ cache.config = InitialConfig /\ cache.restarts \in 0 .. pod.restarts
  BY DEF Init
<1>2. pod.restarts \in Nat
  BY InitTyped DEF TypeOK, Pod
<1> QED
  BY <1>1, <1>2 DEF LooksFit, CacheFits, PlanFits, FixFits, Fits

LEMMA InPlaceStep ==
  Inv /\ LooksFit /\ InPlaceRecoveryIsStable /\ [Next]_vars => InPlaceRecoveryIsStable'
<1> SUFFICES ASSUME Inv, LooksFit, InPlaceRecoveryIsStable, [Next]_vars
             PROVE  InPlaceRecoveryIsStable'
  OBVIOUS
<1>1. CASE EndsAttempt
  <2>1. PICK x \in Attempt : attempts' = Append(attempts, x) /\ Vouched(x)
    BY <1>1, AttemptVouched DEF LooksFit
  <2>2. /\ Len(attempts) \in Nat /\ Len(attempts') = Len(attempts) + 1
        /\ \A i \in 1 .. Len(attempts) : attempts'[i] = attempts[i]
        /\ attempts'[Len(attempts')] = x
    BY <2>1, Appended
  <2>3. SUFFICES ASSUME NEW i \in 1 .. Len(attempts'),
                        attempts'[i].verdict = "recovered",
                        EditsDefinition(attempts'[i].action),
                        ~RebuildsContainer(attempts'[i].action),
                        \A j \in 1 .. i - 1 : attempts'[j].applied # "error"
                 PROVE  ~attempts'[i].crashed
    BY DEF InPlaceRecoveryIsStable
  <2>4. CASE i \in 1 .. Len(attempts)
    <3>1. \A j \in 1 .. i - 1 : attempts[j].applied # "error"
      BY <2>2, <2>3, <2>4
    <3> QED
      BY <2>2, <2>3, <2>4, <3>1 DEF InPlaceRecoveryIsStable
  <2>5. CASE i = Len(attempts')
    <3>1. NoErrors
      BY <2>2, <2>3, <2>5 DEF NoErrors
    <3>2. pc \in Working
      BY <1>1 DEF EndsAttempt, Working, Block, Refuse, ExecuteFails, SkipVerification,
         Verify
    <3> QED
      BY <2>1, <2>2, <2>3, <2>5, <3>1, <3>2 DEF Vouched, Trusted, InPlace
  <2> QED
    BY <2>2, <2>4, <2>5
<1>2. CASE ~EndsAttempt
  BY <1>2, TrailKept DEF InPlaceRecoveryIsStable
<1> QED
  BY <1>1, <1>2

\* Whatever the loop tried before, and however old the looks are that it judges
\* with, no edit in place is called a recovery when the workload crashed after
\* it, as long as no earlier command failed half-way.
THEOREM InPlaceRecovery == Spec => []InPlaceRecoveryIsStable
<1>1. Init => InPlaceRecoveryIsStable
  BY DEF Init, InPlaceRecoveryIsStable
<1> QED
  BY <1>1, InitFits, LooksStep, InPlaceStep, Invariance, PTL DEF Spec

------------------------------------------------------------------------------
(* The file that --undo reads. *)

PayloadOf(attempt) == [action |-> attempt.action, reversal |-> attempt.reversal]

\* The file is about the last fix that was executed, and every fix executed
\* before anything failed half-way would be reversed to what it replaced.
FileIsLast ==
  request.disk =>
    \A i \in Executed : (\A j \in Executed : j <= i) => undo = PayloadOf(attempts[i])

Reverses ==
  request.verify =>
    \A i \in Executed :
      (\A j \in 1 .. i - 1 : attempts[j].applied # "error") =>
        attempts[i].reversal \in {None, attempts[i].prior}

\* Only the end of an attempt writes the file.
LEMMA FileKept == [Next]_vars /\ ~EndsAttempt => undo' = undo
BY DEF Next, LoopStep, World, vars, world, engine, EndsAttempt, Propose, NoProposal,
       CollectFails, Apply, Approve, ExecuteSucceeds, Replan, Crash, PolicyRestart,
       Rollout, Kill

LEMMA FileStep ==
  Inv /\ LooksFit /\ FileIsLast /\ Reverses /\ [Next]_vars => FileIsLast' /\ Reverses'
<1> SUFFICES ASSUME Inv, LooksFit, FileIsLast, Reverses, [Next]_vars
             PROVE  FileIsLast' /\ Reverses'
  OBVIOUS
<1>1. request' = request
  BY RequestKept
<1>2. CASE EndsAttempt
  <2>1. PICK x \in Attempt : attempts' = Append(attempts, x) /\ Vouched(x)
    BY <1>2, AttemptVouched DEF LooksFit
  <2>2. /\ Len(attempts) \in Nat /\ Len(attempts') = Len(attempts) + 1
        /\ \A i \in 1 .. Len(attempts) : attempts'[i] = attempts[i]
        /\ attempts'[Len(attempts')] = x
    BY <2>1, Appended
  <2> DEFINE n == Len(attempts')
  <2>3. n \in 1 .. n /\ \A i \in 1 .. n : i \in 1 .. Len(attempts) \/ i = n
    BY <2>2
  <2>4. /\ \A i \in 1 .. Len(attempts) : i \in Executed' <=> i \in Executed
        /\ n \in Executed' <=> x.applied = "executed"
        /\ Executed' \subseteq 1 .. n
    BY <2>2 DEF Executed
  <2>5. FileIsLast'
    <3>1. SUFFICES ASSUME request.disk, NEW i \in Executed', \A j \in Executed' : j <= i
                   PROVE  undo' = PayloadOf(attempts'[i])
      BY <1>1 DEF FileIsLast
    <3>2. CASE x.applied = "executed"
      <4>1. i = n
        BY <2>2, <2>4, <3>1, <3>2
      <4> QED
        BY <2>1, <2>2, <3>1, <3>2, <4>1 DEF Vouched, PayloadOf
    <3>3. CASE x.applied # "executed"
      <4>1. i \in 1 .. Len(attempts) /\ i \in Executed
        BY <2>3, <2>4, <3>3
      <4>2. Executed \subseteq 1 .. Len(attempts)
        BY DEF Executed
      <4>3. \A j \in Executed : j <= i
        BY <2>4, <3>1, <4>2
      <4> QED
        BY <2>1, <2>2, <3>1, <3>3, <4>1, <4>3 DEF FileIsLast, Vouched, PayloadOf
    <3> QED
      BY <3>2, <3>3
  <2>6. Reverses'
    <3>1. SUFFICES ASSUME request.verify, NEW i \in Executed',
                          \A j \in 1 .. i - 1 : attempts'[j].applied # "error"
                   PROVE  attempts'[i].reversal \in {None, attempts'[i].prior}
      BY <1>1 DEF Reverses
    <3>2. CASE i \in 1 .. Len(attempts)
      <4>1. \A j \in 1 .. i - 1 : attempts[j].applied # "error"
        BY <2>2, <3>1, <3>2
      <4> QED
        BY <2>2, <2>4, <3>1, <3>2, <4>1 DEF Reverses
    <3>3. CASE i = n
      <4>1. NoErrors
        BY <2>2, <3>1, <3>3 DEF NoErrors
      <4>2. pc \in Working
        BY <1>2 DEF EndsAttempt, Working, Block, Refuse, ExecuteFails,
           SkipVerification, Verify
      <4> QED
        BY <2>1, <2>2, <2>4, <3>1, <3>3, <4>1, <4>2 DEF Vouched, Trusted
    <3> QED
      BY <2>3, <2>4, <3>2, <3>3
  <2> QED
    BY <2>5, <2>6
<1>3. CASE ~EndsAttempt
  <2>1. attempts' = attempts /\ undo' = undo /\ Executed' = Executed
    BY <1>3, TrailKept, FileKept DEF Executed
  <2> QED
    BY <1>1, <2>1 DEF FileIsLast, Reverses
<1> QED
  BY <1>2, <1>3

\* However many fixes a run tries, --undo afterwards restores what the last one
\* executed really replaced, although every plan was made from a cached look.
THEOREM UndoIsFaithful == Spec => []UndoRestoresLastFix
<1>1. Init => FileIsLast /\ Reverses
  BY DEF Init, FileIsLast, Reverses, Executed
<1>2. FileIsLast /\ Reverses => UndoRestoresLastFix
  BY DEF FileIsLast, Reverses, UndoRestoresLastFix, Clean, PayloadOf, Executed
<1> QED
  BY <1>1, <1>2, InitFits, LooksStep, FileStep, Invariance, PTL DEF Spec

=============================================================================
