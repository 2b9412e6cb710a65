---------------------------- MODULE Investigation ----------------------------
(***************************************************************************)
(* The investigation engine (scaffold/engine.py: investigate and the       *)
(* replanning the remediation loop asks for), with the agents it runs and  *)
(* the claim state and workspace of inquiro it works on.                   *)
(*                                                                         *)
(* The engine is one thread.  A step is one agent turn, the LLM calls it   *)
(* makes and what the agent's apply() and the engine do with the answer;   *)
(* the model may answer anything.  Scout and Planner open, the Coordinator *)
(* chooses an action per iteration, hypotheses are verified one by one,    *)
(* the Auditor's critiques go to the Adjudicator, and the Reporter         *)
(* concludes.  With --fix, the Remediator proposes, and a fix that fails   *)
(* sends the team back to the loop for a few rounds.  What a fix does to   *)
(* the workload is the matter of Remediation.                              *)
(***************************************************************************)
EXTENDS Integers, Sequences, FiniteSets

CONSTANTS
  Menu,            \* the actions the Coordinator may choose besides "done"
  Sources,         \* per consultation, what can be asked: probes, queries, scripts
  Specialties,     \* the specialties the Coordinator may name
  MaxIterations,   \* max_iterations
  MaxCalls,        \* max_llm_calls
  ExtraIterations, \* _EXTRA_ITERS_AFTER_FINDING
  ReplanRounds,    \* extra_rounds of _replan_after_failed_fix
  MaxSpecialists,  \* max_specialists
  MaxFixes,        \* max_remediation_attempts
  MaxHypotheses,   \* bound: hypotheses the model follows
  MaxCritiques,    \* bound: critiques in one answer of the Auditor
  None             \* no value

\* Mutant of Attempts: the retries do not count the first try.
AttemptsAndOne == 3

\* Two tries per turn (_call).
Attempts == 2

Consultations == {"probe", "research", "code"}

Actions == Consultations \cup {"analyze", "specialist", "custom"}

Probes == Sources["probe"]

AllSources == UNION {Sources[kind] : kind \in Consultations}

ASSUME MenuAssumption == Menu \subseteq Actions /\ DOMAIN Sources = Consultations

ASSUME BoundAssumption ==
  /\ MaxCalls \in Nat \ {0}
  /\ MaxIterations \in Nat /\ ExtraIterations \in Nat /\ ReplanRounds \in Nat
  /\ MaxSpecialists \in Nat /\ MaxFixes \in Nat \ {0}
  /\ MaxHypotheses \in Nat /\ MaxCritiques \in Nat

ASSUME NoneAssumption ==
  None \notin Nat \cup AllSources \cup Specialties

VARIABLES
  pc,          \* the step that is due
  calls,       \* LLM calls so far, failed ones included
  iteration,   \* state.iteration
  findingsAt,  \* the iteration that ended with the first finding
  rounds,      \* replanning rounds left
  fixes,       \* fixes that failed
  minted,      \* the highest hypothesis id (seq["H"])
  claim,       \* the stage of every hypothesis
  queue,       \* hypotheses of this dispatch still to be verified
  critiques,   \* critiques still to be routed
  asked,       \* _probes_run, _queries_run and _scripts_run
  specialists, \* the specialists spawned
  saved,       \* the claims in the workspace's state.json
  diagnosis,   \* what the current diagnosis rests on, and whether it is the latest
  consulted,   \* history: how often a source was really used
  unbudgeted   \* history: turns taken without looking at the budget

state   == <<minted, claim>>
history == <<consulted, unbudgeted>>
vars    == <<pc, calls, iteration, findingsAt, rounds, fixes, state, queue, critiques,
             asked, specialists, saved, diagnosis, history>>

Hypotheses == 1 .. MaxHypotheses

Claims == INSTANCE Claims

Findings == Claims!InStage({"confirmed"})
Open     == Claims!InStage(Claims!Underway)

Investigating == fixes = 0
Working  == {"scout", "planner", "loop", "verify", "reverify", "commit", "audit",
             "adjudicate", "report", "propose", "fix"} \cup Actions
Terminal == {"done", "raised"}

------------------------------------------------------------------------------
(* One agent turn. *)

BudgetOk == calls < MaxCalls

\* The steps that run an agent whatever the budget says: a ruling, the report
\* and the proposal.
Unchecked == {"adjudicate", "report", "propose"}

Charge(n) ==
  /\ calls' = calls + n
  /\ unbudgeted' = IF pc \in Unchecked THEN unbudgeted + 1 ELSE unbudgeted

\* The first answer that is JSON counts; every try is a call.  When all of them
\* fail the turn gives no answer, which every step below has among its answers.
Turn == \E n \in 1 .. Attempts : Charge(n)

\* No agent is run.
Silent == UNCHANGED <<calls, unbudgeted>>

\* Workspace.commit; no step that commits changes a claim.
Commit == saved' = claim

------------------------------------------------------------------------------
(* What each agent's apply() makes of the answers a model can give. *)

\* An action that is not on the menu, and no answer, mean "done".
CoordinatorAnswers == Menu \cup {"done"}

\* How many hypotheses: entries without a statement are dropped.
AnalystAnswers == 0 .. (MaxHypotheses - minted)

\* No answer is an inconclusive verdict, and so is a word that is not one.
VerifierAnswers == {"confirmed", "refuted", "inconclusive"}

\* A probe the Verifier suggests; other names are no probes.
SuggestedProbes == Probes \cup {None}

\* A target that names no hypothesis stands for the strategy and for unknown ids.
AuditorAnswers == UNION {[1 .. n -> Hypotheses \cup {None}] : n \in 0 .. MaxCritiques}

AdjudicatorAnswers == {"uphold", "dismiss"}

\* The Prober's, Librarian's and Coder's choice; None declines, or is unknown.
ConsultationAnswers(kind) == Sources[kind] \cup {None}

\* No form, "none" (perhaps with values it needs), or a form for the catalog.
RemediatorAnswers == {"failed", "none", "form"}

------------------------------------------------------------------------------
(* Before the loop. *)

\* Whatever Scout and Planner answer only seeds leads, evidence and checks; the
\* budget is not looked at.
Opening(step, next) ==
  /\ pc = step
  /\ Turn
  /\ pc' = next
  /\ UNCHANGED <<iteration, findingsAt, rounds, fixes, state, queue, critiques, asked,
                 specialists, diagnosis, consulted>>
  /\ Commit

Scout   == Opening("scout", "planner")
Planner == Opening("planner", "loop")

------------------------------------------------------------------------------
(* The loop: of investigate, or of _replan_after_failed_fix. *)

\* Mutant of MoreRounds: the bound of the loop is dropped.
MoreRoundsUnbounded == BudgetOk

MoreRounds ==
  /\ BudgetOk
  /\ IF Investigating THEN iteration < MaxIterations ELSE rounds > 0

\* A probe tests a hypothesis: without one the Analyst comes first.
Routed(action) ==
  IF action = "done" THEN "audit"
  ELSE IF action = "probe" /\ Open \cup Findings = {} THEN "analyze"
  ELSE action

Coordinate ==
  /\ pc = "loop" /\ MoreRounds
  /\ iteration' = iteration + 1
  /\ rounds' = IF Investigating THEN rounds ELSE rounds - 1
  /\ Turn
  /\ \E action \in CoordinatorAnswers : pc' = Routed(action)
  /\ UNCHANGED <<findingsAt, fixes, state, queue, critiques, asked, specialists, saved,
                 diagnosis, consulted>>

LeaveLoop ==
  /\ pc = "loop" /\ ~MoreRounds
  /\ Silent
  /\ pc' = "audit"
  /\ UNCHANGED <<iteration, findingsAt, rounds, fixes, state, queue, critiques, asked,
                 specialists, saved, diagnosis, consulted>>

------------------------------------------------------------------------------
(* What is asked of the world. *)

\* Mutant of Ask: a source is marked when it has answered.
AskThenMark(s) ==
  IF s \in asked THEN UNCHANGED <<asked, consulted>>
  ELSE /\ asked' \in {asked, asked \cup {s}}
       /\ consulted' = [consulted EXCEPT ![s] = @ + 1]

\* A probe, a query or a script is marked and then used, so that one that fails
\* is not used again.  A gate that says no or a backend that is not configured
\* leaves it unused.
Ask(s) ==
  IF s \in asked THEN UNCHANGED <<asked, consulted>>
  ELSE /\ asked' = asked \cup {s}
       /\ \/ consulted' = [consulted EXCEPT ![s] = @ + 1]
          \/ UNCHANGED consulted

Consult(kind) ==
  /\ pc = kind
  /\ Turn
  /\ \E s \in ConsultationAnswers(kind) :
       IF s = None THEN UNCHANGED <<asked, consulted>> ELSE Ask(s)
  /\ pc' = "commit"
  /\ UNCHANGED <<iteration, findingsAt, rounds, fixes, state, queue, critiques,
                 specialists, saved, diagnosis>>

\* A specialty that is new when all are spawned, or that was not named, costs
\* nothing; a known one is consulted again.
Declined(s) ==
  s = None \/ (s \notin specialists /\ Cardinality(specialists) >= MaxSpecialists)

Specialist ==
  /\ pc = "specialist"
  /\ \E s \in Specialties \cup {None} :
       IF Declined(s) THEN Silent /\ UNCHANGED specialists
       ELSE Turn /\ specialists' = specialists \cup {s}
  /\ pc' = "commit"
  /\ UNCHANGED <<iteration, findingsAt, rounds, fixes, state, queue, critiques, asked,
                 saved, diagnosis, consulted>>

\* Any other registered action agent records evidence and no more.
Custom ==
  /\ pc = "custom"
  /\ Turn
  /\ pc' = "commit"
  /\ UNCHANGED <<iteration, findingsAt, rounds, fixes, state, queue, critiques, asked,
                 specialists, saved, diagnosis, consulted>>

------------------------------------------------------------------------------
(* Hypotheses. *)

Analyze ==
  /\ pc = "analyze"
  /\ Turn
  /\ \E n \in AnalystAnswers :
       /\ minted' = minted + n
       /\ queue' = minted + 1 .. minted + n
       /\ Claims!Propose(queue')
       /\ pc' = IF n = 0 THEN "commit" ELSE "verify"
  /\ UNCHANGED <<iteration, findingsAt, rounds, fixes, critiques, asked, specialists,
                 saved, diagnosis, consulted>>

\* The hypotheses of an answer are verified in the order they were minted.
First(h) == h \in queue /\ \A g \in queue : h <= g

\* Mutant of VerifyNext: the first verdict ends the dispatch.
VerifyNoMore(h) == queue' = {} /\ pc' = "commit"

VerifyNext(h) ==
  /\ queue' = queue \ {h}
  /\ pc' = IF queue' = {} THEN "commit" ELSE "verify"

\* The budget is looked at before each; once it is spent the rest stays as it is.
SkipVerification ==
  /\ pc = "verify" /\ ~BudgetOk
  /\ Silent
  /\ queue' = {} /\ pc' = "commit"
  /\ UNCHANGED <<iteration, findingsAt, rounds, fixes, state, critiques, asked,
                 specialists, saved, diagnosis, consulted>>

\* One verdict; an inconclusive one may run a probe and be judged once more.
Verify ==
  /\ pc = "verify" /\ BudgetOk
  /\ Turn
  /\ \E h \in queue, verdict \in VerifierAnswers, probe \in SuggestedProbes :
       /\ First(h)
       /\ Claims!Move(h, verdict)
       /\ IF verdict = "inconclusive" /\ probe # None /\ calls' < MaxCalls
            THEN Ask(probe) /\ pc' = "reverify" /\ UNCHANGED queue
            ELSE VerifyNext(h) /\ UNCHANGED <<asked, consulted>>
  /\ UNCHANGED <<iteration, findingsAt, rounds, fixes, minted, critiques, specialists,
                 saved, diagnosis>>

Reverify ==
  /\ pc = "reverify"
  /\ Turn
  /\ \E h \in queue, verdict \in VerifierAnswers :
       First(h) /\ Claims!Move(h, verdict) /\ VerifyNext(h)
  /\ UNCHANGED <<iteration, findingsAt, rounds, fixes, minted, critiques, asked,
                 specialists, saved, diagnosis, consulted>>

------------------------------------------------------------------------------
(* The end of an iteration, the audit and the report. *)

\* Mutant of EndIteration: only an iteration that confirmed something is saved.
EndIterationUnsaved ==
  /\ pc = "commit"
  /\ Silent
  /\ findingsAt' = IF Investigating /\ Findings # {} /\ findingsAt = None
                     THEN iteration ELSE findingsAt
  /\ pc' = IF Investigating /\ findingsAt' # None
                /\ iteration - findingsAt' >= ExtraIterations
              THEN "audit" ELSE "loop"
  /\ IF Findings # {} THEN Commit ELSE UNCHANGED saved
  /\ UNCHANGED <<iteration, rounds, fixes, state, queue, critiques, asked, specialists,
                 diagnosis, consulted>>

\* Early stop: a few iterations after the first finding.
EndIteration ==
  /\ pc = "commit"
  /\ Silent
  /\ findingsAt' = IF Investigating /\ Findings # {} /\ findingsAt = None
                     THEN iteration ELSE findingsAt
  /\ pc' = IF Investigating /\ findingsAt' # None
                /\ iteration - findingsAt' >= ExtraIterations
              THEN "audit" ELSE "loop"
  /\ UNCHANGED <<iteration, rounds, fixes, state, queue, critiques, asked, specialists,
                 diagnosis, consulted>>
  /\ Commit

\* Mutant of AuditEnds: a replanning keeps the diagnosis it began with.
AuditEndsUnreported ==
  /\ pc' = IF Investigating THEN "report" ELSE "propose"
  /\ IF Investigating THEN Commit ELSE UNCHANGED saved

\* The audit of an investigation is committed, that of a replanning is not.
AuditEnds ==
  /\ pc' = "report"
  /\ IF Investigating THEN Commit ELSE UNCHANGED saved

SkipAudit ==
  /\ pc = "audit" /\ (~BudgetOk \/ Findings = {})
  /\ Silent
  /\ IF BudgetOk THEN AuditEnds ELSE pc' = "report" /\ UNCHANGED saved
  /\ UNCHANGED <<iteration, findingsAt, rounds, fixes, state, queue, critiques, asked,
                 specialists, diagnosis, consulted>>

Audit ==
  /\ pc = "audit" /\ BudgetOk /\ Findings # {}
  /\ Turn
  /\ critiques' \in AuditorAnswers
  /\ pc' = "adjudicate"
  /\ UNCHANGED <<iteration, findingsAt, rounds, fixes, state, queue, asked, specialists,
                 saved, diagnosis, consulted>>

\* Mutant of Challenged: the critique is matched with the findings that were there
\* when the audit began.
ChallengedOnce(h) == h # None /\ claim[h] \in {"confirmed", "refuted", "demoted"}

\* The finding a critique names, looked up when its turn comes: a ruling on an
\* earlier critique may have demoted it.
Challenged(h) == h \in Findings

\* Mutant of NoteConcern: the critique is not taken off the list.
NoteConcernAgain ==
  /\ pc = "adjudicate" /\ critiques # <<>> /\ ~Challenged(Head(critiques))
  /\ Silent
  /\ UNCHANGED <<pc, iteration, findingsAt, rounds, fixes, state, queue, critiques, asked,
                 specialists, saved, diagnosis, consulted>>

\* A concern that names no finding becomes a note.
NoteConcern ==
  /\ pc = "adjudicate" /\ critiques # <<>> /\ ~Challenged(Head(critiques))
  /\ Silent
  /\ critiques' = Tail(critiques)
  /\ UNCHANGED <<pc, iteration, findingsAt, rounds, fixes, state, queue, asked,
                 specialists, saved, diagnosis, consulted>>

Adjudicate ==
  /\ pc = "adjudicate" /\ critiques # <<>> /\ Challenged(Head(critiques))
  /\ Turn
  /\ \E ruling \in AdjudicatorAnswers :
       IF ruling = "uphold" THEN Claims!Move(Head(critiques), "demoted")
       ELSE UNCHANGED claim
  /\ critiques' = Tail(critiques)
  /\ UNCHANGED <<pc, iteration, findingsAt, rounds, fixes, minted, queue, asked,
                 specialists, saved, diagnosis, consulted>>

CloseAudit ==
  /\ pc = "adjudicate" /\ critiques = <<>>
  /\ Silent
  /\ UNCHANGED <<iteration, findingsAt, rounds, fixes, state, queue, critiques, asked,
                 specialists, diagnosis, consulted>>
  /\ AuditEnds

\* The best of the findings, without the Reporter.
FallbackDiagnosis == [basis |-> Findings, latest |-> TRUE]

\* The Reporter sees the findings there are; when it fails, an investigation has
\* the fallback, and a replanning keeps the diagnosis it had.
Report ==
  /\ pc = "report"
  /\ Turn
  /\ \/ diagnosis' = [basis |-> Findings, latest |-> TRUE]
     \/ Investigating /\ diagnosis' = FallbackDiagnosis
     \/ ~Investigating /\ diagnosis' = [basis |-> diagnosis.basis, latest |-> FALSE]
  /\ pc' \in IF Investigating THEN {"done", "propose"} ELSE {"propose"}
  /\ UNCHANGED <<iteration, findingsAt, rounds, fixes, state, queue, critiques, asked,
                 specialists, consulted>>
  /\ IF Investigating THEN Commit ELSE UNCHANGED saved

------------------------------------------------------------------------------
(* --fix *)

\* An answer is committed, whatever the catalog says of it.
Propose ==
  /\ pc = "propose"
  /\ Turn
  /\ \E answer \in RemediatorAnswers :
       /\ pc' \in IF answer = "form" THEN {"fix", "done"} ELSE {"done"}
       /\ saved' = IF answer = "failed" THEN saved ELSE claim
  /\ UNCHANGED <<iteration, findingsAt, rounds, fixes, state, queue, critiques, asked,
                 specialists, diagnosis, consulted>>

\* The fix did not help: the team goes back to the loop if an attempt is left.
FixFails ==
  /\ pc = "fix"
  /\ Silent
  /\ fixes' = fixes + 1
  /\ rounds' = ReplanRounds
  /\ pc' = IF fixes' < MaxFixes THEN "loop" ELSE "done"
  /\ UNCHANGED <<iteration, findingsAt, state, queue, critiques, asked, specialists,
                 saved, diagnosis, consulted>>

\* It helped, or was refused, or is too risky.
FixEnds ==
  /\ pc = "fix"
  /\ Silent
  /\ pc' = "done"
  /\ UNCHANGED <<iteration, findingsAt, rounds, fixes, state, queue, critiques, asked,
                 specialists, saved, diagnosis, consulted>>

------------------------------------------------------------------------------
(* An exception leaves the engine. *)

\* An agent is due.
AgentTurn ==
  \/ pc \in {"scout", "planner", "reverify", "report", "propose"} \cup (Actions \ {"specialist"})
  \/ pc = "loop" /\ MoreRounds
  \/ pc = "verify" /\ BudgetOk
  \/ pc = "audit" /\ BudgetOk /\ Findings # {}
  \/ pc = "adjudicate" /\ critiques # <<>> /\ Challenged(Head(critiques))
  \/ pc = "specialist" /\ \E s \in Specialties : ~Declined(s)

\* The workload is read, or the workspace written, outside an agent's turn.
TouchesTheOutside ==
  \/ pc \in {"scout", "commit", "propose", "fix"}
  \/ pc = "report" /\ ~Investigating
  \/ pc = "audit" /\ Investigating /\ BudgetOk /\ Findings = {}
  \/ pc = "adjudicate" /\ Investigating /\ critiques = <<>>

\* The context cannot be collected, the workspace cannot be written, or an answer
\* is JSON but no object: _call lets it pass and apply() does not survive it.
Derail ==
  /\ \/ AgentTurn /\ Turn
     \/ TouchesTheOutside /\ Silent
  /\ pc' = "raised"
  /\ UNCHANGED <<iteration, findingsAt, rounds, fixes, state, queue, critiques, asked,
                 specialists, saved, diagnosis, consulted>>

------------------------------------------------------------------------------
Init ==
  /\ pc = "scout"
  /\ calls = 0 /\ iteration = 0 /\ findingsAt = None /\ rounds = 0 /\ fixes = 0
  /\ minted = 0
  /\ claim = [h \in Hypotheses |-> "absent"]
  /\ queue = {} /\ critiques = <<>> /\ asked = {} /\ specialists = {}
  /\ saved = claim
  /\ diagnosis = [basis |-> {}, latest |-> FALSE]
  /\ consulted = [s \in AllSources |-> 0]
  /\ unbudgeted = 0

Loop  == Coordinate \/ LeaveLoop \/ EndIteration
Gather == Specialist \/ Custom \/ \E kind \in Consultations : Consult(kind)
Judge == Analyze \/ SkipVerification \/ Verify \/ Reverify
Review == SkipAudit \/ Audit \/ NoteConcern \/ Adjudicate \/ CloseAudit
Fix   == Propose \/ FixFails \/ FixEnds

Next == Scout \/ Planner \/ Loop \/ Gather \/ Judge \/ Review \/ Report \/ Fix \/ Derail

\* One thread, and every LLM call, probe, search and script has a timeout.
Spec == Init /\ [][Next]_vars /\ WF_vars(Next)

------------------------------------------------------------------------------
(* Properties. *)

\* Every variable stays in its range; the rounds of a replanning, the fixes and the
\* specialists stay within what was configured.
TypeOK ==
  /\ pc \in Working \cup Terminal
  /\ calls \in Nat /\ unbudgeted \in Nat
  /\ iteration \in Nat /\ findingsAt \in Nat \cup {None}
  /\ rounds \in 0 .. ReplanRounds
  /\ fixes \in 0 .. MaxFixes
  /\ minted \in 0 .. MaxHypotheses
  /\ claim \in [Hypotheses -> Claims!Stages]
  /\ saved \in [Hypotheses -> Claims!Stages]
  /\ queue \subseteq Hypotheses
  /\ critiques \in Seq(Hypotheses \cup {None}) /\ Len(critiques) <= MaxCritiques
  /\ asked \subseteq AllSources
  /\ consulted \in [AllSources -> Nat]
  /\ specialists \subseteq Specialties /\ Cardinality(specialists) <= MaxSpecialists
  /\ diagnosis \in [basis : SUBSET Hypotheses, latest : BOOLEAN]

\* max_llm_calls: the budget is overshot by one dispatch at most, whose agents can
\* make three more calls, and by the turns that never look at it.
BudgetOverrunIsBounded == calls <= MaxCalls + 3 + 2 * unbudgeted

\* A hypothesis is left without a verdict only if there was no budget for one.
UnjudgedOnlyWhenSpent ==
  \A h \in Hypotheses \ queue : claim[h] = "proposed" => ~BudgetOk

\* No probe, query or script is used twice in a run, whoever asks for it.
AskedOnce == \A s \in AllSources : consulted[s] <= 1

\* A fix is proposed for a diagnosis that rests on the findings that stand, after
\* every audit and replanning, unless the last report failed.
DiagnosisRestsOnFindings ==
  pc \in {"propose", "fix"} /\ diagnosis.latest => diagnosis.basis = Findings

\* A kill between two commits loses what the current iteration found and no more:
\* at its head, and while a fix is tried, the workspace holds every claim as it
\* stands.
IterationsStartSaved == pc \in {"loop", "fix"} => saved = claim

\* The engine and its agents do with claims what the claim state promises.
ClaimsAreKept == Claims!Spec

\* The run ends, whatever the agents answer.
Termination == <>(pc \in Terminal)
=============================================================================
