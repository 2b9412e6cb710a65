------------------------ MODULE InvestigationProofs ------------------------
(***************************************************************************)
(* For every menu, budget, number of iterations, replannings, specialists, *)
(* fixes and hypotheses: the budget is overshot by a bounded amount, no    *)
(* hypothesis is left unjudged while there is budget, nothing is asked     *)
(* twice, the diagnosis rests on the findings, an iteration starts saved,  *)
(* and the engine keeps the promises of the claim state.                   *)
(***************************************************************************)
EXTENDS Investigation, FiniteSetTheorems, TLAPS

\* What TypeOK needs beside itself: a run that goes on has a fix left.
FixLeft == pc \notin Terminal => fixes < MaxFixes

\* Only a dispatch of the Analyst has hypotheses in its queue, and none of them
\* has been decided.
QueueIsOpen ==
  /\ pc \notin {"verify", "reverify", "raised"} => queue = {}
  /\ \A h \in queue : claim[h] \in Claims!Underway

\* Ids are minted in order, and what is beyond the last has not been proposed.
MintedInOrder == \A h \in Hypotheses : h > minted => claim[h] = "absent"

\* What has been spent when a step comes that does not look at the budget.
BudgetKept ==
  /\ pc = "scout" => calls = 0
  /\ pc = "planner" => calls <= Attempts
  /\ pc \in Actions => calls < MaxCalls + Attempts
  /\ pc = "reverify" => calls < MaxCalls

\* Nothing is used that has not been marked.
MarkedFirst == \A s \in AllSources : s \notin asked => consulted[s] = 0

Typed == TypeOK /\ IsFiniteSet(specialists) /\ FixLeft

EngineInv ==
  /\ Typed /\ QueueIsOpen /\ MintedInOrder /\ BudgetKept /\ MarkedFirst
  /\ BudgetOverrunIsBounded /\ UnjudgedOnlyWhenSpent /\ AskedOnce
  /\ DiagnosisRestsOnFindings /\ IterationsStartSaved

------------------------------------------------------------------------------
(* The pieces of a step. *)

\* A turn costs one or two calls, and is counted if nobody looked at the budget.
LEMMA TurnCosts ==
  ASSUME calls \in Nat, unbudgeted \in Nat, Turn
  PROVE  /\ calls' \in Nat /\ calls < calls' /\ calls' <= calls + 2
         /\ unbudgeted' \in Nat
         /\ pc \in Unchecked => unbudgeted' = unbudgeted + 1
         /\ pc \notin Unchecked => unbudgeted' = unbudgeted
BY DEF Turn, Charge, Attempts

LEMMA FindingsAreHypotheses == Findings \subseteq Hypotheses
BY DEF Findings, Claims!InStage

LEMMA MoveTyped ==
  ASSUME claim \in [Hypotheses -> Claims!Stages], NEW h \in Hypotheses,
         NEW stage \in Claims!Stages, Claims!Move(h, stage)
  PROVE  /\ claim' \in [Hypotheses -> Claims!Stages]
         /\ claim'[h] = stage
         /\ \A g \in Hypotheses : g # h => claim'[g] = claim[g]
BY DEF Claims!Move

\* A source is used once more only if it was not marked.
LEMMA AskTyped ==
  ASSUME asked \subseteq AllSources, consulted \in [AllSources -> Nat],
         NEW s \in AllSources, Ask(s)
  PROVE  /\ asked' \subseteq AllSources /\ consulted' \in [AllSources -> Nat]
         /\ asked \subseteq asked'
         /\ \A r \in AllSources :
              \/ consulted'[r] = consulted[r]
              \/ r \notin asked /\ r \in asked' /\ consulted'[r] = consulted[r] + 1
BY DEF Ask

\* A new specialist is spawned only below the limit.
LEMMA SpecialistsTyped ==
  ASSUME specialists \subseteq Specialties, IsFiniteSet(specialists),
         Cardinality(specialists) <= MaxSpecialists,
         NEW s \in Specialties \cup {None}, ~Declined(s)
  PROVE  /\ specialists \cup {s} \subseteq Specialties
         /\ IsFiniteSet(specialists \cup {s})
         /\ Cardinality(specialists \cup {s}) <= MaxSpecialists
<1>1. s \in Specialties
  BY DEF Declined
<1>2. CASE s \in specialists
  <2>1. specialists \cup {s} = specialists
    BY <1>2
  <2> QED
    BY <2>1
<1>3. CASE s \notin specialists
  <2>1. Cardinality(specialists) \in Nat
    BY FS_CardinalityType
  <2>2. Cardinality(specialists) < MaxSpecialists
    BY <1>3, <2>1, BoundAssumption DEF Declined
  <2>3. /\ IsFiniteSet(specialists \cup {s})
        /\ Cardinality(specialists \cup {s}) = Cardinality(specialists) + 1
    BY <1>3, FS_AddElement
  <2> QED
    BY <1>1, <2>1, <2>2, <2>3, BoundAssumption
<1> QED
  BY <1>2, <1>3

\* What the Auditor answers is a short list.
LEMMA CritiquesTyped ==
  ASSUME NEW c \in AuditorAnswers
  PROVE  c \in Seq(Hypotheses \cup {None}) /\ Len(c) <= MaxCritiques
<1>1. PICK n \in 0 .. MaxCritiques : c \in [1 .. n -> Hypotheses \cup {None}]
  BY DEF AuditorAnswers
<1> QED
  BY <1>1, BoundAssumption

------------------------------------------------------------------------------
(* Types. *)

\* A step of the engine leaves most of the state alone.
LEMMA LoopTyped ==
  ASSUME Typed, Scout \/ Planner \/ Loop
  PROVE  Typed'
<1>1. calls \in Nat /\ unbudgeted \in Nat
  BY DEF Typed, TypeOK
<1>2. CASE Scout \/ Planner
  BY <1>1, <1>2, TurnCosts DEF Typed, TypeOK, FixLeft, Scout, Planner, Opening, Commit, state,
     Working, Terminal
<1>3. CASE Coordinate
  <2>1. calls' \in Nat /\ unbudgeted' \in Nat
    BY <1>1, <1>3, TurnCosts DEF Coordinate
  <2>2. pc' \in Working
    BY <1>3, MenuAssumption DEF Coordinate, CoordinatorAnswers, Routed, Working, Actions,
       Consultations
  <2>3. iteration' \in Nat /\ rounds' \in 0 .. ReplanRounds
    BY <1>3, BoundAssumption DEF Coordinate, MoreRounds, Typed, TypeOK
  <2> QED
    BY <1>3, <2>1, <2>2, <2>3 DEF Coordinate, Typed, TypeOK, FixLeft, state, Terminal
<1>4. CASE LeaveLoop
  BY <1>1, <1>4 DEF LeaveLoop, Silent, Typed, TypeOK, FixLeft, state, Working, Terminal
<1>5. CASE EndIteration
  BY <1>1, <1>5 DEF EndIteration, Silent, Commit, Typed, TypeOK, FixLeft, state, Working, Terminal
<1> QED
  BY <1>2, <1>3, <1>4, <1>5 DEF Loop

LEMMA GatherTyped ==
  ASSUME Typed, Gather
  PROVE  Typed'
<1>1. calls \in Nat /\ unbudgeted \in Nat
  BY DEF Typed, TypeOK
<1>2. ASSUME NEW kind \in Consultations, Consult(kind)
      PROVE  Typed'
  <2>1. calls' \in Nat /\ unbudgeted' \in Nat
    BY <1>1, <1>2, TurnCosts DEF Consult
  <2>2. asked' \subseteq AllSources /\ consulted' \in [AllSources -> Nat]
    <3>1. PICK s \in ConsultationAnswers(kind) :
            IF s = None THEN UNCHANGED <<asked, consulted>> ELSE Ask(s)
      BY <1>2 DEF Consult
    <3>2. CASE s = None
      BY <3>1, <3>2 DEF Typed, TypeOK
    <3>3. CASE s # None
      <4>1. s \in AllSources
        BY <3>3 DEF ConsultationAnswers, AllSources
      <4> QED
        BY <3>1, <3>3, <4>1, AskTyped DEF Typed, TypeOK
    <3> QED
      BY <3>2, <3>3
  <2> QED
    BY <1>2, <2>1, <2>2 DEF Consult, Typed, TypeOK, FixLeft, state, Working, Terminal,
       Consultations
<1>3. CASE Specialist
  <2>1. PICK s \in Specialties \cup {None} :
          IF Declined(s) THEN Silent /\ UNCHANGED specialists
          ELSE Turn /\ specialists' = specialists \cup {s}
    BY <1>3 DEF Specialist
  <2>2. calls' \in Nat /\ unbudgeted' \in Nat
    BY <1>1, <2>1, TurnCosts DEF Silent
  <2>3. /\ specialists' \subseteq Specialties /\ IsFiniteSet(specialists')
        /\ Cardinality(specialists') <= MaxSpecialists
    BY <2>1, SpecialistsTyped DEF Typed, TypeOK
  <2> QED
    BY <1>3, <2>2, <2>3 DEF Specialist, Typed, TypeOK, FixLeft, state, Working, Terminal
<1>4. CASE Custom
  BY <1>1, <1>4, TurnCosts DEF Custom, Typed, TypeOK, FixLeft, state, Working, Terminal
<1> QED
  BY <1>2, <1>3, <1>4 DEF Gather

LEMMA JudgeTyped ==
  ASSUME Typed, Judge
  PROVE  Typed'
<1>1. calls \in Nat /\ unbudgeted \in Nat
  BY DEF Typed, TypeOK
<1>2. CASE Analyze
  <2>1. PICK n \in AnalystAnswers :
          /\ minted' = minted + n
          /\ queue' = minted + 1 .. minted + n
          /\ Claims!Propose(queue')
          /\ pc' = IF n = 0 THEN "commit" ELSE "verify"
    BY <1>2 DEF Analyze
  <2>2. minted' \in 0 .. MaxHypotheses /\ queue' \subseteq Hypotheses
    BY <2>1, BoundAssumption DEF AnalystAnswers, Hypotheses, Typed, TypeOK
  <2>3. claim' \in [Hypotheses -> Claims!Stages]
    BY <2>1 DEF Claims!Propose, Claims!Stages, Typed, TypeOK
  <2>4. calls' \in Nat /\ unbudgeted' \in Nat
    BY <1>1, <1>2, TurnCosts DEF Analyze
  <2> QED
    BY <1>2, <2>1, <2>2, <2>3, <2>4 DEF Analyze, Typed, TypeOK, FixLeft, Working, Terminal
<1>3. CASE SkipVerification
  BY <1>1, <1>3 DEF SkipVerification, Silent, Typed, TypeOK, FixLeft, state, Working, Terminal
<1>4. CASE Verify
  <2>1. PICK h \in queue, verdict \in VerifierAnswers, probe \in SuggestedProbes :
          /\ Claims!Move(h, verdict)
          /\ IF verdict = "inconclusive" /\ probe # None /\ calls' < MaxCalls
               THEN Ask(probe) /\ pc' = "reverify" /\ UNCHANGED queue
               ELSE VerifyNext(h) /\ UNCHANGED <<asked, consulted>>
    BY <1>4 DEF Verify
  <2>2. claim' \in [Hypotheses -> Claims!Stages]
    BY <2>1, MoveTyped DEF VerifierAnswers, Claims!Stages, Typed, TypeOK
  <2>3. /\ asked' \subseteq AllSources /\ consulted' \in [AllSources -> Nat]
        /\ queue' \subseteq Hypotheses /\ pc' \in {"reverify", "commit", "verify"}
    <3>1. CASE verdict = "inconclusive" /\ probe # None /\ calls' < MaxCalls
      <4>1. probe \in AllSources
        BY <3>1 DEF SuggestedProbes, Probes, AllSources, Consultations
      <4> QED
        BY <2>1, <3>1, <4>1, AskTyped DEF Typed, TypeOK
    <3>2. CASE ~(verdict = "inconclusive" /\ probe # None /\ calls' < MaxCalls)
      BY <2>1, <3>2 DEF VerifyNext, Typed, TypeOK
    <3> QED
      BY <3>1, <3>2
  <2>4. calls' \in Nat /\ unbudgeted' \in Nat
    BY <1>1, <1>4, TurnCosts DEF Verify
  <2> QED
    BY <1>4, <2>2, <2>3, <2>4 DEF Verify, Typed, TypeOK, FixLeft, Working, Terminal
<1>5. CASE Reverify
  <2>1. PICK h \in queue, verdict \in VerifierAnswers :
          Claims!Move(h, verdict) /\ VerifyNext(h)
    BY <1>5 DEF Reverify
  <2>2. claim' \in [Hypotheses -> Claims!Stages]
    BY <2>1, MoveTyped DEF VerifierAnswers, Claims!Stages, Typed, TypeOK
  <2>3. calls' \in Nat /\ unbudgeted' \in Nat
    BY <1>1, <1>5, TurnCosts DEF Reverify
  <2> QED
    BY <1>5, <2>1, <2>2, <2>3 DEF Reverify, VerifyNext, Typed, TypeOK, FixLeft, Working, Terminal
<1> QED
  BY <1>2, <1>3, <1>4, <1>5 DEF Judge

LEMMA ReviewTyped ==
  ASSUME Typed, Review
  PROVE  Typed'
<1>1. calls \in Nat /\ unbudgeted \in Nat
  BY DEF Typed, TypeOK
<1>2. CASE SkipAudit
  BY <1>1, <1>2 DEF SkipAudit, AuditEnds, Commit, Silent, Typed, TypeOK, FixLeft, state,
     Working, Terminal
<1>3. CASE Audit
  <2>1. critiques' \in Seq(Hypotheses \cup {None}) /\ Len(critiques') <= MaxCritiques
    BY <1>3, CritiquesTyped DEF Audit
  <2> QED
    BY <1>1, <1>3, <2>1, TurnCosts DEF Audit, Typed, TypeOK, FixLeft, state, Working, Terminal
<1>4. ASSUME critiques # <<>>
      PROVE  /\ Tail(critiques) \in Seq(Hypotheses \cup {None})
             /\ Len(Tail(critiques)) <= MaxCritiques
  BY <1>4, BoundAssumption DEF Typed, TypeOK
<1>5. CASE NoteConcern
  BY <1>1, <1>4, <1>5 DEF NoteConcern, Silent, Typed, TypeOK, FixLeft, state
<1>6. CASE Adjudicate
  <2>1. Head(critiques) \in Hypotheses
    BY <1>6, FindingsAreHypotheses DEF Adjudicate, Challenged
  <2>2. claim' \in [Hypotheses -> Claims!Stages]
    BY <1>6, <2>1, MoveTyped DEF Adjudicate, Claims!Stages, Typed, TypeOK
  <2>3. calls' \in Nat /\ unbudgeted' \in Nat
    BY <1>1, <1>6, TurnCosts DEF Adjudicate
  <2> QED
    BY <1>4, <1>6, <2>2, <2>3 DEF Adjudicate, Typed, TypeOK, FixLeft
<1>7. CASE CloseAudit
  BY <1>1, <1>7 DEF CloseAudit, AuditEnds, Commit, Silent, Typed, TypeOK, FixLeft, state,
     Working, Terminal
<1> QED
  BY <1>2, <1>3, <1>5, <1>6, <1>7 DEF Review

LEMMA EndTyped ==
  ASSUME Typed, Report \/ Fix \/ Derail
  PROVE  Typed'
<1>1. calls \in Nat /\ unbudgeted \in Nat
  BY DEF Typed, TypeOK
<1>2. CASE Report
  <2>1. diagnosis' \in [basis : SUBSET Hypotheses, latest : BOOLEAN]
    <3>1. \E b \in {Findings, diagnosis.basis}, l \in BOOLEAN :
            diagnosis' = [basis |-> b, latest |-> l]
      BY <1>2 DEF Report, FallbackDiagnosis
    <3>2. Findings \in SUBSET Hypotheses /\ diagnosis.basis \in SUBSET Hypotheses
      BY FindingsAreHypotheses DEF Typed, TypeOK
    <3> QED
      BY <3>1, <3>2
  <2>2. UNCHANGED <<iteration, findingsAt, rounds, fixes, state, queue, critiques, asked,
                    specialists, consulted>>
    BY <1>2 DEF Report
  <2>3. pc = "report" /\ pc' \in {"done", "propose"} /\ Turn /\ saved' \in {saved, claim}
    BY <1>2, Zenon DEF Report, Commit
  <2> QED
    BY <1>1, <2>1, <2>2, <2>3, TurnCosts DEF Typed, TypeOK, FixLeft, state, Working, Terminal
<1>3. CASE Propose
  BY <1>1, <1>3, TurnCosts DEF Propose, Typed, TypeOK, FixLeft, state, Working, Terminal
<1>4. CASE FixFails
  BY <1>1, <1>4, BoundAssumption DEF FixFails, Silent, Typed, TypeOK, FixLeft, state,
     Working, Terminal
<1>5. CASE FixEnds
  BY <1>1, <1>5 DEF FixEnds, Silent, Typed, TypeOK, FixLeft, state, Terminal
<1>6. CASE Derail
  BY <1>1, <1>6, TurnCosts DEF Derail, Silent, Typed, TypeOK, FixLeft, state, Terminal
<1> QED
  BY <1>2, <1>3, <1>4, <1>5, <1>6 DEF Fix

LEMMA TypedStep ==
  ASSUME Typed, Next
  PROVE  Typed'
BY LoopTyped, GatherTyped, JudgeTyped, ReviewTyped, EndTyped DEF Next

------------------------------------------------------------------------------
(* Who moves what. *)

\* Four steps move claims; two of them, and the two that fill and drop the queue,
\* move the queue.
LEMMA ClaimMovers ==
  ASSUME Next
  PROVE  UNCHANGED <<minted, claim>> \/ Analyze \/ Verify \/ Reverify \/ Adjudicate
BY DEF Next, Scout, Planner, Opening, Loop, Coordinate, LeaveLoop, EndIteration, Gather,
       Specialist, Custom, Consult, Judge, SkipVerification, Review, SkipAudit, Audit,
       NoteConcern, CloseAudit, Report, Fix, Propose, FixFails, FixEnds, Derail, state

LEMMA QueueMovers ==
  ASSUME Next
  PROVE  \/ /\ UNCHANGED queue /\ pc' \notin {"verify", "reverify"}
            /\ pc' # "raised" => pc \notin {"verify", "reverify", "raised"}
         \/ Analyze \/ SkipVerification \/ Verify \/ Reverify
<1>1. CASE Scout \/ Planner \/ LeaveLoop \/ EndIteration
  BY <1>1 DEF Scout, Planner, Opening, LeaveLoop, EndIteration
<1>2. CASE Coordinate
  BY <1>2, MenuAssumption DEF Coordinate, CoordinatorAnswers, Routed, Actions, Consultations
<1>3. CASE Gather
  BY <1>3 DEF Gather, Specialist, Custom, Consult, Consultations
<1>4. CASE Judge
  BY <1>4 DEF Judge
<1>5. CASE Review
  BY <1>5 DEF Review, SkipAudit, Audit, NoteConcern, Adjudicate, CloseAudit, AuditEnds
<1>6. CASE Report
  <2>1. UNCHANGED queue
    BY <1>6 DEF Report
  <2>2. pc = "report" /\ pc' \in {"done", "propose"}
    BY <1>6, Zenon DEF Report
  <2> QED
    BY <2>1, <2>2
<1>7. CASE Fix
  BY <1>7 DEF Fix, Propose, FixFails, FixEnds
<1>8. CASE Derail
  BY <1>8 DEF Derail
<1> QED
  BY <1>1, <1>2, <1>3, <1>4, <1>5, <1>6, <1>7, <1>8 DEF Next, Loop

\* The Analyst's hypotheses are new, and all of them are queued.
LEMMA Proposals ==
  ASSUME Typed, Analyze
  PROVE  /\ minted <= minted' /\ queue' = minted + 1 .. minted'
         /\ queue' \subseteq Hypotheses
         /\ Claims!Propose(queue')
         /\ \A h \in Hypotheses : claim'[h] = IF h \in queue' THEN "proposed" ELSE claim[h]
         /\ pc' = IF queue' = {} THEN "commit" ELSE "verify"
<1>1. PICK n \in AnalystAnswers :
        /\ minted' = minted + n
        /\ queue' = minted + 1 .. minted + n
        /\ Claims!Propose(queue')
        /\ pc' = IF n = 0 THEN "commit" ELSE "verify"
  BY DEF Analyze
<1>2. n \in Nat /\ minted \in Nat /\ minted + n <= MaxHypotheses
  BY <1>1, BoundAssumption DEF AnalystAnswers, Typed, TypeOK
<1>3. queue' = {} <=> n = 0
  BY <1>1, <1>2
<1>4. queue' \subseteq Hypotheses
  BY <1>1, <1>2, BoundAssumption DEF Hypotheses
<1>5. \A h \in Hypotheses : claim'[h] = IF h \in queue' THEN "proposed" ELSE claim[h]
  BY <1>1 DEF Claims!Propose
<1> QED
  BY <1>1, <1>2, <1>3, <1>4, <1>5

\* A verdict moves one queued hypothesis, and leaves it in the queue only if it is
\* inconclusive and there is budget for another.
LEMMA Verdicts ==
  ASSUME Typed, Verify \/ Reverify
  PROVE  \E h \in queue, verdict \in VerifierAnswers :
           /\ Claims!Move(h, verdict)
           /\ claim'[h] = verdict
           /\ \A g \in Hypotheses : g # h => claim'[g] = claim[g]
           /\ \/ VerifyNext(h)
              \/ verdict = "inconclusive" /\ queue' = queue
                 /\ pc' = "reverify" /\ calls' < MaxCalls
<1>1. PICK h \in queue, verdict \in VerifierAnswers :
        /\ Claims!Move(h, verdict)
        /\ \/ VerifyNext(h)
           \/ verdict = "inconclusive" /\ queue' = queue
              /\ pc' = "reverify" /\ calls' < MaxCalls
  BY DEF Verify, Reverify
<1>2. h \in Hypotheses /\ verdict \in Claims!Stages
  BY DEF Typed, TypeOK, VerifierAnswers, Claims!Stages
<1>3. claim'[h] = verdict /\ \A g \in Hypotheses : g # h => claim'[g] = claim[g]
  BY <1>1, <1>2, MoveTyped DEF Typed, TypeOK
<1> QED
  BY <1>1, <1>3

\* An upheld critique demotes a finding; nothing else moves.
LEMMA Rulings ==
  ASSUME Typed, Adjudicate
  PROVE  \/ UNCHANGED claim
         \/ \E h \in Findings :
              /\ Claims!Move(h, "demoted")
              /\ claim'[h] = "demoted"
              /\ \A g \in Hypotheses : g # h => claim'[g] = claim[g]
<1>1. Head(critiques) \in Findings
  BY DEF Adjudicate, Challenged
<1>2. CASE Claims!Move(Head(critiques), "demoted")
  BY <1>1, <1>2, FindingsAreHypotheses, MoveTyped DEF Typed, TypeOK, Claims!Stages
<1> QED
  BY <1>2 DEF Adjudicate

\* The calls of a run only grow.
LEMMA CallsGrow ==
  ASSUME Typed, Next
  PROVE  calls <= calls'
<1>1. calls \in Nat /\ unbudgeted \in Nat
  BY DEF Typed, TypeOK
<1>2. CASE Turn
  BY <1>1, <1>2, TurnCosts
<1>3. CASE Silent
  BY <1>1, <1>3 DEF Silent
<1> QED
  BY <1>2, <1>3 DEF Next, Scout, Planner, Opening, Loop, Coordinate, LeaveLoop, EndIteration,
     Gather, Specialist, Custom, Consult, Judge, Analyze, SkipVerification, Verify, Reverify,
     Review, SkipAudit, Audit, NoteConcern, Adjudicate, CloseAudit, Report, Fix, Propose,
     FixFails, FixEnds, Derail

------------------------------------------------------------------------------
(* The parts of the invariant. *)

LEMMA QueueStep ==
  ASSUME Typed, QueueIsOpen, Next
  PROVE  QueueIsOpen'
<1>1. CASE Analyze
  BY <1>1, Proposals DEF QueueIsOpen, Claims!Underway
<1>2. CASE SkipVerification
  BY <1>2 DEF SkipVerification, QueueIsOpen
<1>3. CASE Verify \/ Reverify
  <2>1. PICK h \in queue, verdict \in VerifierAnswers :
          /\ claim'[h] = verdict
          /\ \A g \in Hypotheses : g # h => claim'[g] = claim[g]
          /\ \/ VerifyNext(h)
             \/ verdict = "inconclusive" /\ queue' = queue /\ pc' = "reverify"
    BY <1>3, Verdicts
  <2>2. queue \subseteq Hypotheses
    BY DEF Typed, TypeOK
  <2>3. CASE VerifyNext(h)
    BY <2>1, <2>2, <2>3 DEF VerifyNext, QueueIsOpen
  <2>4. CASE verdict = "inconclusive" /\ queue' = queue /\ pc' = "reverify"
    BY <2>1, <2>2, <2>4 DEF QueueIsOpen, Claims!Underway
  <2> QED
    BY <2>1, <2>3, <2>4
<1>4. CASE /\ UNCHANGED queue /\ pc' \notin {"verify", "reverify"}
           /\ pc' # "raised" => pc \notin {"verify", "reverify", "raised"}
           /\ ~(Analyze \/ Verify \/ Reverify)
  <2>1. CASE UNCHANGED claim
    BY <1>4, <2>1 DEF QueueIsOpen
  <2>2. CASE Adjudicate
    <3>1. queue = {}
      BY <2>2 DEF Adjudicate, QueueIsOpen
    <3> QED
      BY <1>4, <3>1 DEF QueueIsOpen
  <2> QED
    BY <1>4, <2>1, <2>2, ClaimMovers
<1>5. \/ /\ UNCHANGED queue /\ pc' \notin {"verify", "reverify"}
         /\ pc' # "raised" => pc \notin {"verify", "reverify", "raised"}
      \/ Analyze \/ SkipVerification \/ Verify \/ Reverify
  BY QueueMovers
<1> QED
  BY <1>1, <1>2, <1>3, <1>4, <1>5

LEMMA MintedStep ==
  ASSUME Typed, QueueIsOpen, MintedInOrder, Next
  PROVE  MintedInOrder'
<1>1. minted \in Nat /\ \A h \in Hypotheses : h \in Nat
  BY BoundAssumption DEF Typed, TypeOK, Hypotheses
<1>2. CASE Analyze
  <2>1. minted' \in Nat
    BY <1>2, TypedStep, BoundAssumption DEF Typed, TypeOK
  <2> QED
    BY <1>1, <1>2, <2>1, Proposals DEF MintedInOrder
<1>3. CASE Verify \/ Reverify
  <2>1. PICK h \in queue, verdict \in VerifierAnswers :
          \A g \in Hypotheses : g # h => claim'[g] = claim[g]
    BY <1>3, Verdicts
  <2>2. h \in Hypotheses /\ claim[h] # "absent" /\ UNCHANGED minted
    BY <1>3 DEF Verify, Reverify, Typed, TypeOK, QueueIsOpen, Claims!Underway
  <2> QED
    BY <2>1, <2>2 DEF MintedInOrder
<1>4. CASE Adjudicate
  <2>1. UNCHANGED minted /\ \A h \in Findings : claim[h] # "absent"
    BY <1>4 DEF Adjudicate, Findings, Claims!InStage
  <2> QED
    BY <1>4, <2>1, Rulings, FindingsAreHypotheses DEF MintedInOrder
<1>5. CASE UNCHANGED <<minted, claim>>
  BY <1>5 DEF MintedInOrder
<1> QED
  BY <1>2, <1>3, <1>4, <1>5, ClaimMovers

\* A hypothesis leaves the queue with a verdict, or when the budget is spent, and
\* calls never come back.
LEMMA UnjudgedStep ==
  ASSUME Typed, QueueIsOpen, UnjudgedOnlyWhenSpent, Next
  PROVE  UnjudgedOnlyWhenSpent'
<1>1. calls \in Nat /\ calls' \in Nat /\ MaxCalls \in Nat /\ calls <= calls'
  BY CallsGrow, TypedStep, BoundAssumption DEF Typed, TypeOK
<1>2. ~BudgetOk => ~BudgetOk'
  BY <1>1 DEF BudgetOk
<1>3. queue \subseteq Hypotheses
  BY DEF Typed, TypeOK
<1>4. CASE Analyze
  <2>1. queue = {}
    BY <1>4 DEF Analyze, QueueIsOpen
  <2> QED
    BY <1>2, <1>4, <2>1, Proposals DEF UnjudgedOnlyWhenSpent
<1>5. CASE SkipVerification
  <2>1. ~BudgetOk
    BY <1>5 DEF SkipVerification
  <2> QED
    BY <1>2, <2>1 DEF UnjudgedOnlyWhenSpent
<1>6. CASE Verify \/ Reverify
  <2>1. PICK h \in queue, verdict \in VerifierAnswers :
          /\ claim'[h] = verdict
          /\ \A g \in Hypotheses : g # h => claim'[g] = claim[g]
          /\ VerifyNext(h) \/ queue' = queue
    BY <1>6, Verdicts
  <2>2. claim'[h] # "proposed" /\ queue \ {h} \subseteq queue'
    BY <2>1 DEF VerifierAnswers, VerifyNext
  <2> QED
    BY <1>2, <1>3, <2>1, <2>2 DEF UnjudgedOnlyWhenSpent
<1>7. CASE UNCHANGED queue /\ Adjudicate
  BY <1>2, <1>7, Rulings DEF UnjudgedOnlyWhenSpent
<1>8. CASE UNCHANGED <<queue, claim>>
  BY <1>2, <1>8 DEF UnjudgedOnlyWhenSpent
<1>9. UNCHANGED <<minted, claim>> \/ Analyze \/ Verify \/ Reverify \/ Adjudicate
  BY ClaimMovers
<1>10. UNCHANGED queue \/ Analyze \/ SkipVerification \/ Verify \/ Reverify
  BY QueueMovers
<1> QED
  BY <1>4, <1>5, <1>6, <1>7, <1>8, <1>9, <1>10

LEMMA SavedStep ==
  ASSUME IterationsStartSaved, Next
  PROVE  IterationsStartSaved'
<1>1. CASE pc' \in {"loop", "fix"}
  BY <1>1, MenuAssumption DEF IterationsStartSaved, Next, Scout, Planner, Opening, Loop, Coordinate,
     CoordinatorAnswers, Routed, Actions, Consultations, LeaveLoop, EndIteration, Commit,
     Gather, Specialist, Custom, Consult, Judge, Analyze, SkipVerification, Verify,
     VerifyNext, Reverify, Review, SkipAudit, Audit, NoteConcern, Adjudicate, CloseAudit,
     AuditEnds, Report, Fix, Propose, FixFails, FixEnds, Derail, state
<1> QED
  BY <1>1 DEF IterationsStartSaved

LEMMA AskedStep ==
  ASSUME Typed, MarkedFirst, AskedOnce, Next
  PROVE  MarkedFirst' /\ AskedOnce'
<1>1. /\ asked \subseteq AllSources /\ consulted \in [AllSources -> Nat]
  BY DEF Typed, TypeOK
<1>2. CASE UNCHANGED <<asked, consulted>>
  BY <1>2 DEF MarkedFirst, AskedOnce
<1>3. CASE \E s \in AllSources : Ask(s)
  <2>1. PICK s \in AllSources : Ask(s)
    BY <1>3
  <2>2. /\ asked \subseteq asked'
        /\ \A r \in AllSources :
             \/ consulted'[r] = consulted[r]
             \/ r \notin asked /\ r \in asked' /\ consulted'[r] = consulted[r] + 1
    BY <1>1, <2>1, AskTyped
  <2> QED
    BY <1>1, <2>2 DEF MarkedFirst, AskedOnce
<1>4. ASSUME NEW kind \in Consultations, Consult(kind)
      PROVE  UNCHANGED <<asked, consulted>> \/ \E s \in AllSources : Ask(s)
  BY <1>4 DEF Consult, ConsultationAnswers, AllSources
<1>5. ASSUME Verify
      PROVE  UNCHANGED <<asked, consulted>> \/ \E s \in AllSources : Ask(s)
  BY <1>5 DEF Verify, SuggestedProbes, Probes, AllSources, Consultations
<1> QED
  BY <1>2, <1>3, <1>4, <1>5 DEF Next, Scout, Planner, Opening, Loop, Coordinate, LeaveLoop,
     EndIteration, Gather, Specialist, Custom, Judge, Analyze, SkipVerification, Reverify,
     Review, SkipAudit, Audit, NoteConcern, Adjudicate, CloseAudit, Report, Fix, Propose,
     FixFails, FixEnds, Derail

\* Where a step that does not look at the budget can be reached from.
LEMMA BudgetKeptStep ==
  ASSUME Typed, BudgetKept, Next
  PROVE  BudgetKept'
<1>1. calls \in Nat /\ unbudgeted \in Nat /\ MaxCalls \in Nat
  BY BoundAssumption DEF Typed, TypeOK
<1>2. CASE Scout \/ Planner
  BY <1>1, <1>2, TurnCosts DEF Scout, Planner, Opening, BudgetKept, Attempts, Actions, Consultations
<1>3. CASE Coordinate
  <2>1. calls' < MaxCalls + Attempts
    BY <1>1, <1>3, TurnCosts DEF Coordinate, MoreRounds, BudgetOk, Attempts
  <2>2. pc' \notin {"scout", "planner", "reverify"}
    BY <1>3, MenuAssumption DEF Coordinate, CoordinatorAnswers, Routed, Actions, Consultations
  <2> QED
    BY <2>1, <2>2 DEF BudgetKept
<1>4. CASE Judge
  <2>1. CASE Analyze
    <3>1. pc' \in {"commit", "verify"}
      BY <2>1, Proposals
    <3> QED
      BY <3>1 DEF BudgetKept, Actions, Consultations
  <2>2. CASE SkipVerification
    BY <2>2 DEF SkipVerification, BudgetKept, Actions, Consultations
  <2>3. CASE Verify \/ Reverify
    <3>1. \/ \E h \in queue : VerifyNext(h)
          \/ pc' = "reverify" /\ calls' < MaxCalls
      BY <2>3, Verdicts
    <3> QED
      BY <3>1 DEF VerifyNext, BudgetKept, Actions, Consultations
  <2> QED
    BY <1>4, <2>1, <2>2, <2>3 DEF Judge
<1>5. CASE Report
  <2>1. pc' \in {"done", "propose"}
    BY <1>5, Zenon DEF Report
  <2> QED
    BY <2>1 DEF BudgetKept, Actions, Consultations
<1>6. CASE NoteConcern \/ Adjudicate
  BY <1>6 DEF NoteConcern, Adjudicate, BudgetKept, Actions, Consultations
<1>7. CASE SkipAudit \/ Audit \/ CloseAudit
  BY <1>7 DEF SkipAudit, Audit, CloseAudit, AuditEnds, BudgetKept, Actions, Consultations
<1>8. CASE LeaveLoop \/ EndIteration \/ Gather \/ Fix \/ Derail
  <2>1. pc' \in {"audit", "loop", "commit", "fix", "done", "raised"}
    BY <1>8 DEF LeaveLoop, EndIteration, Gather, Specialist, Custom, Consult, Fix, Propose,
       FixFails, FixEnds, Derail
  <2> QED
    BY <2>1 DEF BudgetKept, Actions, Consultations
<1> QED
  BY <1>2, <1>3, <1>4, <1>5, <1>6, <1>7, <1>8 DEF Next, Loop, Review

\* A turn that looked at the budget adds two calls to less than the budget, the turn
\* it leads to two more; a turn that never looks pays for itself.
LEMMA OverrunStep ==
  ASSUME Typed, BudgetKept, BudgetOverrunIsBounded, Next
  PROVE  BudgetOverrunIsBounded'
<1>1. calls \in Nat /\ unbudgeted \in Nat /\ MaxCalls \in Nat /\ MaxCalls > 0
  BY BoundAssumption DEF Typed, TypeOK
<1>2. CASE Silent
  BY <1>2 DEF Silent, BudgetOverrunIsBounded
<1>3. CASE Turn /\ pc \in Unchecked
  BY <1>1, <1>3, TurnCosts DEF BudgetOverrunIsBounded
<1>4. CASE Turn /\ pc \notin Unchecked /\ calls < MaxCalls + Attempts
  BY <1>1, <1>4, TurnCosts DEF BudgetOverrunIsBounded, Attempts
<1>5. CASE Turn /\ (AgentTurn \/ pc = "specialist")
  <2>1. pc \in Unchecked \/ calls < MaxCalls + Attempts
    <3>1. CASE pc \in {"scout", "planner", "reverify"} \cup Actions
      BY <1>1, <3>1 DEF BudgetKept, Attempts
    <3>2. CASE BudgetOk
      BY <1>1, <3>2 DEF BudgetOk, Attempts
    <3>3. CASE pc \in {"report", "propose", "adjudicate"}
      BY <3>3 DEF Unchecked
    <3> QED
      BY <1>5, <3>1, <3>2, <3>3 DEF AgentTurn, MoreRounds, Actions
  <2> QED
    BY <1>3, <1>4, <1>5, <2>1
<1>6. Silent \/ (Turn /\ (AgentTurn \/ pc = "specialist"))
  BY DEF Next, Scout, Planner, Opening, Loop, Coordinate, LeaveLoop, EndIteration, Gather,
     Specialist, Custom, Consult, Judge, Analyze, SkipVerification, Verify, Reverify, Review,
     SkipAudit, Audit, NoteConcern, Adjudicate, CloseAudit, Report, Fix, Propose, FixFails,
     FixEnds, Derail, AgentTurn, Actions, Consultations
<1> QED
  BY <1>2, <1>5, <1>6

\* Between the report and the end of a fix nothing moves a claim.
LEMMA DiagnosisStep ==
  ASSUME Typed, DiagnosisRestsOnFindings, Next
  PROVE  DiagnosisRestsOnFindings'
<1>1. CASE Report
  <2>1. UNCHANGED claim
    BY <1>1 DEF Report, state
  <2>2. Findings' = Findings
    BY <2>1 DEF Findings, Claims!InStage
  <2>3. \/ diagnosis' = [basis |-> Findings, latest |-> TRUE]
        \/ diagnosis' = [basis |-> diagnosis.basis, latest |-> FALSE]
    BY <1>1 DEF Report, FallbackDiagnosis
  <2> QED
    BY <2>2, <2>3 DEF DiagnosisRestsOnFindings
<1>2. CASE Propose
  <2>1. UNCHANGED <<claim, diagnosis>> /\ pc = "propose"
    BY <1>2 DEF Propose, state
  <2>2. Findings' = Findings
    BY <2>1 DEF Findings, Claims!InStage
  <2> QED
    BY <2>1, <2>2 DEF DiagnosisRestsOnFindings
<1>3. CASE ~Report /\ ~Propose
  <2>1. pc' \notin {"propose", "fix"}
    <3>1. CASE Coordinate
      BY <3>1, MenuAssumption DEF Coordinate, CoordinatorAnswers, Routed, Actions, Consultations
    <3>2. CASE Analyze
      BY <3>2, Proposals
    <3>3. CASE Verify \/ Reverify
      BY <3>3, Verdicts DEF VerifyNext
    <3>4. CASE Review
      BY <3>4 DEF Review, SkipAudit, Audit, NoteConcern, Adjudicate, CloseAudit, AuditEnds
    <3> QED
      BY <1>3, <3>1, <3>2, <3>3, <3>4 DEF Next, Scout, Planner, Opening, Loop, LeaveLoop,
         EndIteration, Gather, Specialist, Custom, Consult, Judge, SkipVerification, Fix,
         FixFails, FixEnds, Derail
  <2> QED
    BY <2>1 DEF DiagnosisRestsOnFindings
<1> QED
  BY <1>1, <1>2, <1>3

------------------------------------------------------------------------------
(* The theorems. *)

\* The invariant of the engine.
THEOREM Invariance == Spec => []EngineInv
<1>1. Init => EngineInv
  <2> SUFFICES ASSUME Init PROVE EngineInv
    OBVIOUS
  <2>1. Typed
    <3>1. IsFiniteSet({}) /\ Cardinality({}) = 0
      BY FS_EmptySet
    <3>2. claim \in [Hypotheses -> Claims!Stages] /\ saved \in [Hypotheses -> Claims!Stages]
      BY DEF Init, Claims!Stages
    <3>3. consulted \in [AllSources -> Nat]
      BY DEF Init
    <3>4. critiques \in Seq(Hypotheses \cup {None}) /\ Len(critiques) <= MaxCritiques
      BY BoundAssumption DEF Init
    <3>5. diagnosis \in [basis : SUBSET Hypotheses, latest : BOOLEAN]
      BY DEF Init
    <3> QED
      BY <3>1, <3>2, <3>3, <3>4, <3>5, BoundAssumption
      DEF Init, Typed, TypeOK, FixLeft, Working, Terminal
  <2>2. QueueIsOpen /\ MintedInOrder /\ UnjudgedOnlyWhenSpent
    BY DEF Init, QueueIsOpen, MintedInOrder, UnjudgedOnlyWhenSpent
  <2>3. BudgetKept /\ BudgetOverrunIsBounded
    BY BoundAssumption DEF Init, BudgetKept, BudgetOverrunIsBounded, Actions, Consultations, Attempts
  <2>4. MarkedFirst /\ AskedOnce
    BY DEF Init, MarkedFirst, AskedOnce
  <2>5. DiagnosisRestsOnFindings /\ IterationsStartSaved
    BY DEF Init, DiagnosisRestsOnFindings, IterationsStartSaved
  <2> QED
    BY <2>1, <2>2, <2>3, <2>4, <2>5 DEF EngineInv
<1>2. EngineInv /\ [Next]_vars => EngineInv'
  <2> SUFFICES ASSUME EngineInv, [Next]_vars PROVE EngineInv'
    OBVIOUS
  <2>1. CASE UNCHANGED vars
    BY <2>1 DEF vars, state, history, EngineInv, Typed, TypeOK, FixLeft, QueueIsOpen,
       MintedInOrder, BudgetKept, MarkedFirst, BudgetOverrunIsBounded, UnjudgedOnlyWhenSpent,
       BudgetOk, AskedOnce, DiagnosisRestsOnFindings, Findings, Claims!InStage,
       IterationsStartSaved
  <2>2. CASE Next
    BY <2>2, TypedStep, QueueStep, MintedStep, BudgetKeptStep, OverrunStep, UnjudgedStep,
       AskedStep, DiagnosisStep, SavedStep DEF EngineInv
  <2> QED
    BY <2>1, <2>2
<1> QED
  BY <1>1, <1>2, PTL DEF Spec

\* Every variable keeps its type, and the rounds of a replanning, the fixes and the
\* specialists their limits.
THEOREM TypeCorrect == Spec => []TypeOK
<1>1. EngineInv => TypeOK
  BY DEF EngineInv, Typed
<1> QED
  BY <1>1, Invariance, PTL

\* max_llm_calls is overshot by three calls, and by two for every ruling, report and
\* proposal (_budget_ok, _call).
THEOREM OverrunIsBounded == Spec => []BudgetOverrunIsBounded
<1>1. EngineInv => BudgetOverrunIsBounded
  BY DEF EngineInv
<1> QED
  BY <1>1, Invariance, PTL

\* A hypothesis is left without a verdict only if there was no budget for one
\* (_dispatch_action, _verify).
THEOREM EveryHypothesisIsJudged == Spec => []UnjudgedOnlyWhenSpent
<1>1. EngineInv => UnjudgedOnlyWhenSpent
  BY DEF EngineInv
<1> QED
  BY <1>1, Invariance, PTL

\* No probe, query or script is used twice (_do_probe, _do_research, _do_code).
THEOREM SourcesAreAskedOnce == Spec => []AskedOnce
<1>1. EngineInv => AskedOnce
  BY DEF EngineInv
<1> QED
  BY <1>1, Invariance, PTL

\* A fix is proposed for a diagnosis that rests on the findings that stand
\* (_refresh_diagnosis).
THEOREM FixesRestOnFindings == Spec => []DiagnosisRestsOnFindings
<1>1. EngineInv => DiagnosisRestsOnFindings
  BY DEF EngineInv
<1> QED
  BY <1>1, Invariance, PTL

\* An iteration starts, and a fix is tried, with every claim in the workspace.
THEOREM NothingUnsavedAtTheHead == Spec => []IterationsStartSaved
<1>1. EngineInv => IterationsStartSaved
  BY DEF EngineInv
<1> QED
  BY <1>1, Invariance, PTL

\* What the engine and its agents do with claims is what the claim state promises:
\* the refinement of Claims.
THEOREM Refinement == Spec => ClaimsAreKept
<1>1. Init => Claims!Init
  BY DEF Init, Claims!Init
<1>2. EngineInv /\ [Next]_vars => [Claims!Next]_claim
  <2> SUFFICES ASSUME EngineInv, Next PROVE Claims!Next \/ UNCHANGED claim
    BY DEF vars, state
  <2>1. Typed /\ QueueIsOpen
    BY DEF EngineInv
  <2>2. CASE Analyze
    BY <2>1, <2>2, Proposals DEF Claims!Next
  <2>3. CASE Verify \/ Reverify
    <3>1. PICK h \in queue, verdict \in VerifierAnswers : Claims!Move(h, verdict)
      BY <2>1, <2>3, Verdicts
    <3>2. h \in Hypotheses /\ claim[h] \in Claims!Underway
      BY <2>1 DEF Typed, TypeOK, QueueIsOpen
    <3> QED
      BY <3>1, <3>2 DEF VerifierAnswers, Claims!Judge, Claims!Next
  <2>4. CASE Adjudicate
    BY <2>1, <2>4, Rulings DEF Findings, Claims!InStage, Claims!Demote, Claims!Next
  <2> QED
    BY <2>2, <2>3, <2>4, ClaimMovers
<1> QED
  BY <1>1, <1>2, Invariance, PTL DEF Spec, ClaimsAreKept, Claims!Spec
=============================================================================
