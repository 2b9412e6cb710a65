------------------------------- MODULE Claims -------------------------------
(***************************************************************************)
(* What the claim state promises (inquiro/state.py): a hypothesis is       *)
(* proposed once, judged until it is confirmed or refuted, and a confirmed *)
(* finding may be demoted.  Nothing that was ruled out comes back, nothing *)
(* that was confirmed is judged again, and one claim changes at a time.    *)
(***************************************************************************)
CONSTANT Hypotheses   \* the ids that can be minted

VARIABLE claim        \* the stage every hypothesis is in

\* `absent` has not been minted; `confirmed` is in confirmed_findings; `refuted`
\* and `demoted` are both in ruled_out, one from each list.
Stages == {"absent", "proposed", "inconclusive", "confirmed", "refuted", "demoted"}

Underway == {"proposed", "inconclusive"}

InStage(S) == {h \in Hypotheses : claim[h] \in S}

Move(h, stage) == claim' = [claim EXCEPT ![h] = stage]

\* add_hypothesis, for every hypothesis of one answer.
Propose(new) ==
  /\ new \subseteq InStage({"absent"})
  /\ claim' = [h \in Hypotheses |-> IF h \in new THEN "proposed" ELSE claim[h]]

\* A verdict: promote, refute, or neither.
Judge(h) ==
  /\ claim[h] \in Underway
  /\ \E stage \in {"inconclusive", "confirmed", "refuted"} : Move(h, stage)

\* Adjudicated against.
Demote(h) ==
  /\ claim[h] = "confirmed"
  /\ Move(h, "demoted")

Init == claim = [h \in Hypotheses |-> "absent"]

Next == \/ \E new \in SUBSET Hypotheses : Propose(new)
        \/ \E h \in Hypotheses : Judge(h) \/ Demote(h)

Spec == Init /\ [][Next]_claim
=============================================================================
