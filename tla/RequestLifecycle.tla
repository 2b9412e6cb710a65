-------------------------- MODULE RequestLifecycle --------------------------
(***************************************************************************)
(* What a PodDiagnosticRequest promises to whoever watches its phase       *)
(* (deploy/README.md, "CR phases"): a request is answered once, an         *)
(* approval is settled once, a finished request never changes again, and   *)
(* nothing is done to the workload of a request that is finished.          *)
(***************************************************************************)
EXTENDS Naturals

CONSTANT Uids     \* the requests

VARIABLES phase,    \* what each request shows
          effects   \* how many remediations were run for it

Finished == {"Complete", "Remediated", "Failed"}

Init == /\ phase = [u \in Uids |-> "absent"]
        /\ effects = [u \in Uids |-> 0]

Submit(u) == /\ phase[u] = "absent"
             /\ phase' = [phase EXCEPT ![u] = "Pending"]
             /\ UNCHANGED effects

Answer(u) == /\ phase[u] = "Pending"
             /\ \E p \in Finished \cup {"AwaitingApproval"} :
                  phase' = [phase EXCEPT ![u] = p]
             /\ UNCHANGED effects

Settle(u) == /\ phase[u] = "AwaitingApproval"
             /\ \E p \in {"Remediated", "Failed"} : phase' = [phase EXCEPT ![u] = p]
             /\ UNCHANGED effects

Act(u) == /\ phase[u] \in {"Pending", "AwaitingApproval"}
          /\ effects' = [effects EXCEPT ![u] = @ + 1]
          /\ UNCHANGED phase

Next == \E u \in Uids : Submit(u) \/ Answer(u) \/ Settle(u) \/ Act(u)

Spec == Init /\ [][Next]_<<phase, effects>>
=============================================================================
