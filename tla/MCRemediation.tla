---------------------------- MODULE MCRemediation ----------------------------
(***************************************************************************)
(* Remediation on a small instance: two configurations, one of which       *)
(* crashes, and one catalog action of every kind the loop tells apart.     *)
(***************************************************************************)
EXTENDS Remediation

\* One action per combination of where it runs, how risky it is, whether it
\* rebuilds the container, replaces the pod, can be verified and reversed.
OfferedActions == {"restart", "set-resources", "set-image", "recreate", "shell"}

\* Every platform and risk tier, with at most one of the unusual settings.
Unusual(r) == {flag \in {"preview", "noverify", "protected", "nodisk"} :
                 CASE flag = "preview"   -> ~r.apply
                   [] flag = "noverify"  -> ~r.verify
                   [] flag = "protected" -> r.protected
                   [] flag = "nodisk"    -> ~r.disk}

RequestsChecked ==
  {r \in Request : /\ r.protected => r.platform = "kubernetes"
                   /\ \A f, g \in Unusual(r) : f = g}

------------------------------------------------------------------------------
(* What the documentation says of the loop, checked by a run of its own    *)
(* that finds it violated.                                                 *)

\* remediation.py:1482 and 1522: set-resources, adjust-probe and rollback are
\* "observable on the same workload ref", and "recovered" means that the
\* workload runs: the workload that runs is the one the fix produced.
KubernetesRecoverySeesTheFix ==
  ~Podman => \A i \in 1 .. Len(attempts) :
    attempts[i].verdict = "recovered" /\ EditsDefinition(attempts[i].action) =>
      attempts[i].judged = attempts[i].config
=============================================================================
