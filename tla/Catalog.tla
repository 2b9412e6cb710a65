------------------------------- MODULE Catalog -------------------------------
(***************************************************************************)
(* The remediation catalog (agent/poddebugger/remediation.py): which typed *)
(* actions exist, where they run, how risky they are, which of them leave  *)
(* a reversal behind and which of them verify_recovery can judge.          *)
(* Constant-level: every module that plans or runs a fix reads this table. *)
(***************************************************************************)
EXTENDS Naturals

Platforms == {"podman", "kubernetes"}
Risks     == {"low", "medium", "high"}

CatalogActions == {"restart", "scale", "set-resources", "adjust-probe",
                   "rollback", "set-env", "set-image", "recreate", "shell"}

\* Actions of the catalog that Podman cannot run.
KubernetesOnly == {"scale", "adjust-probe", "rollback"}

Supports(platform, a) == platform = "kubernetes" \/ a \notin KubernetesOnly

RiskOf(a) ==
  CASE a \in {"restart", "scale"}    -> "low"
    [] a \in {"recreate", "shell"}   -> "high"
    [] OTHER                         -> "medium"

\* The ranking apply_remediation compares.
Rank(risk) ==
  CASE risk = "low" -> 0 [] risk = "medium" -> 1 [] OTHER -> 2

\* Actions that change the definition of the workload, as opposed to
\* bouncing it (restart) or running a command inside it (shell).
EditsDefinition(a) == a \notin {"restart", "shell"}

\* Plans that carry no reversal: restart is its own, recreate keeps the prior
\* spec in `old` only, and the effects of shell are open-ended.
HasReversal(a) == a \notin {"restart", "recreate", "shell"}

\* On Podman these remove the container and run a new one of the same name.
RebuildsContainer(a) == a \in {"set-env", "set-image", "recreate"}

\* _VERIFY_SAME_REF: the actions verify_recovery has a rule for.
VerifiableActions == CatalogActions \ {"shell"}

\* _VERIFY_NEW_POD_ON_K8S: the actions whose effect verify_recovery refuses to
\* judge on Kubernetes, because the pod it was given is replaced.
ReplacesPod == {"restart", "set-env", "set-image", "recreate"}

\* Planning every action but restart checks the namespace first, on
\* Kubernetes: _plan_restart never calls _check_namespace.
ChecksNamespace(platform, a) == platform = "kubernetes" /\ a # "restart"
=============================================================================
