------------------------------- MODULE MCUndo -------------------------------
(***************************************************************************)
(* Undo on small instances.  A unit of memory is two bytes and a core two  *)
(* millicores; both ceilings are 4 and a workload may be beyond them.      *)
(***************************************************************************)
EXTENDS Undo, TLC

Defined(memory, cpu, probe, env, mounts) ==
  [f \in Fields |-> CASE f = "memory" -> memory [] f = "cpu" -> cpu [] f = "probe" -> probe
                      [] f = "env" -> env [] f = "mounts" -> mounts
                      [] f = "image" -> 1 [] f = "replicas" -> 1]

\* One has what the other lacks, and more of it than the catalog would give; the
\* third has nothing that a rebuild could lose.
InitialChecked == {Defined(2, None, None, 1, None), Defined(5, 3, 3, None, 1),
                   Defined(None, None, None, None, None)}

ChoicesChecked ==
  [f \in Fields |-> CASE f = "memory" -> {4} [] f = "cpu" -> {1} [] f = "probe" -> {2}
                      [] f = "env" -> {2, None} [] f = "image" -> {2}
                      [] f = "replicas" -> {2} [] f = "mounts" -> {}]

\* The second image brings what the first does not have.
ImageEnvChecked == 2 :> 3

------------------------------------------------------------------------------
(* What the documentation says of undo and of the engine's fixes, each claim *)
(* checked by a run of its own that finds it violated.                       *)

\* README.md:193-194: the most recent action is rolled back, "the auto-saved
\* reversal file is found by target", which is the name of a pod that is there.
FoundByTarget == \A r \in Runs : run[r].pc = "saved" => file[pod] # None

\* scaffold/engine.py:748: apply_remediation executes "one validated proposal":
\* the params it plans are those of a form the catalog has validated.
AppliesTheProposal ==
  [][\A r \in Runs : run[r].pc = "idle" /\ run'[r].pc = "planned" =>
       \E form \in Forms(run'[r].action) :
         run'[r].params = ParseText(run'[r].action, form)]_vars
=============================================================================
