-------------------------------- MODULE Undo --------------------------------
(***************************************************************************)
(* What a fix changes, what it keeps for --undo and what the undo puts     *)
(* back: the parsers, planners and executors of the catalog                *)
(* (remediation.py), the last-remediation file, and the runs of            *)
(* `poddebugger remediate`, `remediate --undo` and apply_remediation that  *)
(* read and write it, several of them at a time.                           *)
(*                                                                         *)
(* The workload is its definition, field by field: the controller's on     *)
(* Kubernetes, which replaces the pod when its template changes, and the   *)
(* container's own on Podman.  Whether a fix helps is the matter of        *)
(* Remediation.                                                            *)
(***************************************************************************)
EXTENDS Quantities, Catalog, FiniteSets, Sequences

CONSTANTS
  Fixers,      \* the processes that fix: remediate, or an engine
  Undoers,     \* the processes started with --undo
  Routes,      \* how they come to a fix: "remediate", "engine"
  Offered,     \* the catalog actions they ask for
  Initial,     \* the definitions the workload may have at first
  Choices,     \* per field, the values a form may ask for
  ImageEnv,    \* the images that bring an environment of their own, and which
  MaxReplicas, \* MAX_REPLICAS
  MaxProbe,    \* _PROBE_FIELD_MAX
  MaxPods,     \* bound: pods the controller may create after the first
  Torn,        \* a file whose writer was killed
  None         \* no value

\* memory and cpu are resources a container may or may not have; env stands for
\* every part of a container an image has defaults for - environment, labels,
\* entrypoint and command - and mounts for the ports and volumes of a Podman
\* container.
Fields == {"memory", "cpu", "probe", "env", "image", "replicas", "mounts"}

Template == Fields \ {"replicas", "mounts"}

Values == Nat \cup {None}

ASSUME UndoAssumption ==
  /\ Routes \subseteq {"remediate", "engine"} /\ Offered \subseteq CatalogActions
  /\ Initial \subseteq [Fields -> Values] /\ Choices \in [Fields -> SUBSET Values]
  /\ \A image \in DOMAIN ImageEnv : ImageEnv[image] \in Nat
  /\ MaxReplicas \in Nat /\ MaxProbe \in Nat /\ MaxPods \in Nat
  /\ None \notin Nat /\ Torn \notin Nat /\ None # Invalid
  /\ IsFiniteSet(Fixers) /\ IsFiniteSet(Undoers)

\* The fields that hold a quantity or a count.
Numeric == {"memory", "cpu", "probe", "replicas"}

\* A form has a number where a parser wants one; a controller that names no
\* number of replicas has one; a limit of 0 is no limit, which is None.
ASSUME ValueAssumption ==
  /\ \A f \in Numeric : Choices[f] \subseteq Nat
  /\ \A d \in Initial : d["replicas"] \in Nat /\ d["memory"] # 0 /\ d["cpu"] # 0

\* What a planner keeps, and what the last-remediation file holds of it.
Maps == UNION {[S -> Values] : S \in SUBSET Fields}

Payloads == [action : CatalogActions, reversal : Maps \cup {None}, number : Nat]

ASSUME FileAssumption == None \notin Payloads /\ Torn \notin Payloads

VARIABLES
  platform,    \* of the workload
  definition,  \* what the workload is defined to be
  revisions,   \* Kubernetes: the templates its controller has had
  pod,         \* Kubernetes: which of its pods is there, and bears the name
  served,      \* Kubernetes: the template that pod was made from
  present,     \* Podman: the container exists
  run,         \* the processes
  file,        \* per pod name, the last-remediation file
  done         \* history: the fixes that were executed, by number

world == <<definition, revisions, pod, served, present>>
vars  == <<platform, world, run, file, done>>

Runs == Fixers \cup Undoers

Podman == platform = "podman"

TemplateOf(d) == [f \in Template |-> d[f]]

------------------------------------------------------------------------------
(* Forms. *)

ScaleAsks     == {"replicas"}
ResourcesAsks == {"memory", "cpu"}
ProbeAsks     == {"probe"}
RollbackAsks  == Template
EnvAsks       == {"env"}
ImageAsks     == {"image"}
RecreateAsks  == {"env", "image"}

\* The fields a form of the catalog may name.
Asks(a) ==
  CASE a = "set-resources" -> ResourcesAsks
    [] a = "adjust-probe"  -> ProbeAsks
    [] a = "set-env"       -> EnvAsks
    [] a = "set-image"     -> ImageAsks
    [] a = "recreate"      -> RecreateAsks
    [] a = "scale"         -> ScaleAsks
    [] a = "rollback"      -> RollbackAsks
    [] OTHER               -> {}

\* One value, given as the text a planner prints or a user writes, and given as
\* the number a parser returned.
ParsedText(f, v) ==
  CASE f = "memory"   -> ParseMemory(FormatBytes(v))
    [] f = "cpu"      -> ParseCpu(FormatCpu(v))
    [] f = "probe"    -> Bounded(v, MaxProbe)
    [] f = "replicas" -> Bounded(v, MaxReplicas)
    [] OTHER          -> v

ParsedNumber(f, v) ==
  CASE f = "memory" -> ParseMemoryNumber(v)
    [] f = "cpu"    -> ParseCpuNumber(v)
    [] OTHER        -> ParsedText(f, v)

\* A revision stands for its template, which nobody parses.
ParseText(a, form) ==
  IF a = "rollback" THEN form ELSE [f \in DOMAIN form |-> ParsedText(f, form[f])]

ParseNumber(a, form) ==
  IF a = "rollback" THEN form ELSE [f \in DOMAIN form |-> ParsedNumber(f, form[f])]

\* Nothing asked, or a value beyond its ceiling, is refused.
Valid(a, params) == /\ Asks(a) # {} => DOMAIN params # {}
                    /\ \A f \in DOMAIN params : params[f] # Invalid

\* rollback asks for a whole template, one the controller has had.
Forms(a) ==
  IF a = "rollback" THEN revisions \ {TemplateOf(definition)}
  ELSE UNION {{form \in [S -> UNION {Choices[f] : f \in S}] :
                 \A f \in S : form[f] \in Choices[f]} : S \in SUBSET Asks(a)}

\* What is planned for a form: apply_remediation parses once more what
\* propose_remediation parsed and kept.
Params(route, a, form) ==
  IF route = "engine" THEN ParseNumber(a, ParseText(a, form)) ELSE ParseText(a, form)

------------------------------------------------------------------------------
(* What a plan keeps for undo. *)

Previous(S, seen) == [f \in S |-> seen[f]]

\* What of a block of the definition is set, changed by the plan or not.
Block(S, seen) == Previous({f \in S : seen[f] # None}, seen)

\* Mutant of ResourcesReversal: a limit that was not set is left out, as on
\* Kubernetes.
ResourcesReversalOfSet(params, seen) == Block(DOMAIN params, seen)

\* Podman: every key that is changed, 0 for no limit.
ResourcesReversal(params, seen) ==
  IF Podman THEN [f \in DOMAIN params |-> IF seen[f] = None THEN 0 ELSE seen[f]]
  ELSE Block({"memory", "cpu"}, seen)

ProbeReversal(seen) == Block({"probe"}, seen)

ScaleReversal(seen) == Previous({"replicas"}, seen)

\* A variable that was not set is to be deleted.
EnvReversal(seen) == Previous({"env"}, seen)

ImageReversal(seen) == Previous({"image"}, seen)

\* The revision that is left.
RollbackReversal(seen) == Previous(Template, seen)

Reversal(a, params, seen) ==
  CASE a = "set-resources" -> ResourcesReversal(params, seen)
    [] a = "adjust-probe"  -> ProbeReversal(seen)
    [] a = "scale"         -> ScaleReversal(seen)
    [] a = "set-env"       -> EnvReversal(seen)
    [] a = "set-image"     -> ImageReversal(seen)
    [] a = "rollback"      -> RollbackReversal(seen)
    [] OTHER               -> None

------------------------------------------------------------------------------
(* What an execution does. *)

\* Podman: a container has what its image brings wherever it was given nothing,
\* and inspect shows the two as one.
Started(d) ==
  [d EXCEPT !["env"] = IF @ = None /\ d["image"] \in DOMAIN ImageEnv
                         THEN ImageEnv[d["image"]] ELSE @]

\* _podman_recreate: a container made anew from the spec in the inspect cache,
\* which has no resources, ports or volumes, and in which what the old image
\* brought is given to the new one.
Rebuilt(params, seen) ==
  Started([f \in Fields |-> IF f \in DOMAIN params THEN params[f]
                            ELSE IF f \in {"env", "image"} THEN seen[f]
                            ELSE IF f \in {"memory", "cpu", "mounts"} THEN None
                            ELSE definition[f]])

\* A strategic merge adds and replaces, and removes nothing.
Merged(patch) ==
  [f \in Fields |-> IF f \in DOMAIN patch /\ patch[f] # None THEN patch[f]
                    ELSE definition[f]]

\* The block a patch carries: what was set, with what is asked for.
Overlaid(S, params, seen) ==
  [f \in S |-> IF f \in DOMAIN params THEN params[f] ELSE seen[f]]

\* podman update, where 0 lifts a limit, or a patch of the whole block.
SetResources(params, seen) ==
  IF Podman
    THEN [f \in Fields |-> IF f \notin DOMAIN params THEN definition[f]
                           ELSE IF params[f] = 0 THEN None ELSE params[f]]
    ELSE Merged(Overlaid({"memory", "cpu"}, params, seen))

AdjustProbe(params, seen) == Merged(Overlaid({"probe"}, params, seen))

Scale(params) == Merged(params)

SetEnv(params, seen) == IF Podman THEN Rebuilt(params, seen) ELSE Merged(params)

SetImage(params, seen) == IF Podman THEN Rebuilt(params, seen) ELSE Merged(params)

Recreate(params, seen) == IF Podman THEN Rebuilt(params, seen) ELSE Merged(params)

RollBack(template) ==
  [f \in Fields |-> IF f \in Template THEN template[f] ELSE definition[f]]

\* The definition after an action, whatever it was when it was planned.
Result(a, params, seen) ==
  CASE a = "set-resources" -> SetResources(params, seen)
    [] a = "adjust-probe"  -> AdjustProbe(params, seen)
    [] a = "scale"         -> Scale(params)
    [] a = "set-env"       -> SetEnv(params, seen)
    [] a = "set-image"     -> SetImage(params, seen)
    [] a = "recreate"      -> Recreate(params, seen)
    [] a = "rollback"      -> RollBack(params)
    [] OTHER               -> definition

\* The commands that need the container or the pod of the target; the others find
\* the controller through the pod they read when they planned (_pod_cache).
Reaches(r) == IF Podman THEN present \/ RebuildsContainer(run[r].action)
              ELSE run[r].action \in {"restart", "shell"} => run[r].target = pod

Recorded(new) == IF Podman THEN revisions ELSE revisions \cup {TemplateOf(new)}

\* A restart on Kubernetes deletes the pod, and its controller makes another.
Effect(r) ==
  LET new == Result(run[r].action, run[r].params, run[r].seen) IN
  /\ definition' = new
  /\ revisions' = Recorded(new)
  /\ IF ~Podman /\ run[r].action = "restart"
       THEN pod < MaxPods /\ pod' = pod + 1 /\ served' = TemplateOf(definition)
       ELSE UNCHANGED <<pod, served>>
  /\ present' = TRUE

------------------------------------------------------------------------------
(* The processes. *)

\* A process before it has planned, and after it has ended.
Bare(pc) == [pc |-> pc, action |-> None, target |-> None, params |-> None,
             seen |-> None, undoes |-> None, reversal |-> None, number |-> None]

\* It ends without having saved: refused, failed, killed, or a dry run.
Ends(r) == run' = [run EXCEPT ![r] = Bare("ended")]

\* resolve and the planner find the workload.
Found == Podman => present

Planned(r, a, params, undoes, reversal) ==
  run' = [run EXCEPT ![r] = [pc |-> "planned", action |-> a, target |-> pod,
            params |-> params, seen |-> definition, undoes |-> undoes,
            reversal |-> reversal, number |-> None]]

\* A fix: `remediate`, or a proposal the engine applies.  Whether the controller
\* bears a revision to come back to is known to the planner.
Fix(r) ==
  /\ run[r].pc = "idle" /\ Found
  /\ \E route \in Routes, a \in Offered : \E form \in Forms(a) :
       /\ Supports(platform, a)
       /\ Valid(a, ParseText(a, form))
       /\ LET params == Params(route, a, form) IN
            IF Valid(a, params)
              THEN \E reversal \in {Reversal(a, params, definition)}
                                   \cup (IF a = "rollback" THEN {None} ELSE {}) :
                     Planned(r, a, params, None, reversal)
              ELSE Ends(r)
  /\ UNCHANGED <<platform, world, file, done>>

\* Mutant of Saved: a reversal is handed over without being parsed.
SavedRaw(p) ==
  IF p \in {None, Torn} THEN Invalid ELSE IF p.reversal = None THEN Invalid ELSE p.reversal

\* load_for_undo, undo_from and parse_params: the params to put back.
Saved(p) ==
  IF p \in {None, Torn} THEN Invalid
  ELSE IF p.reversal = None THEN Invalid
  ELSE IF Valid(p.action, ParseText(p.action, p.reversal))
    THEN ParseText(p.action, p.reversal)
  ELSE Invalid

\* `remediate --undo` for the target, which is a name that is there; undo is a
\* fix like any other, with a reversal of its own.
Undo(r) ==
  /\ run[r].pc = "idle" /\ Found
  /\ LET p == file[pod]
         params == Saved(p) IN
     IF params = Invalid THEN Ends(r)
     ELSE Planned(r, p.action, params, p, Reversal(p.action, params, definition))
  /\ UNCHANGED <<platform, world, file, done>>

\* The gate says no, or the command fails: it did nothing, or it took effect and
\* its answer was lost, or a rebuild removed the container and could not run the
\* new one.
Fail(r) ==
  /\ run[r].pc = "planned"
  /\ \/ UNCHANGED world
     \/ Reaches(r) /\ Effect(r)
     \/ /\ Podman /\ RebuildsContainer(run[r].action)
        /\ present' = FALSE
        /\ UNCHANGED <<definition, revisions, pod, served>>
  /\ Ends(r)
  /\ UNCHANGED <<platform, file, done>>

\* Runs that executed and have not saved yet.
Waiting == {r \in Runs : run[r].pc = "waiting"}

Execute(r) ==
  /\ run[r].pc = "planned" /\ Reaches(r)
  /\ Effect(r)
  /\ done' = Append(done, [seen |-> run[r].seen, before |-> definition,
                           after |-> definition', action |-> run[r].action,
                           during |-> {run[q].number : q \in Waiting}])
  /\ run' = [run EXCEPT ![r].pc = "waiting", ![r].number = Len(done) + 1]
  /\ UNCHANGED <<platform, file>>

Payload(r) == [action |-> run[r].action, reversal |-> run[r].reversal,
               number |-> run[r].number]

\* Mutant of Write: what is there is kept.
WriteOnce(r) ==
  IF file[run[r].target] = None THEN [file EXCEPT ![run[r].target] = Payload(r)] ELSE file

Write(r) == [file EXCEPT ![run[r].target] = Payload(r)]

\* After the verification wait: save_for_undo under the name the run began with.
\* An OSError is swallowed.
Save(r) ==
  /\ run[r].pc = "waiting"
  /\ \/ file' = Write(r) /\ run' = [run EXCEPT ![r] = [Bare("saved") EXCEPT
                                      !.target = run[r].target, !.number = run[r].number]]
     \/ file' = file /\ Ends(r)
  /\ UNCHANGED <<platform, world, done>>

\* Ctrl-C, also in the middle of the write.
Kill(r) ==
  /\ run[r].pc \in {"planned", "waiting"}
  /\ \/ UNCHANGED file
     \/ run[r].pc = "waiting" /\ file' = [file EXCEPT ![run[r].target] = Torn]
  /\ Ends(r)
  /\ UNCHANGED <<platform, world, done>>

------------------------------------------------------------------------------
(* The world. *)

\* The controller replaces a pod that was made from another template.
Rollout ==
  /\ ~Podman /\ served # TemplateOf(definition) /\ pod < MaxPods
  /\ pod' = pod + 1 /\ served' = TemplateOf(definition)
  /\ UNCHANGED <<platform, definition, revisions, present, run, file, done>>

------------------------------------------------------------------------------
Init ==
  /\ platform \in Platforms
  /\ definition \in {IF Podman THEN Started(d) ELSE d : d \in Initial}
  /\ revisions = {TemplateOf(definition)}
  /\ pod = 0 /\ served = TemplateOf(definition) /\ present = TRUE
  /\ run = [r \in Runs |-> Bare("idle")]
  /\ file = [p \in 0 .. MaxPods |-> None]
  /\ done = <<>>

Next == \/ \E r \in Fixers : Fix(r)
        \/ \E r \in Undoers : Undo(r)
        \/ \E r \in Runs : Execute(r) \/ Fail(r) \/ Save(r) \/ Kill(r)
        \/ Rollout

Spec == Init /\ [][Next]_vars
------------------------------------------------------------------------------
(* Properties. *)

InRange(f, v) ==
  CASE f = "memory"   -> v <= MaxMemory
    [] f = "cpu"      -> v <= MaxCpu
    [] f = "probe"    -> v <= MaxProbe
    [] f = "replicas" -> v <= MaxReplicas
    [] OTHER          -> TRUE

\* Every variable stays in its range, and no form or saved reversal is planned
\* with a value beyond the ceilings of the catalog.
TypeOK ==
  /\ platform \in Platforms
  /\ definition \in [Fields -> Values]
  /\ revisions \subseteq [Template -> Values] /\ served \in [Template -> Values]
  /\ pod \in 0 .. MaxPods /\ present \in BOOLEAN
  /\ \A r \in Runs :
       run[r].pc \in {"planned", "waiting"} /\ run[r].action # "rollback" =>
         \A f \in DOMAIN run[r].params : InRange(f, run[r].params[f])
  /\ DOMAIN file = 0 .. MaxPods
  /\ Len(done) <= Cardinality(Runs)

\* A fix that was saved leaves its file only to a newer one, or to one that was
\* still waiting for its verification when it was executed: saves that follow
\* each other, of however many processes, never bring back an older record.  A
\* fix whose process was killed or could not write has no such claim.
NewestSavedOnFile ==
  \A r \in Runs : run[r].pc = "saved" =>
    LET p == file[run[r].target] IN
    p # Torn => /\ p # None
                /\ \/ p.number >= run[r].number
                   \/ p.number \in done[run[r].number].during

\* What an undo can put back: a field a patch added to the controller stays, what
\* a rebuilt container has lost is lost, and what only the new image brought is
\* given to the old one when it comes back.
Restorable(fix) ==
  IF Podman
    THEN /\ RebuildsContainer(fix.action) =>
              \A f \in {"memory", "cpu", "mounts"} : fix.before[f] = None
         /\ fix.action = "set-image" =>
              (fix.before["env"] = None => fix.after["env"] = None)
    ELSE fix.action # "rollback" =>
           \A f \in Fields : fix.before[f] = None => fix.after[f] = None

\* The undo of a fix puts the definition back as it was before the fix, every
\* field of it, if nobody else has changed the workload since it was planned.
Undoes(r) == /\ run[r].pc = "planned" /\ run'[r].pc = "waiting"
             /\ run[r].undoes # None

UndoRestores ==
  [][\A r \in Runs : Undoes(r) =>
       LET fix == done[run[r].undoes.number] IN
       /\ fix.seen = fix.before
       /\ run[r].seen = fix.after /\ definition = fix.after
       /\ Restorable(fix)
       => definition' = fix.before]_vars
=============================================================================
