------------------------------ MODULE UndoProofs ------------------------------
(***************************************************************************)
(* Theorems about --undo, for every set of processes, every definition the *)
(* workload may have and every form the catalog may be given.              *)
(***************************************************************************)
EXTENDS Undo, QuantitiesProofs, FiniteSetTheorems, SequenceTheorems

\* What a definition of the workload may be: on Podman a limit of 0 is none, and
\* what the image brings is there.
DefinitionOn(podman) ==
  {d \in [Fields -> Values] :
     /\ d["replicas"] \in Nat
     /\ podman => /\ d["memory"] # 0 /\ d["cpu"] # 0
                  /\ d["env"] = None => d["image"] \notin DOMAIN ImageEnv}

\* What a plan of the action a may ask for, or keep for undo.
Typed(a, g) ==
  /\ g \in Maps /\ DOMAIN g \subseteq Asks(a)
  /\ a = "rollback" => DOMAIN g = Template
  /\ a # "rollback" => \A f \in DOMAIN g \cap Numeric : g[f] \in Nat

InBounds(a, g) == a # "rollback" => \A f \in DOMAIN g : InRange(f, g[f])

USE DEF Podman, ScaleAsks, ResourcesAsks, ProbeAsks, RollbackAsks, EnvAsks, ImageAsks,
        RecreateAsks

------------------------------------------------------------------------------
(* Parsing. *)

\* What is printed is parsed back, or refused because it is beyond its ceiling.
LEMMA ParsedTextIsSame ==
  ASSUME NEW f, NEW v, f \in Numeric => v \in Nat, ParsedText(f, v) # Invalid
  PROVE  ParsedText(f, v) = v /\ InRange(f, v)
<1>1. CASE f = "memory"
  <2>1. ParsedText(f, v) = Bounded(v, MaxMemory)
    BY <1>1, MemoryRoundTrip DEF ParsedText, Numeric
  <2> QED
    BY <1>1, <2>1, CeilingAssumption DEF Bounded, InRange, Numeric
<1>2. CASE f = "cpu"
  <2>1. ParsedText(f, v) = Bounded(v, MaxCpu)
    BY <1>2, CpuRoundTrip DEF ParsedText, Numeric
  <2> QED
    BY <1>2, <2>1, CeilingAssumption DEF Bounded, InRange, Numeric
<1>3. CASE f \in {"probe", "replicas"}
  BY <1>3, UndoAssumption DEF ParsedText, Bounded, InRange, Numeric
<1>4. CASE f \notin {"memory", "cpu", "probe", "replicas"}
  BY <1>4 DEF ParsedText, InRange
<1> QED
  BY <1>1, <1>2, <1>3, <1>4

\* A number that was parsed stays within its ceiling when it is parsed again,
\* although cores are then taken for millicores.
LEMMA ParsedNumberInRange ==
  ASSUME NEW f, NEW v \in Values, f \in Numeric => v \in Nat, InRange(f, v),
         ParsedNumber(f, v) # Invalid
  PROVE  /\ ParsedNumber(f, v) \in Values /\ InRange(f, ParsedNumber(f, v))
         /\ f \in Numeric => ParsedNumber(f, v) \in Nat
<1>1. CASE f = "memory"
  BY <1>1 DEF ParsedNumber, ParseMemoryNumber, Numeric
<1>2. CASE f = "cpu"
  <2>1. v * Core \in Nat
    BY <1>2, CpuAssumption DEF Numeric
  <2>2. ParsedNumber(f, v) = Bounded(v * Core, MaxCpu)
    BY <1>2 DEF ParsedNumber, ParseCpuNumber, ParseCpu
  <2> QED
    BY <1>2, <2>1, <2>2, CeilingAssumption DEF Bounded, InRange, Numeric, Values
<1>3. CASE f \notin {"memory", "cpu"}
  BY <1>3, ParsedTextIsSame DEF ParsedNumber
<1> QED
  BY <1>1, <1>2, <1>3

\* A typed map that parses is parsed into itself, and within the ceilings.
LEMMA ParseTextIsSame ==
  ASSUME NEW a, NEW g, Typed(a, g), Valid(a, ParseText(a, g))
  PROVE  ParseText(a, g) = g /\ InBounds(a, g)
<1>1. CASE a = "rollback"
  BY <1>1 DEF ParseText, InBounds
<1>2. CASE a # "rollback"
  <2>1. g = [f \in DOMAIN g |-> g[f]]
    BY DEF Typed, Maps
  <2>2. ParseText(a, g) = [f \in DOMAIN g |-> ParsedText(f, g[f])]
    BY <1>2 DEF ParseText
  <2>3. ASSUME NEW f \in DOMAIN g PROVE ParsedText(f, g[f]) = g[f] /\ InRange(f, g[f])
    <3>1. ParsedText(f, g[f]) # Invalid
      BY <2>2 DEF Valid
    <3>2. f \in Numeric => g[f] \in Nat
      BY <1>2 DEF Typed
    <3> QED
      BY <3>1, <3>2, ParsedTextIsSame
  <2> QED
    BY <2>1, <2>2, <2>3 DEF InBounds
<1> QED
  BY <1>1, <1>2

\* The same when the result is parsed once more, as the engine does.
LEMMA ParseNumberTyped ==
  ASSUME NEW a, NEW g, Typed(a, g), InBounds(a, g), Valid(a, ParseNumber(a, g))
  PROVE  Typed(a, ParseNumber(a, g)) /\ InBounds(a, ParseNumber(a, g))
<1>1. CASE a = "rollback"
  BY <1>1 DEF ParseNumber
<1>2. CASE a # "rollback"
  <2> DEFINE h == [f \in DOMAIN g |-> ParsedNumber(f, g[f])]
  <2>1. ParseNumber(a, g) = h
    BY <1>2 DEF ParseNumber
  <2>2. PICK S \in SUBSET Fields : g \in [S -> Values]
    BY DEF Typed, Maps
  <2>3. ASSUME NEW f \in DOMAIN g
        PROVE  h[f] \in Values /\ InRange(f, h[f]) /\ (f \in Numeric => h[f] \in Nat)
    <3>1. ParsedNumber(f, g[f]) # Invalid
      BY <2>1 DEF Valid
    <3>2. /\ f \in Numeric => g[f] \in Nat
          /\ InRange(f, g[f]) /\ g[f] \in Values
      BY <1>2, <2>2 DEF Typed, InBounds
    <3> QED
      BY <3>1, <3>2, ParsedNumberInRange
  <2>4. h \in [S -> Values]
    BY <2>2, <2>3
  <2>5. h \in Maps /\ DOMAIN h = DOMAIN g
    BY <2>4 DEF Maps
  <2> HIDE DEF h
  <2> QED
    BY <1>2, <2>1, <2>3, <2>5 DEF Typed, InBounds
<1> QED
  BY <1>1, <1>2

\* Every form is typed, rollback's too: a template the controller has had.
LEMMA FormsTyped ==
  ASSUME NEW a, NEW form \in Forms(a), revisions \subseteq [Template -> Values]
  PROVE  Typed(a, form)
<1>1. CASE a = "rollback"
  <2>1. form \in [Template -> Values] /\ Template \in SUBSET Fields
    BY <1>1 DEF Forms, Template
  <2>2. form \in Maps
    BY <2>1 DEF Maps
  <2> QED
    BY <1>1, <2>1, <2>2 DEF Typed, Asks
<1>2. CASE a # "rollback"
  <2>1. PICK S \in SUBSET Asks(a) :
          /\ form \in [S -> UNION {Choices[f] : f \in S}]
          /\ \A f \in S : form[f] \in Choices[f]
    BY <1>2 DEF Forms
  <2>2. Asks(a) \subseteq Fields
    BY DEF Asks, Fields, Template
  <2>3. \A f \in S : Choices[f] \subseteq Values
    BY <2>2, UndoAssumption
  <2>4. form \in [S -> Values]
    BY <2>1, <2>3
  <2>5. form \in Maps
    BY <2>2, <2>4 DEF Maps
  <2> QED
    BY <1>2, <2>1, <2>4, <2>5, ValueAssumption DEF Typed
<1> QED
  BY <1>1, <1>2

\* What is planned for a form, by either route.
LEMMA ParamsTyped ==
  ASSUME NEW a, NEW form \in Forms(a), NEW route,
         revisions \subseteq [Template -> Values],
         Valid(a, ParseText(a, form)), Valid(a, Params(route, a, form))
  PROVE  Typed(a, Params(route, a, form)) /\ InBounds(a, Params(route, a, form))
<1>1. Typed(a, form) /\ ParseText(a, form) = form /\ InBounds(a, form)
  BY FormsTyped, ParseTextIsSame
<1> QED
  BY <1>1, ParseNumberTyped DEF Params
------------------------------------------------------------------------------
(* Planning and executing. *)

\* A map over some fields of a definition.
LEMMA PreviousTyped ==
  ASSUME NEW S \in SUBSET Fields, NEW seen \in [Fields -> Values]
  PROVE  /\ Previous(S, seen) \in Maps /\ DOMAIN Previous(S, seen) = S
         /\ \A f \in S : Previous(S, seen)[f] = seen[f]
<1>1. Previous(S, seen) \in [S -> Values]
  BY DEF Previous
<1> QED
  BY <1>1 DEF Previous, Maps

LEMMA BlockTyped ==
  ASSUME NEW S \in SUBSET Fields, NEW seen \in [Fields -> Values]
  PROVE  /\ Block(S, seen) \in Maps
         /\ DOMAIN Block(S, seen) = {f \in S : seen[f] # None}
         /\ \A f \in DOMAIN Block(S, seen) :
              Block(S, seen)[f] = seen[f] /\ seen[f] \in Nat
BY PreviousTyped DEF Block, Values

\* What a plan keeps to be put back can be asked for by a form of its action.
LEMMA ReversalTyped ==
  ASSUME NEW a \in CatalogActions, NEW params, Typed(a, params),
         NEW seen \in DefinitionOn(Podman), Reversal(a, params, seen) # None
  PROVE  Typed(a, Reversal(a, params, seen))
<1>1. seen \in [Fields -> Values] /\ seen["replicas"] \in Nat
  BY DEF DefinitionOn
<1>2. CASE a = "set-resources" /\ Podman
  <2> DEFINE g == [f \in DOMAIN params |-> IF seen[f] = None THEN 0 ELSE seen[f]]
  <2>1. Reversal(a, params, seen) = g
    BY <1>2 DEF Reversal, ResourcesReversal
  <2>2. DOMAIN params \subseteq {"memory", "cpu"}
    BY <1>2 DEF Typed, Asks
  <2>3. \A f \in DOMAIN params : g[f] \in Nat
    BY <1>1, <2>2 DEF Fields, Values
  <2>4. g \in [DOMAIN params -> Values] /\ DOMAIN params \in SUBSET Fields
    BY <2>2, <2>3 DEF Values, Fields
  <2>5. g \in Maps /\ DOMAIN g = DOMAIN params
    BY <2>4 DEF Maps
  <2> HIDE DEF g
  <2> QED
    BY <1>2, <2>1, <2>2, <2>3, <2>5 DEF Typed, Asks
<1>3. CASE (a = "set-resources" /\ ~Podman) \/ a = "adjust-probe"
  <2>1. PICK S \in {{"memory", "cpu"}, {"probe"}} :
          Reversal(a, params, seen) = Block(S, seen) /\ S = Asks(a)
    BY <1>3 DEF Reversal, ResourcesReversal, ProbeReversal, Asks
  <2>2. S \in SUBSET Fields
    BY DEF Fields
  <2> DEFINE g == Block(S, seen)
  <2>3. g \in Maps /\ DOMAIN g \subseteq S /\ \A f \in DOMAIN g : g[f] \in Nat
    <3>1. \A f \in DOMAIN g : g[f] = seen[f] /\ seen[f] \in Nat
      BY <1>1, <2>2, BlockTyped
    <3> QED
      BY <1>1, <2>2, <3>1, BlockTyped
  <2> HIDE DEF g
  <2> QED
    BY <1>3, <2>1, <2>3 DEF Typed, g
<1>4. CASE a \in {"scale", "set-env", "set-image"}
  <2>1. PICK S \in {{"replicas"}, {"env"}, {"image"}} :
          Reversal(a, params, seen) = Previous(S, seen) /\ S = Asks(a)
    BY <1>4 DEF Reversal, ScaleReversal, EnvReversal, ImageReversal, Asks
  <2>2. S \in SUBSET Fields
    BY DEF Fields
  <2> QED
    BY <1>1, <1>4, <2>1, <2>2, PreviousTyped DEF Typed, Numeric
<1>5. CASE a = "rollback"
  <2>1. Reversal(a, params, seen) = Previous(Template, seen)
    BY <1>5 DEF Reversal, RollbackReversal
  <2> QED
    BY <1>1, <1>5, <2>1, PreviousTyped DEF Typed, Asks, Template
<1> QED
  BY <1>2, <1>3, <1>4, <1>5 DEF Reversal

\* The definition an action leaves, field by field.
Patches == {"set-resources", "adjust-probe", "scale", "set-env", "set-image", "recreate"}

\* What a new container is given, and what it has beside that.
Given(params, seen, f) ==
  IF f \in DOMAIN params THEN params[f]
  ELSE IF f \in {"env", "image"} THEN seen[f]
  ELSE IF f \in {"memory", "cpu", "mounts"} THEN None ELSE definition[f]

LEMMA StartedFields ==
  ASSUME NEW d, d = [f \in Fields |-> d[f]]
  PROVE  /\ DOMAIN Started(d) = Fields
         /\ Started(d) = [f \in Fields |-> Started(d)[f]]
         /\ \A f \in Fields :
              Started(d)[f] =
                IF f = "env" /\ d["env"] = None /\ d["image"] \in DOMAIN ImageEnv
                  THEN ImageEnv[d["image"]] ELSE d[f]
<1>1. "env" \in Fields
  BY DEF Fields
<1> QED
  BY <1>1 DEF Started

LEMMA RebuiltFields ==
  ASSUME Podman, NEW a \in {"set-env", "set-image", "recreate"}, NEW params, NEW seen
  PROVE  /\ DOMAIN Result(a, params, seen) = Fields
         /\ Result(a, params, seen) = [f \in Fields |-> Result(a, params, seen)[f]]
         /\ \A f \in Fields :
              Result(a, params, seen)[f] =
                IF /\ f = "env" /\ Given(params, seen, "env") = None
                   /\ Given(params, seen, "image") \in DOMAIN ImageEnv
                  THEN ImageEnv[Given(params, seen, "image")] ELSE Given(params, seen, f)
<1> DEFINE d == [f \in Fields |-> Given(params, seen, f)]
<1>1. Result(a, params, seen) = Started(d)
  BY DEF Result, SetEnv, SetImage, Recreate, Rebuilt, Given
<1>2. "env" \in Fields /\ "image" \in Fields
  BY DEF Fields
<1>3. d = [f \in Fields |-> d[f]] /\ \A f \in Fields : d[f] = Given(params, seen, f)
  OBVIOUS
<1> HIDE DEF d
<1> QED
  BY <1>1, <1>2, <1>3, StartedFields

LEMMA UpdatedFields ==
  ASSUME Podman, NEW params, NEW seen, NEW f \in Fields
  PROVE  Result("set-resources", params, seen)[f] =
           IF f \notin DOMAIN params THEN definition[f]
           ELSE IF params[f] = 0 THEN None ELSE params[f]
BY DEF Result, SetResources

LEMMA RolledBackFields ==
  ASSUME NEW params, NEW seen, NEW f \in Fields
  PROVE  Result("rollback", params, seen)[f] =
           IF f \in Template THEN params[f] ELSE definition[f]
BY DEF Result, RollBack

\* A patch sets what is asked for and is a value; beside it, it repeats what the
\* planner saw of the block.
LEMMA MergedFields ==
  ASSUME ~Podman, NEW a \in Patches, NEW params, Typed(a, params), NEW seen,
         NEW f \in Fields
  PROVE  Result(a, params, seen)[f] =
           IF f \in DOMAIN params /\ params[f] # None THEN params[f]
           ELSE IF /\ f \notin DOMAIN params /\ seen[f] # None
                   /\ \/ a = "set-resources" /\ f \in {"memory", "cpu"}
                      \/ a = "adjust-probe" /\ f = "probe"
             THEN seen[f] ELSE definition[f]
<1>1. CASE a = "set-resources"
  <2>1. DOMAIN params \subseteq {"memory", "cpu"}
    BY <1>1 DEF Typed, Asks
  <2> QED
    BY <1>1, <2>1 DEF Result, SetResources, Merged, Overlaid
<1>2. CASE a = "adjust-probe"
  <2>1. DOMAIN params \subseteq {"probe"}
    BY <1>2 DEF Typed, Asks
  <2> QED
    BY <1>2, <2>1 DEF Result, AdjustProbe, Merged, Overlaid
<1>3. CASE a \in {"scale", "set-env", "set-image", "recreate"}
  BY <1>3 DEF Result, Scale, SetEnv, SetImage, Recreate, Merged
<1> QED
  BY <1>1, <1>2, <1>3 DEF Patches

LEMMA ResultIsMap ==
  ASSUME NEW a \in CatalogActions, definition \in DefinitionOn(Podman), NEW params, NEW seen
  PROVE  DOMAIN Result(a, params, seen) = Fields
         /\ Result(a, params, seen) = [f \in Fields |-> Result(a, params, seen)[f]]
<1>1. CASE Podman /\ a \in {"set-env", "set-image", "recreate"}
  BY <1>1, RebuiltFields
<1>2. CASE ~(Podman /\ a \in {"set-env", "set-image", "recreate"})
  BY <1>2 DEF Result, SetResources, AdjustProbe, Scale, SetEnv, SetImage, Recreate,
              RollBack, Merged, DefinitionOn, CatalogActions
<1> QED
  BY <1>1, <1>2

\* Whatever is executed leaves a definition.
LEMMA ResultTyped ==
  ASSUME NEW a \in CatalogActions, Supports(platform, a), platform \in Platforms,
         NEW params, Typed(a, params),
         definition \in DefinitionOn(Podman), NEW seen \in DefinitionOn(Podman)
  PROVE  Result(a, params, seen) \in DefinitionOn(Podman)
<1> DEFINE new == Result(a, params, seen)
<1>1. definition \in [Fields -> Values] /\ seen \in [Fields -> Values]
  BY DEF DefinitionOn
<1>2. \A f \in DOMAIN params : params[f] \in Values
  BY DEF Typed, Maps
<1>3. None \in Values /\ None \notin Nat
  BY UndoAssumption DEF Values
<1>4. SUFFICES /\ \A f \in Fields : new[f] \in Values
               /\ new["replicas"] \in Nat
               /\ Podman => /\ new["memory"] # 0 /\ new["cpu"] # 0
                            /\ new["env"] = None => new["image"] \notin DOMAIN ImageEnv
  BY ResultIsMap DEF DefinitionOn
<1>5. /\ "replicas" \in Fields /\ "memory" \in Fields /\ "cpu" \in Fields
      /\ "env" \in Fields /\ "image" \in Fields
  BY DEF Fields
<1> HIDE DEF new
<1>6. CASE a \in {"restart", "shell"}
  BY <1>1, <1>6 DEF new, Result, DefinitionOn
<1>7. CASE Podman /\ a = "set-resources"
  <2>1. DOMAIN params \subseteq {"memory", "cpu"}
    BY <1>7 DEF Typed, Asks
  <2>2. \A f \in Fields : new[f] = IF f \notin DOMAIN params THEN definition[f]
                                   ELSE IF params[f] = 0 THEN None ELSE params[f]
    BY <1>7, UpdatedFields DEF new
  <2> QED
    BY <1>1, <1>2, <1>3, <1>5, <1>7, <2>1, <2>2 DEF DefinitionOn
<1>8. CASE Podman /\ a \in {"set-env", "set-image", "recreate"}
  <2> DEFINE given(f) == Given(params, seen, f)
  <2>1. DOMAIN params \subseteq {"env", "image"}
    BY <1>8 DEF Typed, Asks
  <2>2. \A f \in Fields :
          new[f] = IF /\ f = "env" /\ given("env") = None
                      /\ given("image") \in DOMAIN ImageEnv
                     THEN ImageEnv[given("image")] ELSE given(f)
    BY <1>8, RebuiltFields DEF new
  <2>3. /\ \A f \in Fields : given(f) \in Values
        /\ given("replicas") = definition["replicas"]
        /\ given("memory") = None /\ given("cpu") = None
    BY <1>1, <1>2, <1>3, <1>5, <2>1 DEF Given
  <2>4. \A image \in DOMAIN ImageEnv :
          ImageEnv[image] \in Values /\ ImageEnv[image] # None
    BY UndoAssumption DEF Values
  <2> HIDE DEF given
  <2>5. \A f \in Fields : new[f] \in Values
    BY <2>2, <2>3, <2>4
  <2>6. new["replicas"] \in Nat /\ new["memory"] = None /\ new["cpu"] = None
    BY <1>5, <2>2, <2>3 DEF DefinitionOn
  <2>7. new["image"] = given("image")
    BY <1>5, <2>2
  <2>8. new["env"] = None => given("env") = None /\ given("image") \notin DOMAIN ImageEnv
    BY <1>5, <2>2, <2>4
  <2> QED
    BY <1>3, <2>5, <2>6, <2>7, <2>8
<1>9. CASE a = "rollback" /\ ~Podman
  <2>1. DOMAIN params = Template
    BY <1>9 DEF Typed
  <2>2. \A f \in Fields : new[f] = IF f \in Template THEN params[f] ELSE definition[f]
    BY <1>9, RolledBackFields DEF new
  <2> QED
    BY <1>1, <1>2, <1>5, <1>9, <2>1, <2>2 DEF DefinitionOn, Template
<1>10. CASE ~Podman /\ a \in Patches
  <2>1. "replicas" \in DOMAIN params => params["replicas"] \in Nat
    BY <1>10 DEF Typed, Numeric, Patches
  <2>2. \A f \in Fields :
          \/ f \in DOMAIN params /\ new[f] = params[f]
          \/ new[f] = definition[f]
          \/ f # "replicas" /\ new[f] = seen[f]
    BY <1>10, MergedFields DEF new
  <2>3. \A f \in Fields : new[f] \in Values
    BY <1>1, <1>2, <2>2
  <2>4. new["replicas"] \in Nat
    BY <1>5, <2>1, <2>2 DEF DefinitionOn
  <2> QED
    BY <1>10, <2>3, <2>4
<1>11. Podman => a \notin {"scale", "adjust-probe", "rollback"}
  BY DEF Supports, KubernetesOnly
<1> QED
  BY <1>6, <1>7, <1>8, <1>9, <1>10, <1>11 DEF CatalogActions, Patches

------------------------------------------------------------------------------
(* What a reversal is worth. *)

\* Put back over the fix it was kept for, the reversal g gives the definition
\* that was replaced: it names what was changed, with its old value (0 for a
\* limit there was not), but for what a rebuild loses and a patch cannot remove.
GivesBack(podman, fix, g) ==
  \A f \in Fields :
    IF f \in DOMAIN g
      THEN \/ g[f] = fix.before[f]
           \/ /\ podman /\ fix.action = "set-resources"
              /\ g[f] = 0 /\ fix.before[f] = None
      ELSE \/ fix.after[f] = fix.before[f]
           \/ /\ podman /\ RebuildsContainer(fix.action)
              /\ f \in {"memory", "cpu", "mounts"}
           \/ /\ podman /\ fix.action = "set-image"
              /\ f = "env" /\ fix.before[f] = None
           \/ /\ ~podman /\ fix.action # "rollback" /\ fix.before[f] = None

\* A fix that nobody interfered with since it was planned.
LEMMA ReversalGivesBack ==
  ASSUME NEW a \in CatalogActions, Supports(platform, a), platform \in Platforms,
         NEW params, Typed(a, params), definition \in DefinitionOn(Podman),
         Reversal(a, params, definition) # None,
         NEW fix, fix.action = a, fix.before = definition,
         fix.after = Result(a, params, definition)
  PROVE  GivesBack(Podman, fix, Reversal(a, params, definition))
<1> DEFINE g == Reversal(a, params, definition)
           new == Result(a, params, definition)
<1>1. definition \in [Fields -> Values] /\ None \notin Nat
  BY UndoAssumption DEF DefinitionOn
<1>2. CASE a = "set-resources" /\ Podman
  <2>1. g = [f \in DOMAIN params |-> IF definition[f] = None THEN 0 ELSE definition[f]]
    BY <1>2 DEF Reversal, ResourcesReversal
  <2>2. \A f \in Fields : f \notin DOMAIN params => new[f] = definition[f]
    BY <1>2, UpdatedFields
  <2> HIDE DEF new
  <2>3. fix.after = new
    BY DEF new
  <2> QED
    BY <1>2, <2>1, <2>2, <2>3 DEF GivesBack
<1>3. CASE (a = "set-resources" /\ ~Podman) \/ a = "adjust-probe"
  <2>1. PICK S \in {{"memory", "cpu"}, {"probe"}} : g = Block(S, definition) /\ S = Asks(a)
    BY <1>3 DEF Reversal, ResourcesReversal, ProbeReversal, Asks
  <2>2. S \in SUBSET Fields /\ DOMAIN params \subseteq S
    BY <2>1 DEF Fields, Typed
  <2> HIDE DEF g
  <2>3. /\ DOMAIN g = {f \in S : definition[f] # None}
        /\ \A f \in DOMAIN g : g[f] = definition[f]
    <3>1. DOMAIN Block(S, definition) = {f \in S : definition[f] # None}
      BY <1>1, <2>2, BlockTyped
    <3>2. \A f \in DOMAIN Block(S, definition) : Block(S, definition)[f] = definition[f]
      BY <1>1, <2>2, BlockTyped
    <3> QED
      BY <2>1, <3>1, <3>2
  <2>4. ~Podman /\ a \in Patches /\ a # "rollback"
    BY <1>3 DEF Supports, KubernetesOnly, Patches
  <2>5. \A f \in Fields : f \notin S => new[f] = definition[f]
    BY <2>2, <2>4, MergedFields
  <2> HIDE DEF new
  <2>6. fix.after = new
    BY DEF new
  <2> QED
    BY <2>3, <2>4, <2>5, <2>6 DEF GivesBack, g
<1>4. CASE a \in {"scale", "set-env", "set-image"}
  <2>1. PICK S \in {{"replicas"}, {"env"}, {"image"}} :
          g = Previous(S, definition) /\ S = Asks(a)
    BY <1>4 DEF Reversal, ScaleReversal, EnvReversal, ImageReversal, Asks
  <2>2. S \in SUBSET Fields /\ DOMAIN params \subseteq S
    BY <2>1 DEF Fields, Typed
  <2>3. DOMAIN g = S /\ \A f \in S : g[f] = definition[f]
    BY <1>1, <2>1, <2>2, PreviousTyped
  <2>4. ASSUME NEW f \in Fields, f \notin S
        PROVE  \/ new[f] = definition[f]
               \/ Podman /\ RebuildsContainer(a) /\ f \in {"memory", "cpu", "mounts"}
               \/ Podman /\ a = "set-image" /\ f = "env" /\ definition[f] = None
    <3>1. f \notin DOMAIN params
      BY <2>2, <2>4
    <3>2. CASE Podman
      <4>1. a \in {"set-env", "set-image", "recreate"}
        BY <1>4, <3>2 DEF Supports, KubernetesOnly
      <4>2. \/ new[f] = Given(params, definition, f)
            \/ f = "env" /\ Given(params, definition, "env") = None
        BY <3>2, <4>1, RebuiltFields
      <4>3. a = "set-env" => f # "env"
        BY <2>1, <2>4 DEF Asks
      <4> HIDE DEF new
      <4>4. CASE f = "env"
        <5>1. Given(params, definition, f) = definition[f] /\ a = "set-image"
          BY <1>4, <3>1, <4>1, <4>3, <4>4 DEF Given
        <5> QED
          BY <3>2, <4>2, <4>4, <5>1
      <4>5. CASE f # "env"
        <5>1. new[f] = Given(params, definition, f)
          BY <4>2, <4>5
        <5> QED
          BY <3>1, <3>2, <4>1, <5>1 DEF Given, RebuildsContainer
      <4> QED
        BY <4>4, <4>5
    <3>3. CASE ~Podman
      <4>1. a \in Patches /\ a # "set-resources" /\ a # "adjust-probe"
        BY <1>4 DEF Patches
      <4> QED
        BY <3>1, <3>3, <4>1, MergedFields
    <3> QED
      BY <3>2, <3>3
  <2> HIDE DEF g, new
  <2>5. fix.after = new
    BY DEF new
  <2> QED
    BY <2>3, <2>4, <2>5 DEF GivesBack, g
<1>5. CASE a = "rollback"
  <2>1. g = Previous(Template, definition) /\ Template \in SUBSET Fields
    BY <1>5 DEF Reversal, RollbackReversal, Template
  <2>2. DOMAIN g = Template /\ \A f \in Template : g[f] = definition[f]
    BY <1>1, <2>1, PreviousTyped
  <2>3. \A f \in Fields : f \notin Template => new[f] = definition[f]
    BY <1>5, RolledBackFields
  <2> HIDE DEF g, new
  <2>4. fix.after = new
    BY DEF new
  <2> QED
    BY <2>2, <2>3, <2>4 DEF GivesBack, g
<1> QED
  BY <1>2, <1>3, <1>4, <1>5 DEF Reversal

\* The undo of a fix, from the definition the fix left, when nothing is lost.
LEMMA UndoGivesBack ==
  ASSUME NEW a \in CatalogActions, Supports(platform, a), platform \in Platforms,
         HasReversal(a), NEW g, Typed(a, g), NEW fix, fix.action = a,
         fix.before \in DefinitionOn(Podman), fix.after = definition,
         definition \in DefinitionOn(Podman),
         GivesBack(Podman, fix, g), Restorable(fix)
  PROVE  Result(a, g, definition) = fix.before
<1> DEFINE new == Result(a, g, definition)
<1>1. /\ definition \in [Fields -> Values] /\ fix.before \in [Fields -> Values]
      /\ Podman => fix.before["memory"] # 0 /\ fix.before["cpu"] # 0
      /\ None \notin Nat
  BY UndoAssumption DEF DefinitionOn
<1>2. SUFFICES \A f \in Fields : new[f] = fix.before[f]
  <2>1. new = [f \in Fields |-> new[f]]
    BY ResultIsMap
  <2> HIDE DEF new
  <2> QED
    BY <1>1, <2>1, <1>2 DEF new
<1>3. CASE a = "set-resources" /\ Podman
  <2>1. DOMAIN g \subseteq {"memory", "cpu"}
    BY <1>3 DEF Typed, Asks
  <2>2. \A f \in Fields : new[f] = IF f \notin DOMAIN g THEN definition[f]
                                   ELSE IF g[f] = 0 THEN None ELSE g[f]
    BY <1>3, UpdatedFields
  <2> HIDE DEF new
  <2>3. ~RebuildsContainer(a)
    BY <1>3 DEF RebuildsContainer
  <2> QED
    BY <1>1, <1>3, <2>1, <2>2, <2>3 DEF GivesBack
<1>4. CASE a \in {"set-env", "set-image"} /\ Podman
  <2> DEFINE given(f) == Given(g, definition, f)
  <2>1. DOMAIN g \subseteq IF a = "set-env" THEN {"env"} ELSE {"image"}
    BY <1>4 DEF Typed, Asks
  <2>2. \A f \in Fields :
          new[f] = IF /\ f = "env" /\ given("env") = None
                      /\ given("image") \in DOMAIN ImageEnv
                     THEN ImageEnv[given("image")] ELSE given(f)
    BY <1>4, RebuiltFields
  <2>3. /\ \A f \in {"memory", "cpu", "mounts"} : fix.before[f] = None
        /\ a = "set-image" => (fix.before["env"] = None => fix.after["env"] = None)
    BY <1>4 DEF Restorable, RebuildsContainer
  <2> HIDE DEF new
  <2>4. ASSUME NEW f \in Fields PROVE given(f) = fix.before[f]
    <3>1. CASE f \in DOMAIN g
      <4>1. g[f] = fix.before[f]
        BY <1>4, <3>1 DEF GivesBack
      <4> QED
        BY <3>1, <4>1 DEF Given
    <3>2. CASE f \notin DOMAIN g /\ f \in {"memory", "cpu", "mounts"}
      BY <2>3, <3>2 DEF Given
    <3>3. CASE f \notin DOMAIN g /\ f \notin {"memory", "cpu", "mounts"}
      <4>1. given(f) = fix.after[f]
        BY <3>3 DEF Given
      <4>2. \/ fix.after[f] = fix.before[f]
            \/ a = "set-image" /\ f = "env" /\ fix.before[f] = None
        BY <1>4, <3>3 DEF GivesBack
      <4> QED
        BY <2>3, <4>1, <4>2
    <3> QED
      BY <3>1, <3>2, <3>3
  <2>5. given("env") = fix.before["env"] /\ given("image") = fix.before["image"]
    BY <2>4 DEF Fields
  <2>6. fix.before["env"] = None => fix.before["image"] \notin DOMAIN ImageEnv
    BY <1>4 DEF DefinitionOn
  <2> HIDE DEF given
  <2> QED
    BY <2>2, <2>4, <2>5, <2>6
<1>5. CASE a = "rollback"
  <2>1. DOMAIN g = Template
    BY <1>5 DEF Typed
  <2>2. \A f \in Fields : new[f] = IF f \in Template THEN g[f] ELSE definition[f]
    BY <1>5, RolledBackFields
  <2>3. ~RebuildsContainer(a) /\ a # "set-resources"
    BY <1>5 DEF RebuildsContainer
  <2> HIDE DEF new
  <2> QED
    BY <1>1, <1>5, <2>1, <2>2, <2>3 DEF GivesBack
<1>6. CASE a \in Patches /\ ~Podman
  <2>1. \A f \in Fields : fix.before[f] = None => fix.after[f] = None
    BY <1>6 DEF Restorable, Patches
  <2>2. \A f \in Fields :
          \/ f \in DOMAIN g /\ g[f] # None /\ new[f] = g[f]
          \/ (f \in DOMAIN g => g[f] = None) /\ new[f] = definition[f]
    BY <1>6, MergedFields
  <2> HIDE DEF new
  <2>3. \A f \in DOMAIN g \cap Fields : g[f] = fix.before[f]
    BY <1>6 DEF GivesBack
  <2>4. \A f \in Fields : f \notin DOMAIN g =>
          fix.after[f] = fix.before[f] \/ fix.before[f] = None
    BY <1>6 DEF GivesBack
  <2> QED
    BY <1>1, <2>1, <2>2, <2>3, <2>4
<1> QED
  BY <1>3, <1>4, <1>5, <1>6
     DEF Supports, KubernetesOnly, HasReversal, CatalogActions, Patches

------------------------------------------------------------------------------
(* The inductive invariant. *)

\* Reversal, for a platform that is given.
ReversalOn(podman, a, params, seen) ==
  CASE a = "set-resources" ->
         IF podman THEN [f \in DOMAIN params |-> IF seen[f] = None THEN 0 ELSE seen[f]]
         ELSE Block({"memory", "cpu"}, seen)
    [] a = "adjust-probe"  -> Block({"probe"}, seen)
    [] a = "scale"         -> Previous({"replicas"}, seen)
    [] a = "set-env"       -> Previous({"env"}, seen)
    [] a = "set-image"     -> Previous({"image"}, seen)
    [] a = "rollback"      -> Previous(Template, seen)
    [] OTHER               -> None

LEMMA ReversalIsOn ==
  ASSUME NEW a, NEW params, NEW seen
  PROVE  Reversal(a, params, seen) = ReversalOn(Podman, a, params, seen)
BY DEF Reversal, ReversalOn, ResourcesReversal, ProbeReversal, ScaleReversal,
       EnvReversal, ImageReversal, RollbackReversal

Runnable(podman, a) == podman => a \notin KubernetesOnly

\* The fix number k of the trail was the action a, and the reversal g that was
\* kept for it, if any, gives back what it replaced.
Faithful(trail, podman, k, a, g) ==
  /\ k \in 1 .. Len(trail) /\ trail[k].action = a /\ Runnable(podman, a)
  /\ g # None =>
       /\ HasReversal(a) /\ Typed(a, g)
       /\ trail[k].seen = trail[k].before => GivesBack(podman, trail[k], g)

Process == [pc       : {"idle", "planned", "waiting", "saved", "ended"},
            action   : CatalogActions \cup {None},
            target   : (0 .. MaxPods) \cup {None},
            params   : Maps \cup {None},
            seen     : [Fields -> Values] \cup {None},
            undoes   : Payloads \cup {None},
            reversal : Maps \cup {None},
            number   : Nat \cup {None}]

\* A process that has planned knows what it will do and what it keeps of it; one
\* that has executed keeps the reversal of that; an undo repeats a saved payload.
Fits(trail, podman, x) ==
  /\ x.pc \in {"planned", "waiting"} =>
       /\ x.action \in CatalogActions /\ x.target \in 0 .. MaxPods
       /\ Runnable(podman, x.action)
       /\ Typed(x.action, x.params) /\ InBounds(x.action, x.params)
       /\ x.seen \in DefinitionOn(podman)
  /\ x.pc = "planned" =>
       /\ x.reversal # None => x.reversal = ReversalOn(podman, x.action, x.params, x.seen)
       /\ x.undoes # None =>
            /\ x.action = x.undoes.action /\ x.params = x.undoes.reversal
            /\ x.undoes.reversal # None
            /\ Faithful(trail, podman, x.undoes.number, x.action, x.params)
  /\ x.pc = "waiting" => Faithful(trail, podman, x.number, x.action, x.reversal)
  /\ x.pc = "saved" => x.number \in 1 .. Len(trail) /\ x.target \in 0 .. MaxPods

Fixes(podman) == [seen : DefinitionOn(podman), before : DefinitionOn(podman),
                  after : DefinitionOn(podman), action : CatalogActions,
                  during : SUBSET (Nat \cup {None})]

WorldFits ==
  /\ platform \in Platforms
  /\ definition \in DefinitionOn(Podman)
  /\ revisions \subseteq [Template -> Values] /\ served \in [Template -> Values]
  /\ pod \in 0 .. MaxPods /\ present \in BOOLEAN

RunsFit == /\ run \in [Runs -> Process]
           /\ \A r \in Runs : Fits(done, Podman, run[r])

FilesFit ==
  /\ file \in [0 .. MaxPods -> Payloads \cup {None, Torn}]
  /\ \A t \in 0 .. MaxPods : file[t] \notin {None, Torn} =>
       Faithful(done, Podman, file[t].number, file[t].action, file[t].reversal)

\* A fix that has not been saved is known to every later one as still waiting.
WaitersKnown ==
  \A r \in Runs : run[r].pc = "waiting" =>
    \A m \in 1 .. Len(done) : run[r].number < m => run[r].number \in done[m].during

Past == {r \in Runs : run[r].pc \notin {"idle", "planned"}}

\* Every process executes once.
OneFixEach == Len(done) <= Cardinality(Past)

Inv == /\ WorldFits /\ RunsFit /\ FilesFit /\ done \in Seq(Fixes(Podman))
       /\ WaitersKnown /\ NewestSavedOnFile /\ OneFixEach

\* What is known of a fix stays known when others follow.
LEMMA FaithfulStays ==
  ASSUME NEW podman, NEW S, NEW trail \in Seq(S), NEW y \in S, NEW k, NEW a, NEW g,
         Faithful(trail, podman, k, a, g)
  PROVE  Faithful(Append(trail, y), podman, k, a, g)
<1>1. k \in 1 .. Len(Append(trail, y)) /\ Append(trail, y)[k] = trail[k]
  BY DEF Faithful
<1> QED
  BY <1>1 DEF Faithful

LEMMA FitsStays ==
  ASSUME NEW podman, NEW S, NEW trail \in Seq(S), NEW y \in S, NEW x,
         Fits(trail, podman, x)
  PROVE  Fits(Append(trail, y), podman, x)
<1>1. \A n : n \in 1 .. Len(trail) => n \in 1 .. Len(Append(trail, y))
  OBVIOUS
<1> QED
  BY <1>1, FaithfulStays DEF Fits

\* The trail stays or grows by one fix.
TrailGrows(more) == more = done \/ \E y \in Fixes(Podman) : more = Append(done, y)

LEMMA RunsStep ==
  ASSUME RunsFit, done \in Seq(Fixes(Podman)), platform' = platform,
         NEW p \in Runs, NEW x \in Process, run' = [run EXCEPT ![p] = x],
         TrailGrows(done'), Fits(done', Podman, x)
  PROVE  RunsFit'
<1>1. run' \in [Runs -> Process]
  BY DEF RunsFit
<1>2. ASSUME NEW r \in Runs PROVE Fits(done', Podman, run'[r])
  <2>1. CASE r = p
    BY <2>1 DEF RunsFit
  <2>2. CASE r # p
    <3>1. run'[r] = run[r] /\ Fits(done, Podman, run[r])
      BY <2>2 DEF RunsFit
    <3>2. ASSUME NEW y \in Fixes(Podman), done' = Append(done, y)
          PROVE  Fits(done', Podman, run'[r])
      <4>1. Fits(Append(done, y), Podman, run[r])
        BY <3>1, FitsStays
      <4> QED
        BY <3>1, <3>2, <4>1
    <3>3. CASE done' = done
      BY <3>1, <3>3
    <3> QED
      BY <3>2, <3>3 DEF TrailGrows
  <2> QED
    BY <2>1, <2>2
<1> QED
  BY <1>1, <1>2 DEF RunsFit

LEMMA FilesStay ==
  ASSUME FilesFit, done \in Seq(Fixes(Podman)), platform' = platform,
         TrailGrows(done'), file' = file
  PROVE  FilesFit'
<1>1. ASSUME NEW k, NEW a, NEW g, Faithful(done, Podman, k, a, g)
      PROVE  Faithful(done', Podman, k, a, g)
  <2>1. CASE done' = done
    BY <1>1, <2>1
  <2>2. ASSUME NEW y \in Fixes(Podman), done' = Append(done, y)
        PROVE  Faithful(done', Podman, k, a, g)
    <3>1. Faithful(Append(done, y), Podman, k, a, g)
      BY <1>1, FaithfulStays
    <3> QED
      BY <2>2, <3>1
  <2> QED
    BY <2>1, <2>2 DEF TrailGrows
<1> QED
  BY <1>1 DEF FilesFit

\* A process that has ended, or not begun, says nothing.
LEMMA BareFits ==
  ASSUME NEW trail, NEW podman, NEW pc \in {"idle", "ended"}
  PROVE  Bare(pc) \in Process /\ Fits(trail, podman, Bare(pc)) /\ Bare(pc).pc = pc
BY DEF Bare, Process, Fits

\* Whatever the shell-out does to the world leaves it typed.
LEMMA EffectTyped ==
  ASSUME WorldFits, RunsFit, NEW r \in Runs, run[r].pc = "planned",
         platform' = platform, Effect(r)
  PROVE  WorldFits' /\ definition' = Result(run[r].action, run[r].params, run[r].seen)
<1>1. /\ run[r].action \in CatalogActions /\ Runnable(Podman, run[r].action)
      /\ Typed(run[r].action, run[r].params) /\ run[r].seen \in DefinitionOn(Podman)
  BY DEF RunsFit, Fits
<1>2. Supports(platform, run[r].action)
  BY <1>1 DEF Runnable, Supports, WorldFits, Platforms
<1>3. definition' = Result(run[r].action, run[r].params, run[r].seen)
  BY DEF Effect
<1>4. definition' \in DefinitionOn(Podman)
  BY <1>1, <1>2, <1>3, ResultTyped DEF WorldFits
<1>5. TemplateOf(definition) \in [Template -> Values]
      /\ TemplateOf(definition') \in [Template -> Values]
  BY <1>4 DEF TemplateOf, DefinitionOn, Template, WorldFits
<1>6. revisions' \subseteq [Template -> Values]
  BY <1>3, <1>5 DEF Effect, Recorded, WorldFits
<1>7. pod' \in 0 .. MaxPods /\ served' \in [Template -> Values] /\ present' \in BOOLEAN
  BY <1>5, UndoAssumption DEF Effect, WorldFits
<1> QED
  BY <1>3, <1>4, <1>6, <1>7 DEF WorldFits

------------------------------------------------------------------------------
(* The steps of a process. *)

Typings == WorldFits /\ RunsFit /\ FilesFit /\ done \in Seq(Fixes(Podman))

LEMMA EndsFits ==
  ASSUME Typings, NEW r \in Runs, Ends(r), done' = done, platform' = platform
  PROVE  RunsFit'
<1>1. Bare("ended") \in Process /\ Fits(done', Podman, Bare("ended"))
  BY BareFits
<1>2. run' = [run EXCEPT ![r] = Bare("ended")]
  BY DEF Ends
<1> QED
  BY <1>1, <1>2, RunsStep DEF Typings, TrailGrows

\* A plan that is typed, with the reversal its planner computes, if any.
LEMMA PlannedFits ==
  ASSUME Typings, NEW r \in Runs, NEW a \in CatalogActions, Runnable(Podman, a),
         NEW params, Typed(a, params), InBounds(a, params),
         NEW undoes \in Payloads \cup {None},
         undoes # None =>
           /\ a = undoes.action /\ params = undoes.reversal /\ undoes.reversal # None
           /\ Faithful(done, Podman, undoes.number, a, params),
         NEW reversal \in {Reversal(a, params, definition), None},
         Planned(r, a, params, undoes, reversal), done' = done, platform' = platform
  PROVE  RunsFit'
<1> DEFINE x == [pc |-> "planned", action |-> a, target |-> pod, params |-> params,
                 seen |-> definition, undoes |-> undoes, reversal |-> reversal,
                 number |-> None]
<1>1. definition \in DefinitionOn(Podman) /\ pod \in 0 .. MaxPods
  BY DEF Typings, WorldFits
<1>2. reversal \in Maps \cup {None}
  BY <1>1, ReversalTyped DEF Typed
<1>3. params \in Maps /\ definition \in [Fields -> Values]
  BY <1>1 DEF Typed, DefinitionOn
<1>4. x \in Process
  BY <1>1, <1>2, <1>3 DEF Process
<1>5. Fits(done, Podman, x)
  BY <1>1, ReversalIsOn DEF Fits
<1>6. run' = [run EXCEPT ![r] = x]
  BY DEF Planned
<1> HIDE DEF x
<1> QED
  BY <1>4, <1>5, <1>6, RunsStep DEF Typings, TrailGrows

LEMMA WorldStays == Typings /\ UNCHANGED <<platform, world>> => WorldFits'
BY DEF Typings, WorldFits, world

LEMMA FixTyped ==
  ASSUME Typings, NEW r \in Runs, Fix(r)
  PROVE  Typings'
<1>1. UNCHANGED <<platform, world, file, done>>
  BY DEF Fix
<1>2. PICK route \in Routes, a \in Offered : \E form \in Forms(a) :
        /\ Supports(platform, a)
        /\ Valid(a, ParseText(a, form))
        /\ LET params == Params(route, a, form) IN
             IF Valid(a, params)
               THEN \E reversal \in {Reversal(a, params, definition)}
                                    \cup (IF a = "rollback" THEN {None} ELSE {}) :
                      Planned(r, a, params, None, reversal)
               ELSE Ends(r)
  BY DEF Fix
<1>3. PICK form \in Forms(a) :
        /\ Supports(platform, a)
        /\ Valid(a, ParseText(a, form))
        /\ IF Valid(a, Params(route, a, form))
             THEN \E reversal \in {Reversal(a, Params(route, a, form), definition), None} :
                    Planned(r, a, Params(route, a, form), None, reversal)
             ELSE Ends(r)
  BY <1>2
<1>4. a \in CatalogActions /\ Runnable(Podman, a)
  BY <1>3, UndoAssumption DEF Supports, Runnable
<1>5. revisions \subseteq [Template -> Values]
  BY DEF Typings, WorldFits
<1>6. RunsFit'
  <2>1. CASE Valid(a, Params(route, a, form))
    <3>1. Typed(a, Params(route, a, form)) /\ InBounds(a, Params(route, a, form))
      BY <1>3, <1>5, <2>1, ParamsTyped
    <3> QED
      BY <1>1, <1>3, <1>4, <2>1, <3>1, PlannedFits
  <2>2. CASE ~Valid(a, Params(route, a, form))
    BY <1>1, <1>3, <2>2, EndsFits
  <2> QED
    BY <2>1, <2>2
<1>7. FilesFit'
  BY <1>1, FilesStay DEF Typings, TrailGrows
<1> QED
  BY <1>1, <1>6, <1>7, WorldStays DEF Typings

LEMMA UndoTyped ==
  ASSUME Typings, NEW r \in Runs, Undo(r)
  PROVE  Typings'
<1>1. UNCHANGED <<platform, world, file, done>>
  BY DEF Undo
<1> DEFINE p == file[pod]
           params == Saved(p)
<1>2. IF params = Invalid THEN Ends(r)
      ELSE Planned(r, p.action, params, p, Reversal(p.action, params, definition))
  BY DEF Undo
<1>3. RunsFit'
  <2>1. CASE params = Invalid
    BY <1>1, <1>2, <2>1, EndsFits
  <2>2. CASE params # Invalid
    <3>1. /\ p \notin {None, Torn} /\ p.reversal # None
          /\ Valid(p.action, ParseText(p.action, p.reversal))
          /\ params = ParseText(p.action, p.reversal)
      BY <2>2 DEF Saved
    <3>2. pod \in 0 .. MaxPods
      BY DEF Typings, WorldFits
    <3>3. p \in Payloads /\ Faithful(done, Podman, p.number, p.action, p.reversal)
      BY <3>1, <3>2 DEF Typings, FilesFit
    <3>4. p.action \in CatalogActions /\ Runnable(Podman, p.action)
          /\ Typed(p.action, p.reversal)
      BY <3>1, <3>3 DEF Faithful, Payloads
    <3>5. params = p.reversal /\ InBounds(p.action, params)
      BY <3>1, <3>4, ParseTextIsSame
    <3> HIDE DEF p, params
    <3> QED
      BY <1>1, <1>2, <2>2, <3>1, <3>3, <3>4, <3>5, PlannedFits
  <2> QED
    BY <2>1, <2>2
<1>4. FilesFit'
  BY <1>1, FilesStay DEF Typings, TrailGrows
<1> QED
  BY <1>1, <1>3, <1>4, WorldStays DEF Typings

LEMMA FailTyped ==
  ASSUME Typings, NEW r \in Runs, Fail(r)
  PROVE  Typings'
<1>1. UNCHANGED <<platform, file, done>> /\ Ends(r) /\ run[r].pc = "planned"
  BY DEF Fail
<1>2. RunsFit' /\ FilesFit'
  BY <1>1, EndsFits, FilesStay DEF Typings, TrailGrows
<1>3. WorldFits'
  <2>1. CASE UNCHANGED world
    BY <1>1, <2>1, WorldStays
  <2>2. CASE Effect(r)
    BY <1>1, <2>2, EffectTyped DEF Typings
  <2>3. CASE /\ present' = FALSE
             /\ UNCHANGED <<definition, revisions, pod, served>>
    BY <1>1, <2>3 DEF Typings, WorldFits
  <2> QED
    BY <2>1, <2>2, <2>3 DEF Fail
<1> QED
  BY <1>1, <1>2, <1>3 DEF Typings

\* The fix that an execution adds to the trail.
LEMMA ExecuteTyped ==
  ASSUME Typings, NEW r \in Runs, Execute(r)
  PROVE  Typings'
<1> DEFINE y == [seen |-> run[r].seen, before |-> definition,
                 after |-> definition', action |-> run[r].action,
                 during |-> {run[q].number : q \in Waiting}]
           n == Len(done) + 1
           x == [run[r] EXCEPT !.pc = "waiting", !.number = n]
<1>1. /\ platform' = platform /\ file' = file /\ Effect(r) /\ run[r].pc = "planned"
      /\ done' = Append(done, y) /\ run' = [run EXCEPT ![r] = x]
  BY DEF Execute
<1>2. run[r] \in Process /\ Fits(done, Podman, run[r])
  BY DEF Typings, RunsFit
<1>3. /\ run[r].action \in CatalogActions /\ run[r].target \in 0 .. MaxPods
      /\ Runnable(Podman, run[r].action)
      /\ Typed(run[r].action, run[r].params) /\ InBounds(run[r].action, run[r].params)
      /\ run[r].seen \in DefinitionOn(Podman)
      /\ run[r].reversal # None =>
           run[r].reversal = ReversalOn(Podman, run[r].action, run[r].params, run[r].seen)
  BY <1>1, <1>2 DEF Fits
<1>4. WorldFits' /\ definition' = Result(run[r].action, run[r].params, run[r].seen)
  BY <1>1, EffectTyped DEF Typings
<1>5. definition \in DefinitionOn(Podman) /\ definition' \in DefinitionOn(Podman)
  BY <1>1, <1>4 DEF Typings, WorldFits
<1>6. {run[q].number : q \in Waiting} \in SUBSET (Nat \cup {None})
  BY DEF Waiting, Typings, RunsFit, Process
<1>7. y \in Fixes(Podman)
  BY <1>3, <1>5, <1>6 DEF Fixes
<1>8. /\ y.seen = run[r].seen /\ y.before = definition /\ y.after = definition'
      /\ y.action = run[r].action
  OBVIOUS
<1> HIDE DEF y
<1>9. done \in Seq(Fixes(Podman)) /\ n \in Nat
  BY DEF Typings
<1>10. /\ done' \in Seq(Fixes(Podman)) /\ n \in 1 .. Len(done') /\ done'[n] = y
  BY <1>1, <1>7, <1>9
<1> HIDE DEF n
<1>11. /\ x \in Process /\ x.pc = "waiting" /\ x.number = n
       /\ x.action = run[r].action /\ x.target = run[r].target
       /\ x.params = run[r].params /\ x.seen = run[r].seen
       /\ x.reversal = run[r].reversal
  BY <1>2, <1>9 DEF Process
<1> HIDE DEF x
<1>12. ASSUME run[r].reversal # None
       PROVE  /\ HasReversal(run[r].action) /\ Typed(run[r].action, run[r].reversal)
              /\ y.seen = y.before => GivesBack(Podman, y, run[r].reversal)
  <2>1. run[r].reversal = Reversal(run[r].action, run[r].params, run[r].seen)
    BY <1>3, <1>12, ReversalIsOn
  <2>2. HasReversal(run[r].action)
    BY <1>12, <2>1 DEF Reversal, HasReversal
  <2>3. Typed(run[r].action, run[r].reversal)
    BY <1>3, <1>12, <2>1, ReversalTyped
  <2>4. ASSUME y.seen = y.before PROVE GivesBack(Podman, y, run[r].reversal)
    <3>1. Supports(platform, run[r].action) /\ platform \in Platforms
      BY <1>3 DEF Runnable, Supports, Typings, WorldFits, Platforms
    <3>2. run[r].seen = definition
      BY <1>8, <2>4
    <3> QED
      BY <1>3, <1>4, <1>5, <1>8, <1>12, <2>1, <3>1, <3>2, ReversalGivesBack
  <2> QED
    BY <2>2, <2>3, <2>4
<1>13. Faithful(done', Podman, n, run[r].action, run[r].reversal)
  BY <1>3, <1>8, <1>10, <1>12 DEF Faithful
<1>14. Fits(done', Podman, x)
  BY <1>3, <1>11, <1>13 DEF Fits
<1>15. TrailGrows(done')
  BY <1>1, <1>7 DEF TrailGrows
<1>16. RunsFit'
  BY <1>1, <1>11, <1>14, <1>15, RunsStep DEF Typings
<1>17. FilesFit'
  BY <1>1, <1>15, FilesStay DEF Typings
<1> QED
  BY <1>1, <1>4, <1>10, <1>16, <1>17 DEF Typings

LEMMA SaveTyped ==
  ASSUME Typings, NEW r \in Runs, Save(r)
  PROVE  Typings'
<1>1. UNCHANGED <<platform, world, done>> /\ run[r].pc = "waiting"
  BY DEF Save
<1>2. run[r] \in Process /\ Fits(done, Podman, run[r])
  BY DEF Typings, RunsFit
<1>3. /\ run[r].action \in CatalogActions /\ run[r].target \in 0 .. MaxPods
      /\ Faithful(done, Podman, run[r].number, run[r].action, run[r].reversal)
  BY <1>1, <1>2 DEF Fits
<1>4. CASE file' = file /\ Ends(r)
  <2>1. RunsFit' /\ FilesFit'
    BY <1>1, <1>4, EndsFits, FilesStay DEF Typings, TrailGrows
  <2> QED
    BY <1>1, <2>1, WorldStays DEF Typings
<1>5. CASE /\ file' = Write(r)
           /\ run' = [run EXCEPT ![r] = [Bare("saved") EXCEPT !.target = run[r].target,
                                                             !.number = run[r].number]]
  <2> DEFINE x == [Bare("saved") EXCEPT !.target = run[r].target, !.number = run[r].number]
  <2>1. run[r].number \in Nat /\ run[r].number \in 1 .. Len(done)
    BY <1>3 DEF Faithful, Typings
  <2>2. x \in Process /\ x.pc = "saved" /\ x.number = run[r].number
        /\ x.target = run[r].target
    BY <1>3, <2>1 DEF Bare, Process
  <2> HIDE DEF x
  <2>3. Fits(done, Podman, x)
    BY <1>3, <2>1, <2>2 DEF Fits
  <2>4. run' = [run EXCEPT ![r] = x]
    BY <1>5 DEF x
  <2>5. RunsFit'
    BY <1>1, <2>2, <2>3, <2>4, RunsStep DEF Typings, TrailGrows
  <2>6. Payload(r) \in Payloads
    BY <1>2, <1>3, <2>1 DEF Payload, Payloads, Process
  <2>7. file' \in [0 .. MaxPods -> Payloads \cup {None, Torn}]
    BY <1>5, <2>6 DEF Write, Typings, FilesFit
  <2>8. /\ Payload(r).number = run[r].number /\ Payload(r).action = run[r].action
        /\ Payload(r).reversal = run[r].reversal
    BY DEF Payload
  <2>9. ASSUME NEW t \in 0 .. MaxPods, file'[t] \notin {None, Torn}
        PROVE  Faithful(done, Podman, file'[t].number, file'[t].action, file'[t].reversal)
    <3>1. file'[t] = IF t = run[r].target THEN Payload(r) ELSE file[t]
      BY <1>5 DEF Write, Typings, FilesFit
    <3> QED
      BY <1>3, <2>8, <2>9, <3>1 DEF Typings, FilesFit
  <2>10. FilesFit'
    BY <1>1, <2>7, <2>9 DEF FilesFit
  <2> QED
    BY <1>1, <2>5, <2>10, WorldStays DEF Typings
<1> QED
  BY <1>4, <1>5 DEF Save

LEMMA KillTyped ==
  ASSUME Typings, NEW r \in Runs, Kill(r)
  PROVE  Typings'
<1>1. UNCHANGED <<platform, world, done>> /\ Ends(r)
  BY DEF Kill
<1>2. FilesFit'
  <2>1. CASE file' = file
    BY <1>1, <2>1, FilesStay DEF Typings, TrailGrows
  <2>2. CASE file' = [file EXCEPT ![run[r].target] = Torn]
    <3>1. /\ file' \in [0 .. MaxPods -> Payloads \cup {None, Torn}]
          /\ \A t \in 0 .. MaxPods : file'[t] \in {file[t], Torn}
      BY <2>2 DEF Typings, FilesFit
    <3> QED
      BY <1>1, <3>1 DEF Typings, FilesFit
  <2> QED
    BY <2>1, <2>2 DEF Kill
<1>3. RunsFit'
  BY <1>1, EndsFits
<1> QED
  BY <1>1, <1>2, <1>3, WorldStays DEF Typings

LEMMA RolloutTyped == Typings /\ Rollout => Typings'
<1> SUFFICES ASSUME Typings, Rollout PROVE Typings'
  OBVIOUS
<1>1. UNCHANGED <<platform, definition, revisions, present, run, file, done>>
      /\ pod < MaxPods /\ pod' = pod + 1 /\ served' = TemplateOf(definition)
  BY DEF Rollout
<1>2. served' \in [Template -> Values]
  BY <1>1 DEF Typings, WorldFits, DefinitionOn, TemplateOf, Template
<1>3. pod' \in 0 .. MaxPods
  BY <1>1, UndoAssumption DEF Typings, WorldFits
<1>4. WorldFits'
  BY <1>1, <1>2, <1>3 DEF Typings, WorldFits
<1>5. RunsFit' /\ FilesFit'
  BY <1>1 DEF Typings, RunsFit, FilesFit
<1> QED
  BY <1>1, <1>4, <1>5 DEF Typings

LEMMA InitTyped == Init => Typings
<1> SUFFICES ASSUME Init PROVE Typings
  OBVIOUS
<1>1. definition \in DefinitionOn(Podman)
  <2>1. PICK d \in Initial : definition = IF Podman THEN Started(d) ELSE d
    BY DEF Init
  <2>2. /\ d \in [Fields -> Values] /\ d["replicas"] \in Nat
        /\ d["memory"] # 0 /\ d["cpu"] # 0
    BY UndoAssumption, ValueAssumption
  <2>3. CASE ~Podman
    BY <2>1, <2>2, <2>3 DEF DefinitionOn
  <2>4. CASE Podman
    <3>1. /\ DOMAIN definition = Fields
          /\ definition = [f \in Fields |-> definition[f]]
          /\ \A f \in Fields :
               definition[f] =
                 IF f = "env" /\ d["env"] = None /\ d["image"] \in DOMAIN ImageEnv
                   THEN ImageEnv[d["image"]] ELSE d[f]
      BY <2>1, <2>2, <2>4, StartedFields
    <3>2. \A image \in DOMAIN ImageEnv :
            ImageEnv[image] \in Values /\ ImageEnv[image] # None
      BY UndoAssumption DEF Values
    <3>3. \A f \in Fields : definition[f] \in Values
      BY <2>2, <3>1, <3>2
    <3>4. {"replicas", "memory", "cpu", "env", "image"} \subseteq Fields
      BY DEF Fields
    <3>5. /\ definition["replicas"] \in Nat
          /\ definition["memory"] # 0 /\ definition["cpu"] # 0
      BY <2>2, <3>1, <3>4
    <3>6. definition["env"] = None => definition["image"] \notin DOMAIN ImageEnv
      BY <3>1, <3>2, <3>4
    <3>7. definition \in [Fields -> Values]
      BY <3>1, <3>3
    <3> QED
      BY <3>5, <3>6, <3>7 DEF DefinitionOn
  <2> QED
    BY <2>3, <2>4
<1>2. TemplateOf(definition) \in [Template -> Values]
  BY <1>1 DEF DefinitionOn, TemplateOf, Template
<1>3. WorldFits
  BY <1>1, <1>2, UndoAssumption DEF Init, WorldFits
<1>4. RunsFit
  BY BareFits DEF Init, RunsFit
<1>5. FilesFit
  BY DEF Init, FilesFit
<1> QED
  BY <1>3, <1>4, <1>5 DEF Init, Typings

LEMMA TypingStep == Typings /\ [Next]_vars => Typings'
<1> SUFFICES ASSUME Typings, [Next]_vars PROVE Typings'
  OBVIOUS
<1>1. CASE UNCHANGED vars
  BY <1>1 DEF Typings, WorldFits, RunsFit, FilesFit, vars, world
<1>2. CASE Next
  BY <1>2, FixTyped, UndoTyped, FailTyped, ExecuteTyped, SaveTyped, KillTyped,
     RolloutTyped DEF Next, Runs
<1> QED
  BY <1>1, <1>2

------------------------------------------------------------------------------
(* The newest fix is on file. *)

\* What a step may change of the processes: one moves, and a process that
\* executes is a new fix.
LEMMA OneMoves ==
  ASSUME Typings, [Next]_vars
  PROVE  \/ UNCHANGED <<run, done, file>>
         \/ \E r \in Runs :
              /\ \A q \in Runs \ {r} : run'[q] = run[q]
              /\ \/ Execute(r)
                 \/ Save(r) /\ run'[r].pc = "saved"
                 \/ /\ done' = done /\ run'[r].pc \in {"planned", "ended"}
                    /\ run[r].pc \in {"idle", "planned", "waiting"}
                    /\ run'[r].pc = "planned" => run[r].pc = "idle"
                    /\ \A t \in 0 .. MaxPods : file'[t] \in {file[t], Torn}
<1>1. run \in [Runs -> Process] /\ file \in [0 .. MaxPods -> Payloads \cup {None, Torn}]
  BY DEF Typings, RunsFit, FilesFit
<1>2. ASSUME NEW r \in Runs, Fix(r) \/ Undo(r)
      PROVE  /\ UNCHANGED <<done, file>> /\ run[r].pc = "idle"
             /\ \/ Ends(r)
                \/ \E a, params, undoes, reversal : Planned(r, a, params, undoes, reversal)
  <2>1. CASE Fix(r)
    <3>1. PICK a, params, reversal :
            Planned(r, a, params, None, reversal) \/ Ends(r)
      BY <2>1 DEF Fix
    <3> QED
      BY <2>1, <3>1 DEF Fix
  <2>2. CASE Undo(r)
    BY <2>2 DEF Undo
  <2> QED
    BY <1>2, <2>1, <2>2
<1>3. ASSUME NEW r \in Runs, Fix(r) \/ Undo(r)
      PROVE  /\ \A q \in Runs \ {r} : run'[q] = run[q]
             /\ run'[r].pc \in {"planned", "ended"}
  <2>1. CASE Ends(r)
    BY <1>1, <2>1 DEF Ends, Bare
  <2>2. ASSUME NEW a, NEW params, NEW undoes, NEW reversal,
               Planned(r, a, params, undoes, reversal)
        PROVE  /\ \A q \in Runs \ {r} : run'[q] = run[q]
               /\ run'[r].pc \in {"planned", "ended"}
    BY <1>1, <2>2 DEF Planned
  <2> QED
    BY <1>2, <1>3, <2>1, <2>2
<1>4. ASSUME NEW r \in Runs, Ends(r)
      PROVE  (\A q \in Runs \ {r} : run'[q] = run[q]) /\ run'[r].pc = "ended"
  BY <1>1, <1>4 DEF Ends, Bare
<1>5. ASSUME NEW r \in Runs, Fail(r)
      PROVE  Ends(r) /\ UNCHANGED <<done, file>> /\ run[r].pc = "planned"
  BY <1>5 DEF Fail
<1>6. ASSUME NEW r \in Runs, Kill(r)
      PROVE  /\ Ends(r) /\ done' = done /\ run[r].pc \in {"planned", "waiting"}
             /\ \A t \in 0 .. MaxPods : file'[t] \in {file[t], Torn}
  BY <1>1, <1>6 DEF Kill
<1>7. ASSUME NEW r \in Runs, Save(r)
      PROVE  /\ \A q \in Runs \ {r} : run'[q] = run[q]
             /\ \/ run'[r].pc = "saved"
                \/ run'[r].pc = "ended" /\ UNCHANGED <<done, file>> /\ run[r].pc = "waiting"
  <2>1. CASE file' = file /\ Ends(r)
    BY <1>4, <1>7, <2>1 DEF Save
  <2>2. CASE run' = [run EXCEPT ![r] = [Bare("saved") EXCEPT
                       !.target = run[r].target, !.number = run[r].number]]
    BY <1>1, <2>2 DEF Bare
  <2> QED
    BY <1>7, <2>1, <2>2 DEF Save
<1>8. ASSUME NEW r \in Runs, Execute(r)
      PROVE  \A q \in Runs \ {r} : run'[q] = run[q]
  BY <1>1, <1>8 DEF Execute
<1>9. CASE Rollout \/ UNCHANGED vars
  BY <1>9 DEF Rollout, vars
<1>10. CASE \E r \in Runs : Fix(r) \/ Undo(r) \/ Fail(r) \/ Kill(r) \/ Execute(r) \/ Save(r)
  BY <1>2, <1>3, <1>4, <1>5, <1>6, <1>7, <1>8, <1>10
<1> QED
  BY <1>9, <1>10 DEF Next, Runs

\* An execution gives its process the next number, and the trail says which
\* processes were waiting then.
LEMMA Executed ==
  ASSUME Typings, NEW r \in Runs, Execute(r)
  PROVE  /\ run[r].pc = "planned" /\ run'[r].pc = "waiting" /\ file' = file
         /\ run'[r].number = Len(done) + 1 /\ run'[r].undoes = run[r].undoes
         /\ Len(done) \in Nat /\ Len(done') = Len(done) + 1
         /\ \A k \in 1 .. Len(done) : done'[k] = done[k]
         /\ done'[Len(done')].during = {run[q].number : q \in Waiting}
         /\ \A q \in Runs \ {r} : run'[q] = run[q]
<1>1. /\ run' = [run EXCEPT ![r].pc = "waiting", ![r].number = Len(done) + 1]
      /\ run[r].pc = "planned" /\ file' = file
  BY DEF Execute
<1>2. run \in [Runs -> Process] /\ run[r] \in Process
  BY DEF Typings, RunsFit
<1>3. PICK y : done' = Append(done, y) /\ y.during = {run[q].number : q \in Waiting}
  BY DEF Execute
<1>4. /\ Len(done) \in Nat /\ Len(done') = Len(done) + 1
      /\ \A k \in 1 .. Len(done) : done'[k] = done[k]
      /\ done'[Len(done')] = y
  BY <1>3 DEF Typings
<1>5. run'[r] = [run[r] EXCEPT !.pc = "waiting", !.number = Len(done) + 1]
      /\ \A q \in Runs \ {r} : run'[q] = run[q]
  BY <1>1, <1>2
<1>6. run'[r].pc = "waiting" /\ run'[r].number = Len(done) + 1
      /\ run'[r].undoes = run[r].undoes
  BY <1>2, <1>5 DEF Process
<1> QED
  BY <1>1, <1>3, <1>4, <1>5, <1>6

\* A process that has executed has the number of a fix.
LEMMA Numbered ==
  ASSUME Typings, NEW r \in Runs, run[r].pc \in {"waiting", "saved"}
  PROVE  run[r].number \in 1 .. Len(done) /\ Len(done) \in Nat
BY DEF Typings, RunsFit, Fits, Faithful

LEMMA WaitersStep == Typings /\ WaitersKnown /\ [Next]_vars => WaitersKnown'
<1> SUFFICES ASSUME Typings, WaitersKnown, [Next]_vars,
                    NEW q \in Runs, run'[q].pc = "waiting",
                    NEW m \in 1 .. Len(done'), run'[q].number < m
             PROVE  run'[q].number \in done'[m].during
  BY DEF WaitersKnown
<1>1. CASE UNCHANGED <<run, done, file>>
  BY <1>1 DEF WaitersKnown
<1>2. ASSUME NEW r \in Runs, Execute(r) PROVE run'[q].number \in done'[m].during
  <2>1. q # r
    BY <1>2, Executed
  <2>2. run'[q] = run[q] /\ q \in Waiting /\ run[q].pc = "waiting"
    BY <1>2, <2>1, Executed DEF Waiting
  <2>3. CASE m = Len(done')
    BY <1>2, <2>2, <2>3, Executed
  <2>4. CASE m # Len(done')
    <3>1. m \in 1 .. Len(done)
      BY <1>2, <2>4, Executed
    <3> QED
      BY <1>2, <2>2, <3>1, Executed DEF WaitersKnown
  <2> QED
    BY <2>3, <2>4
<1>3. ASSUME NEW r \in Runs, done' = done, run'[r].pc # "waiting",
             \A p \in Runs \ {r} : run'[p] = run[p]
      PROVE  run'[q].number \in done'[m].during
  <2>1. run'[q] = run[q]
    BY <1>3
  <2> QED
    BY <1>3, <2>1 DEF WaitersKnown
<1>4. ASSUME NEW r \in Runs, Save(r) PROVE done' = done
  BY <1>4 DEF Save
<1> QED
  BY <1>1, <1>2, <1>3, <1>4, OneMoves

LEMMA NewestStep ==
  Typings /\ WaitersKnown /\ NewestSavedOnFile /\ [Next]_vars => NewestSavedOnFile'
<1> SUFFICES ASSUME Typings, WaitersKnown, NewestSavedOnFile, [Next]_vars,
                    NEW q \in Runs, run'[q].pc = "saved", file'[run'[q].target] # Torn
             PROVE  LET p == file'[run'[q].target] IN
                    /\ p # None
                    /\ \/ p.number >= run'[q].number
                       \/ p.number \in done'[run'[q].number].during
  BY DEF NewestSavedOnFile
<1>1. CASE UNCHANGED <<run, done, file>>
  BY <1>1 DEF NewestSavedOnFile
<1>2. ASSUME run'[q] = run[q] PROVE run[q].target \in 0 .. MaxPods
  BY <1>2 DEF Typings, RunsFit, Fits
<1>3. ASSUME NEW r \in Runs, Execute(r)
      PROVE  LET p == file'[run'[q].target] IN
                    /\ p # None
                    /\ \/ p.number >= run'[q].number
                       \/ p.number \in done'[run'[q].number].during
  <2>1. q # r /\ run'[q] = run[q] /\ file' = file
    BY <1>3, Executed
  <2>2. run[q].number \in 1 .. Len(done)
    BY <2>1, Numbered
  <2>3. done'[run[q].number] = done[run[q].number]
    BY <1>3, <2>2, Executed
  <2> QED
    BY <2>1, <2>3 DEF NewestSavedOnFile
<1>4. ASSUME NEW r \in Runs, Save(r), run'[r].pc = "saved",
             \A p \in Runs \ {r} : run'[p] = run[p]
      PROVE  LET p == file'[run'[q].target] IN
                    /\ p # None
                    /\ \/ p.number >= run'[q].number
                       \/ p.number \in done'[run'[q].number].during
  <2>1. run[r].pc = "waiting" /\ done' = done /\ file' = Write(r)
        /\ run' = [run EXCEPT ![r] = [Bare("saved") EXCEPT !.target = run[r].target,
                                                           !.number = run[r].number]]
    <3>1. ~Ends(r)
      BY <1>4 DEF Ends, Bare, Typings, RunsFit
    <3> QED
      BY <1>4, <3>1 DEF Save
  <2>2. run \in [Runs -> Process] /\ DOMAIN file = 0 .. MaxPods
    BY DEF Typings, RunsFit, FilesFit
  <2>3. run'[r].target = run[r].target /\ run'[r].number = run[r].number
    BY <2>1, <2>2 DEF Bare
  <2>4. run[r].number \in 1 .. Len(done) /\ Len(done) \in Nat
        /\ run[r].target \in 0 .. MaxPods /\ run[r].action \in CatalogActions
    BY <2>1, Numbered DEF Typings, RunsFit, Fits
  <2>5. Payload(r) \in Payloads /\ Payload(r).number = run[r].number
    BY <2>2, <2>4 DEF Payload, Payloads, Process
  <2>6. \A t \in 0 .. MaxPods :
          file'[t] = IF t = run[r].target THEN Payload(r) ELSE file[t]
    BY <2>1, <2>2 DEF Write
  <2>7. Payload(r) # None
    BY <2>5, FileAssumption
  <2>8. CASE q = r
    <3>1. file'[run'[q].target] = Payload(r)
      BY <2>3, <2>4, <2>6, <2>8
    <3>2. run[r].number >= run[r].number
      BY <2>4
    <3> QED
      BY <2>3, <2>5, <2>7, <2>8, <3>1, <3>2
  <2>9. CASE q # r
    <3>1. run'[q] = run[q] /\ run[q].target \in 0 .. MaxPods
      BY <1>2, <1>4, <2>9
    <3>2. CASE run[q].target # run[r].target
      BY <2>1, <2>6, <3>1, <3>2 DEF NewestSavedOnFile
    <3>3. CASE run[q].target = run[r].target
      <4>1. file'[run'[q].target] = Payload(r)
        BY <2>6, <3>1, <3>3
      <4>2. run[q].number \in 1 .. Len(done)
        BY <3>1, Numbered
      <4>3. run[r].number >= run[q].number \/ run[r].number \in done[run[q].number].during
        BY <2>1, <2>4, <4>2 DEF WaitersKnown
      <4> QED
        BY <2>1, <2>5, <2>7, <3>1, <4>1, <4>3
    <3> QED
      BY <3>2, <3>3
  <2> QED
    BY <2>8, <2>9
<1>5. ASSUME NEW r \in Runs, done' = done, run'[r].pc # "saved",
             \A p \in Runs \ {r} : run'[p] = run[p],
             \A t \in 0 .. MaxPods : file'[t] \in {file[t], Torn}
      PROVE  LET p == file'[run'[q].target] IN
                    /\ p # None
                    /\ \/ p.number >= run'[q].number
                       \/ p.number \in done'[run'[q].number].during
  <2>1. run'[q] = run[q] /\ run[q].target \in 0 .. MaxPods
    BY <1>2, <1>5
  <2>2. file'[run[q].target] = file[run[q].target]
    BY <1>5, <2>1
  <2> QED
    BY <1>5, <2>1, <2>2 DEF NewestSavedOnFile
<1> QED
  BY <1>1, <1>3, <1>4, <1>5, OneMoves

LEMMA OneFixStep == Typings /\ OneFixEach /\ [Next]_vars => OneFixEach'
<1> SUFFICES ASSUME Typings, OneFixEach, [Next]_vars PROVE OneFixEach'
  OBVIOUS
<1>1. IsFiniteSet(Runs)
  BY UndoAssumption, FS_Union DEF Runs
<1>2. /\ IsFiniteSet(Past) /\ IsFiniteSet(Past')
      /\ Cardinality(Past) \in Nat /\ Cardinality(Past') \in Nat
  BY <1>1, FS_Subset, FS_CardinalityType DEF Past
<1>3. Len(done) \in Nat
  BY DEF Typings
<1>4. ASSUME NEW r \in Runs, Execute(r) PROVE OneFixEach'
  <2>1. Past' = Past \cup {r} /\ r \notin Past
    BY <1>4, Executed DEF Past
  <2>2. Cardinality(Past') = Cardinality(Past) + 1
    BY <1>2, <2>1, FS_AddElement
  <2>3. Len(done') = Len(done) + 1
    BY <1>4, Executed
  <2> QED
    BY <1>2, <1>3, <2>2, <2>3 DEF OneFixEach
<1>5. ASSUME done' = done, Past \subseteq Past' PROVE OneFixEach'
  <2>1. Cardinality(Past) <= Cardinality(Past')
    BY <1>2, <1>5, FS_Subset
  <2> QED
    BY <1>2, <1>3, <1>5, <2>1 DEF OneFixEach
<1>6. CASE UNCHANGED <<run, done, file>>
  BY <1>5, <1>6 DEF Past
<1>7. ASSUME NEW r \in Runs, done' = done, \A q \in Runs \ {r} : run'[q] = run[q],
             run'[r].pc \in {"planned", "saved", "ended"},
             run'[r].pc = "planned" => run[r].pc = "idle"
      PROVE  OneFixEach'
  <2>1. Past \subseteq Past'
    BY <1>7 DEF Past
  <2> QED
    BY <1>5, <1>7, <2>1
<1>8. ASSUME NEW r \in Runs, Save(r) PROVE done' = done
  BY <1>8 DEF Save
<1> QED
  BY <1>4, <1>6, <1>7, <1>8, OneMoves

LEMMA InvInit == Init => Inv
<1> SUFFICES ASSUME Init PROVE Inv
  OBVIOUS
<1>1. Typings
  BY InitTyped
<1>2. done = <<>> /\ \A r \in Runs : run[r].pc = "idle"
  BY DEF Init, Bare
<1>3. WaitersKnown /\ NewestSavedOnFile
  BY <1>2 DEF WaitersKnown, NewestSavedOnFile
<1>4. OneFixEach
  <2>1. Past = {} /\ Cardinality(Past) = 0 /\ Len(done) = 0
    BY <1>2, FS_EmptySet DEF Past
  <2> QED
    BY <2>1 DEF OneFixEach
<1> QED
  BY <1>1, <1>3, <1>4 DEF Inv, Typings

LEMMA InvStep == Inv /\ [Next]_vars => Inv'
<1>1. Inv <=> Typings /\ WaitersKnown /\ NewestSavedOnFile /\ OneFixEach
  BY DEF Inv, Typings
<1> SUFFICES ASSUME Inv, [Next]_vars PROVE Inv'
  OBVIOUS
<1>2. Typings' /\ WaitersKnown' /\ NewestSavedOnFile' /\ OneFixEach'
  BY <1>1, TypingStep, WaitersStep, NewestStep, OneFixStep
<1> QED
  BY <1>2 DEF Inv, Typings

LEMMA Invariance == Spec => []Inv
BY InvInit, InvStep, PTL DEF Spec

\* Every variable stays in its range, every process executes at most once, and
\* no form and no saved reversal is planned beyond the ceilings of the catalog,
\* also when the engine parses the numbers of a proposal a second time.
THEOREM TypeCorrect == Spec => []TypeOK
<1>1. Inv => TypeOK
  <2> SUFFICES ASSUME Inv PROVE TypeOK
    OBVIOUS
  <2>1. Len(done) <= Cardinality(Runs)
    <3>1. IsFiniteSet(Runs)
      BY UndoAssumption, FS_Union DEF Runs
    <3>2. Cardinality(Past) <= Cardinality(Runs) /\ Cardinality(Past) \in Nat
          /\ Cardinality(Runs) \in Nat
      BY <3>1, FS_Subset, FS_CardinalityType DEF Past
    <3> QED
      BY <3>2 DEF Inv, OneFixEach
  <2>2. ASSUME NEW r \in Runs, run[r].pc \in {"planned", "waiting"},
               run[r].action # "rollback"
        PROVE  \A f \in DOMAIN run[r].params : InRange(f, run[r].params[f])
    BY <2>2 DEF Inv, RunsFit, Fits, InBounds
  <2>3. DOMAIN file = 0 .. MaxPods
    BY DEF Inv, FilesFit
  <2>4. definition \in [Fields -> Values]
    BY DEF Inv, WorldFits, DefinitionOn
  <2> QED
    BY <2>1, <2>2, <2>3, <2>4 DEF TypeOK, Inv, WorldFits
<1> QED
  BY <1>1, Invariance, PTL

\* Once a fix was saved, the last-remediation file of its target is about it or a
\* newer one, or about one that was still waiting for its verification when it was
\* executed, or is torn by a kill, however many processes save in whatever order.
\* It says nothing of a fix whose own process was killed before it saved.
THEOREM SavedFixStaysOnFile == Spec => []NewestSavedOnFile
<1>1. Inv => NewestSavedOnFile
  BY DEF Inv
<1> QED
  BY <1>1, Invariance, PTL

------------------------------------------------------------------------------
(* Undo restores. *)

LEMMA UndoneBy ==
  ASSUME Typings, [Next]_vars, NEW r \in Runs, Undoes(r)
  PROVE  Execute(r)
<1>1. run[r].pc = "planned" /\ run'[r].pc = "waiting"
  BY DEF Undoes
<1>2. PICK p \in Runs :
        /\ \A q \in Runs \ {p} : run'[q] = run[q]
        /\ \/ Execute(p)
           \/ run'[p].pc \in {"saved", "planned", "ended"}
  BY <1>1, OneMoves
<1> QED
  BY <1>1, <1>2

LEMMA UndoStep ==
  ASSUME Typings, [Next]_vars, NEW r \in Runs, Undoes(r),
         LET fix == done[run[r].undoes.number] IN
         /\ fix.seen = fix.before
         /\ run[r].seen = fix.after /\ definition = fix.after
         /\ Restorable(fix)
  PROVE  definition' = done[run[r].undoes.number].before
<1> DEFINE fix == done[run[r].undoes.number]
           a == run[r].action
           g == run[r].params
<1>1. run[r].pc = "planned" /\ run[r].undoes # None /\ Fits(done, Podman, run[r])
  BY DEF Undoes, Typings, RunsFit
<1>2. /\ a \in CatalogActions /\ Typed(a, g) /\ Runnable(Podman, a) /\ g # None
      /\ Faithful(done, Podman, run[r].undoes.number, a, g)
  BY <1>1 DEF Fits
<1>3. /\ run[r].undoes.number \in 1 .. Len(done) /\ fix.action = a /\ HasReversal(a)
      /\ GivesBack(Podman, fix, g)
  BY <1>2 DEF Faithful
<1>4. fix \in Fixes(Podman)
  BY <1>3 DEF Typings
<1>5. fix.before \in DefinitionOn(Podman)
  BY <1>4 DEF Fixes
<1>6. definition \in DefinitionOn(Podman) /\ platform \in Platforms
  BY DEF Typings, WorldFits
<1>7. Supports(platform, a)
  BY <1>2, <1>6 DEF Runnable, Supports, Platforms
<1>8. definition' = Result(a, g, run[r].seen)
  BY UndoneBy DEF Execute, Effect
<1> HIDE DEF fix, a, g
<1>9. run[r].seen = definition /\ fix.after = definition /\ Restorable(fix)
  BY DEF fix
<1>10. Result(a, g, definition) = fix.before
  BY <1>2, <1>3, <1>5, <1>6, <1>7, <1>9, UndoGivesBack
<1> QED
  BY <1>8, <1>9, <1>10 DEF fix

\* The undo of a fix puts every field of the definition back, whatever the form
\* was, on either platform, by way of the file and its parsers, when nobody else
\* has changed the workload, a rebuild has lost nothing and the new image brought
\* nothing that the old container had not.
THEOREM UndoPutsBack == Spec => UndoRestores
<1>1. Inv /\ [Next]_vars =>
        [\A r \in Runs : Undoes(r) =>
           LET fix == done[run[r].undoes.number] IN
           /\ fix.seen = fix.before
           /\ run[r].seen = fix.after /\ definition = fix.after
           /\ Restorable(fix)
           => definition' = fix.before]_vars
  BY UndoStep DEF Inv, Typings
<1> QED
  BY <1>1, Invariance, PTL DEF Spec, UndoRestores

=============================================================================
