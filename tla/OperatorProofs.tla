--------------------------- MODULE OperatorProofs ---------------------------
(***************************************************************************)
(* Theorems about the operator, for every set of specs, policies and       *)
(* names, and any number of requests, edits, restarts and lost patches.    *)
(*                                                                         *)
(* The operator decides on objects that may be long out of date.  What     *)
(* keeps it right is the order of the stream together with what it         *)
(* remembers: of a request whose analysis it has begun no earlier event    *)
(* is acted on again, and what is still in the stream was shown before     *)
(* whatever the operator itself has written since.                         *)
(***************************************************************************)
EXTENDS Operator, FiniteSetTheorems, SequenceTheorems, TLAPS

\* What is in hand at each step of reconcile.
Holding ==
  /\ pc # "idle" => /\ cr \in Event /\ cr.uid \in DOMAIN objects
                    /\ cr.object.name = objects[cr.uid].name
  /\ pc = "consult" => EffectiveAction(cr.object) \in CatalogActions
  /\ pc = "run" => todo \in Todo
  /\ pc = "patch" => status \in Patch

\* Every event is about a request that exists, under its own name.
EventsAreAboutRequests ==
  \A i \in DOMAIN stream :
    /\ stream[i].uid \in DOMAIN objects
    /\ stream[i].object.name = objects[stream[i].uid].name

Typed == TypeOK /\ stream \in Seq(Event) /\ Holding /\ EventsAreAboutRequests

Begun(u, what) == <<objects[u].name, what>> \in processed

\* An event that shows request u in a phase has not been decoded yet.
Ahead(u, phase) ==
  \E i \in DOMAIN stream : stream[i].uid = u /\ stream[i].object.phase = phase

\* Request u shows a phase, and no event ahead shows it without one.
Answered(u) == objects[u].phase # "" /\ ~Ahead(u, "")

\* Neither request u nor an event ahead shows it waiting for an approval.
NotWaiting(u) == objects[u].phase # "AwaitingApproval" /\ ~Ahead(u, "AwaitingApproval")

\* A name is borne by one live request at a time.
OneLive ==
  \A v, w \in DOMAIN objects :
    v < w /\ objects[v].name = objects[w].name => ~objects[v].live

\* Nothing was run for a request before it was made.
UnbornUntouched == \A u \in Uids : u \notin DOMAIN objects => ran[u] = 0

\* A phase, once shown, is never taken back: not by the request, nor by a later
\* event of the stream.
PhasesAppear ==
  \A i \in DOMAIN stream : stream[i].object.phase # "" =>
    /\ objects[stream[i].uid].phase # ""
    /\ \A j \in DOMAIN stream :
         i < j /\ stream[j].uid = stream[i].uid => stream[j].object.phase # ""

\* Nobody waits for an approval of what the operator has not analyzed.
AnalyzedBeforeWaiting ==
  \A u \in DOMAIN objects : Ahead(u, "") /\ ~Begun(u, "analyze") => NotWaiting(u)

\* What reconcile works on for u: an analysis, which nothing waits for, or an
\* approval.
Analysis(u) ==
  /\ cr.object.phase = "" /\ Begun(u, "analyze")
  /\ pc # "patch" => NotWaiting(u)
  /\ pc = "run" => todo.by = "auto"

Approval(u) ==
  /\ cr.object.phase = "AwaitingApproval" /\ Begun(u, "remediate")
  /\ Answered(u)
  /\ pc \in {"run", "patch"}
  /\ pc = "run" => todo.by = "approval"
  /\ pc = "patch" => status.phase \in {"Remediated", "Failed"}

OneOfTwo == \A u \in Uids : pc # "idle" /\ cr.uid = u => Analysis(u) \/ Approval(u)

\* The operator works on an analysis of the name of u that may yet ask for an
\* approval.
MayAsk(u) ==
  /\ pc \in {"analyze", "consult"} \/ (pc = "patch" /\ status.phase = "AwaitingApproval")
  /\ cr.object.name = objects[u].name

\* Nothing that this operator can still do runs a remediation for request u.
Spent(u) ==
  /\ u \in DOMAIN objects
  /\ pc \in {"analyze", "consult", "run"} => cr.uid # u
  /\ \/ Begun(u, "remediate") /\ Answered(u)
     \/ Begun(u, "analyze") /\ NotWaiting(u) /\ ~MayAsk(u)

TouchedAreSpent == \A u \in touched : Spent(u)

\* A request with a proposal shows a phase, and while it lives nothing ahead makes
\* the operator analyze its name again.
ProposalsShow ==
  \A u \in DOMAIN objects : objects[u].proposal # None =>
    /\ objects[u].phase # ""
    /\ objects[u].live /\ ~Begun(u, "analyze") =>
         \A v \in DOMAIN objects : objects[v].name = objects[u].name => ~Ahead(v, "")

\* The operator works on an analysis, or on what came of it.
Working ==
  \/ pc \in {"analyze", "consult"}
  \/ pc = "run" /\ todo.by = "auto"
  \/ pc = "patch" /\ status.proposal # None

NobodyHasOneYet ==
  Working => /\ <<cr.object.name, "analyze">> \in processed
             /\ \A u \in DOMAIN objects :
                  objects[u].live /\ objects[u].name = cr.object.name
                    => objects[u].proposal = None

OneProposal == ProposalsShow /\ NobodyHasOneYet

\* Of a request with a name of its own, what is decoded is what it shows.
FreshIsCurrent ==
  \A u \in DOMAIN objects : Fresh(u) =>
    /\ Ahead(u, "") /\ ~Begun(u, "analyze") => objects[u].phase = ""
    /\ Ahead(u, "AwaitingApproval") /\ ~Begun(u, "remediate")
         => objects[u].phase = "AwaitingApproval"
    /\ pc # "idle" /\ cr.uid = u => objects[u].phase = cr.object.phase

History == OneLive /\ UnbornUntouched /\ PhasesAppear /\ AnalyzedBeforeWaiting

OperatorInv ==
  /\ Typed /\ History /\ OneOfTwo /\ TouchedAreSpent /\ FreshIsCurrent
  /\ OneProposal /\ AutoRunsStayBelowCeiling

------------------------------------------------------------------------------
(* Types. *)

\* A request that asks for an action asks for one of the catalog.
LEMMA EffectiveActionTyped ==
  ASSUME NEW object \in Object
  PROVE  EffectiveAction(object) \in CatalogActions \cup {None}
<1>1. object.spec.pinned \in CatalogActions \cup {None}
  BY DEF Object, Spec_
<1>2. object.proposal \in Proposal \cup {None}
  BY DEF Object
<1>3. ASSUME NEW p \in Proposal, p # [action |-> "none"] PROVE p.action \in CatalogActions
  <2>1. p = [action |-> p.action] /\ p.action \in Proposable \cup {"none"}
    BY DEF Proposal
  <2> QED
    BY <1>3, <2>1, ProposalAssumption
<1> QED
  BY <1>1, <1>2, <1>3 DEF EffectiveAction

LEMMA EventOfTyped ==
  ASSUME TypeOK, NEW u \in DOMAIN objects
  PROVE  EventOf(objects, u) \in Event
BY BoundsAssumption DEF TypeOK, EventOf, Event, Uids

\* The listing a new operator begins with shows every live request as it is.
LEMMA ListingTyped ==
  ASSUME TypeOK, NEW s \in SetToSeqs({EventOf(objects, u) : u \in LiveUids})
  PROVE  /\ s \in Seq(Event)
         /\ \A i \in DOMAIN s : \E u \in LiveUids : s[i] = EventOf(objects, u)
<1> DEFINE Listed == {EventOf(objects, u) : u \in LiveUids}
<1>1. IsFiniteSet(LiveUids)
  <2>1. Len(objects) \in Nat /\ DOMAIN objects = 1 .. Len(objects)
    BY DEF TypeOK
  <2>2. IsFiniteSet(1 .. Len(objects))
    BY <2>1, FS_Interval
  <2> QED
    BY <2>1, <2>2, FS_Subset DEF LiveUids
<1>2. IsFiniteSet(Listed)
  <2> DEFINE f == [u \in LiveUids |-> EventOf(objects, u)]
  <2>1. f \in Surjection(LiveUids, Listed)
    BY DEF Surjection
  <2> QED
    BY <1>1, <2>1, FS_Surjection
<1>3. Cardinality(Listed) \in Nat
  BY <1>2, FS_CardinalityType
<1>4. Listed \subseteq Event
  BY EventOfTyped DEF LiveUids
<1>5. s \in [1 .. Cardinality(Listed) -> Listed]
  BY DEF SetToSeqs
<1>6. s \in Seq(Event)
  <2> HIDE DEF Listed
  <2>1. \A i \in 1 .. Cardinality(Listed) : s[i] \in Event
    BY <1>4, <1>5
  <2> QED
    BY <1>3, <1>5, <2>1, SeqDef
<1>7. ASSUME NEW i \in DOMAIN s PROVE \E u \in LiveUids : s[i] = EventOf(objects, u)
  BY <1>5
<1> QED
  BY <1>6, <1>7

\* A request after one of its fields has been written.
LEMMA ObjectChanged ==
  ASSUME NEW o \in Object
  PROVE  /\ \A s \in Spec_ : /\ [o EXCEPT !.spec = s] \in Object
                             /\ [o EXCEPT !.spec = s].name = o.name
                             /\ [o EXCEPT !.spec = s].live = o.live
                             /\ [o EXCEPT !.spec = s].phase = o.phase
                             /\ [o EXCEPT !.spec = s].proposal = o.proposal
         /\ /\ [o EXCEPT !.live = FALSE] \in Object
            /\ [o EXCEPT !.live = FALSE].name = o.name
            /\ ~[o EXCEPT !.live = FALSE].live
            /\ [o EXCEPT !.live = FALSE].phase = o.phase
            /\ [o EXCEPT !.live = FALSE].proposal = o.proposal
         /\ \A p \in Patch : /\ Merge(o, p) \in Object
                             /\ Merge(o, p).name = o.name
                             /\ Merge(o, p).live = o.live
                             /\ Merge(o, p).phase = p.phase
                             /\ Merge(o, p).proposal \in {o.proposal, p.proposal}
BY DEF Object, Patch, Merge, Phases

\* The new request is the last one and like no other alive.
LEMMA CreateChanges ==
  ASSUME Typed, Create
  PROVE  LET n == Len(objects) + 1 IN
         /\ objects' \in Seq(Object) /\ Len(objects') = n /\ n \in Uids
         /\ \A v \in DOMAIN objects : objects'[v] = objects[v]
         /\ objects'[n].phase = "" /\ objects'[n].proposal = None
         /\ \A v \in LiveUids : objects[v].name # objects'[n].name
         /\ stream' = Append(stream, [uid |-> n, object |-> objects'[n]])
         /\ UNCHANGED <<policies, processed, handler, ran, touched, restarts, faults, edits>>
<1>1. PICK n \in Names \ {objects[u].name : u \in LiveUids}, s \in Specs :
        objects' = Append(objects, [name |-> n, live |-> TRUE, spec |-> s,
                                    phase |-> "", proposal |-> None])
  BY DEF Create
<1> DEFINE new == [name |-> n, live |-> TRUE, spec |-> s, phase |-> "", proposal |-> None]
<1>2. new \in Object /\ new.name = n /\ new.phase = "" /\ new.proposal = None
  BY SpecsAssumption DEF Object, Phases
<1>3. objects \in Seq(Object) /\ Len(objects) < MaxObjects /\ MaxObjects \in Nat
  BY BoundsAssumption DEF Typed, TypeOK, Create
<1> HIDE DEF new
<1>4. objects' = Append(objects, new)
  BY <1>1 DEF new
<1>5. /\ objects' \in Seq(Object) /\ Len(objects') = Len(objects) + 1
      /\ objects'[Len(objects) + 1] = new
      /\ \A v \in DOMAIN objects : objects'[v] = objects[v]
  <2>1. /\ objects \in Seq(Object) /\ DOMAIN objects = 1 .. Len(objects)
        /\ new \in Object
    BY <1>2, <1>3, LenProperties
  <2> QED
    BY <1>4, <2>1, AppendProperties
<1>6. Len(objects) + 1 \in Uids
  <2>1. Len(objects) \in Nat
    BY <1>3
  <2> QED
    BY <1>3, <2>1 DEF Uids
<1> QED
  BY <1>1, <1>2, <1>4, <1>5, <1>6 DEF Create, Notify, EventOf

\* An edit or a deletion of u leaves its name and its phase alone.
LEMMA ChangeChanges ==
  ASSUME Typed, NEW u \in LiveUids, Edit(u) \/ Delete(u)
  PROVE  /\ objects' \in Seq(Object) /\ DOMAIN objects' = DOMAIN objects
         /\ Len(objects') = Len(objects) /\ u \in DOMAIN objects
         /\ \A v \in DOMAIN objects : /\ objects'[v].name = objects[v].name
                                      /\ objects'[v].phase = objects[v].phase
                                      /\ objects'[v].proposal = objects[v].proposal
                                      /\ objects'[v].live => objects[v].live
         /\ stream' = Append(stream, [uid |-> u, object |-> objects'[u]])
         /\ edits' \in 0 .. MaxEdits
         /\ UNCHANGED <<policies, processed, handler, ran, touched, restarts, faults>>
<1>1. /\ objects \in Seq(Object) /\ u \in DOMAIN objects /\ objects[u] \in Object
      /\ MaxEdits \in Nat /\ edits \in 0 .. MaxEdits
  BY BoundsAssumption DEF Typed, TypeOK, LiveUids
<1>2. CASE Edit(u)
  <2>1. PICK s \in Specs : objects' = [objects EXCEPT ![u].spec = s]
    BY <1>2 DEF Edit
  <2> DEFINE o == [objects[u] EXCEPT !.spec = s]
  <2>2. /\ o \in Object /\ o.name = objects[u].name /\ o.phase = objects[u].phase
        /\ o.live = objects[u].live /\ o.proposal = objects[u].proposal
    BY <1>1, ObjectChanged, SpecsAssumption
  <2>3. objects' = [objects EXCEPT ![u] = o]
    BY <2>1
  <2> HIDE DEF o
  <2>4. /\ objects' \in Seq(Object) /\ DOMAIN objects' = DOMAIN objects
        /\ Len(objects') = Len(objects)
        /\ \A v \in DOMAIN objects : objects'[v] = IF v = u THEN o ELSE objects[v]
    BY <1>1, <2>2, <2>3
  <2> QED
    BY <1>1, <1>2, <2>2, <2>4 DEF Edit, Notify, EventOf
<1>3. CASE Delete(u)
  <2> DEFINE o == [objects[u] EXCEPT !.live = FALSE]
  <2>1. /\ o \in Object /\ o.name = objects[u].name /\ o.phase = objects[u].phase /\ ~o.live
        /\ o.proposal = objects[u].proposal
    BY <1>1, ObjectChanged
  <2>2. objects' = [objects EXCEPT ![u] = o]
    BY <1>3 DEF Delete
  <2> HIDE DEF o
  <2>3. /\ objects' \in Seq(Object) /\ DOMAIN objects' = DOMAIN objects
        /\ Len(objects') = Len(objects)
        /\ \A v \in DOMAIN objects : objects'[v] = IF v = u THEN o ELSE objects[v]
    BY <1>1, <2>1, <2>2
  <2> QED
    BY <1>1, <1>3, <2>1, <2>3 DEF Delete, Notify, EventOf
<1> QED
  BY <1>2, <1>3

\* The request that carries the name shows the phase of the patch.
LEMMA PatchChanges ==
  ASSUME Typed, PatchLands
  PROVE  \E u \in LiveUids :
         /\ objects[u].name = cr.object.name
         /\ objects' \in Seq(Object) /\ DOMAIN objects' = DOMAIN objects
         /\ Len(objects') = Len(objects) /\ u \in DOMAIN objects
         /\ \A v \in DOMAIN objects : /\ objects'[v].name = objects[v].name
                                      /\ objects'[v].live = objects[v].live
                                      /\ v # u => objects'[v] = objects[v]
         /\ objects'[u].phase = status.phase /\ status.phase \in Phases \ {""}
         /\ objects'[u].proposal \in {objects[u].proposal, status.proposal}
         /\ stream' = Append(stream, [uid |-> u, object |-> objects'[u]])
<1>1. PICK u \in LiveUids : /\ objects[u].name = cr.object.name
                            /\ objects' = [objects EXCEPT ![u] = Merge(@, status)]
                            /\ Notify(u)
  BY DEF PatchLands
<1>2. /\ objects \in Seq(Object) /\ u \in DOMAIN objects /\ objects[u] \in Object
      /\ status \in Patch
  BY DEF Typed, TypeOK, Holding, PatchLands, LiveUids
<1> DEFINE o == Merge(objects[u], status)
<1>3. /\ o \in Object /\ o.name = objects[u].name /\ o.phase = status.phase
      /\ o.live = objects[u].live /\ o.proposal \in {objects[u].proposal, status.proposal}
  BY <1>2, ObjectChanged
<1>4. objects' = [objects EXCEPT ![u] = o]
  BY <1>1
<1>5. status.phase \in Phases \ {""}
  BY <1>2 DEF Patch
<1> HIDE DEF o
<1>6. /\ objects' \in Seq(Object) /\ DOMAIN objects' = DOMAIN objects
      /\ Len(objects') = Len(objects)
      /\ \A v \in DOMAIN objects : objects'[v] = IF v = u THEN o ELSE objects[v]
  BY <1>2, <1>3, <1>4
<1> QED
  BY <1>1, <1>2, <1>3, <1>5, <1>6 DEF Notify, EventOf

\* What an event more in the stream means.
LEMMA Notified ==
  ASSUME stream \in Seq(Event), NEW u, NEW o,
         stream' = Append(stream, [uid |-> u, object |-> o])
  PROVE  /\ Len(stream') = Len(stream) + 1 /\ Len(stream) \in Nat
         /\ DOMAIN stream = 1 .. Len(stream) /\ DOMAIN stream' = 1 .. Len(stream')
         /\ \A i \in DOMAIN stream : i \in DOMAIN stream' /\ stream'[i] = stream[i]
         /\ \A i \in DOMAIN stream' : i \in DOMAIN stream \/ i = Len(stream')
         /\ \A i \in DOMAIN stream' : ~(Len(stream') < i)
         /\ stream'[Len(stream')] = [uid |-> u, object |-> o]
<1>1. /\ Len(stream') = Len(stream) + 1 /\ Len(stream) \in Nat
      /\ DOMAIN stream = 1 .. Len(stream) /\ DOMAIN stream' = 1 .. Len(stream')
      /\ \A i \in DOMAIN stream : i \in DOMAIN stream' /\ stream'[i] = stream[i]
      /\ stream'[Len(stream')] = [uid |-> u, object |-> o]
  OBVIOUS
<1>2. \A i \in 1 .. Len(stream) + 1 : i \in 1 .. Len(stream) \/ i = Len(stream) + 1
  BY <1>1
<1>3. \A i \in 1 .. Len(stream) + 1 : ~(Len(stream) + 1 < i)
  BY <1>1
<1> QED
  BY <1>1, <1>2, <1>3

\* A change of the requests, and the event of it, keep the types.
LEMMA ChangeTyped ==
  ASSUME Typed, objects' \in Seq(Object), Len(objects') <= MaxObjects,
         DOMAIN objects \subseteq DOMAIN objects', NEW u \in DOMAIN objects',
         \A v \in DOMAIN objects : objects'[v].name = objects[v].name,
         stream' = Append(stream, [uid |-> u, object |-> objects'[u]])
  PROVE  /\ stream' \in Seq(Event) /\ EventsAreAboutRequests'
         /\ UNCHANGED handler => Holding'
<1>1. [uid |-> u, object |-> objects'[u]] \in Event
  BY BoundsAssumption DEF Event, Uids
<1>2. stream \in Seq(Event)
  BY DEF Typed
<1>3. stream' \in Seq(Event)
  BY <1>1, <1>2
<1>4. EventsAreAboutRequests'
  <2> SUFFICES ASSUME NEW i \in DOMAIN stream'
               PROVE  /\ stream'[i].uid \in DOMAIN objects'
                      /\ stream'[i].object.name = objects'[stream'[i].uid].name
    BY DEF EventsAreAboutRequests
  <2>1. CASE i \in DOMAIN stream
    <3>1. stream'[i] = stream[i]
      BY <1>2, <2>1, Notified
    <3>2. /\ stream[i].uid \in DOMAIN objects
          /\ stream[i].object.name = objects[stream[i].uid].name
      BY <2>1 DEF Typed, EventsAreAboutRequests
    <3> QED
      BY <3>1, <3>2
  <2>2. CASE i \notin DOMAIN stream
    <3>1. i = Len(stream')
      BY <1>2, <2>2, Notified
    <3>2. stream'[i] = [uid |-> u, object |-> objects'[u]]
      BY <1>2, <3>1, Notified
    <3> QED
      BY <3>2
  <2> QED
    BY <2>1, <2>2
<1>5. UNCHANGED handler => Holding'
  BY DEF Typed, Holding, handler
<1> QED
  BY <1>3, <1>4, <1>5

\* What users and admins do: the operator's own variables stay.
LEMMA UsersTyped == Typed /\ Users => Typed'
<1> SUFFICES ASSUME Typed, Users PROVE Typed'
  OBVIOUS
<1>1. CASE ChangePolicies
  BY <1>1, BoundsAssumption
  DEF ChangePolicies, Typed, TypeOK, Holding, EventsAreAboutRequests, handler
<1>2. CASE Create
  <2> DEFINE n == Len(objects) + 1
  <2>1. /\ objects' \in Seq(Object) /\ Len(objects') = n /\ n \in Uids
        /\ \A v \in DOMAIN objects : objects'[v] = objects[v]
        /\ stream' = Append(stream, [uid |-> n, object |-> objects'[n]])
        /\ UNCHANGED <<policies, processed, handler, ran, touched, restarts, faults, edits>>
    BY <1>2, CreateChanges
  <2>2. objects \in Seq(Object)
    BY DEF Typed, TypeOK
  <2>3. /\ Len(objects') <= MaxObjects /\ n \in DOMAIN objects'
        /\ DOMAIN objects \subseteq DOMAIN objects'
    BY <2>1, <2>2, BoundsAssumption DEF Uids
  <2>4. stream' \in Seq(Event) /\ EventsAreAboutRequests' /\ Holding'
    BY <2>1, <2>3, ChangeTyped
  <2>5. \A i \in DOMAIN stream' : stream'[i] \in Event
    BY <2>4
  <2> QED
    BY <2>1, <2>3, <2>4, <2>5 DEF Typed, TypeOK, handler
<1>3. CASE \E u \in LiveUids : Edit(u) \/ Delete(u)
  <2>1. PICK u \in LiveUids : Edit(u) \/ Delete(u)
    BY <1>3
  <2>2. /\ objects' \in Seq(Object) /\ DOMAIN objects' = DOMAIN objects
        /\ Len(objects') = Len(objects) /\ u \in DOMAIN objects
        /\ \A v \in DOMAIN objects : objects'[v].name = objects[v].name
        /\ stream' = Append(stream, [uid |-> u, object |-> objects'[u]])
        /\ edits' \in 0 .. MaxEdits
        /\ UNCHANGED <<policies, processed, handler, ran, touched, restarts, faults>>
    BY <2>1, ChangeChanges
  <2>3. Len(objects') <= MaxObjects
    BY <2>2 DEF Typed, TypeOK
  <2>4. stream' \in Seq(Event) /\ EventsAreAboutRequests' /\ Holding'
    BY <2>2, <2>3, ChangeTyped
  <2>5. \A i \in DOMAIN stream' : stream'[i] \in Event
    BY <2>4
  <2> QED
    BY <2>2, <2>3, <2>4, <2>5 DEF Typed, TypeOK, handler
<1> QED
  BY <1>1, <1>2, <1>3 DEF Users

\* An event taken off the stream, and what is left of it.
LEMMA DecodeTyped ==
  ASSUME Typed, Decode
  PROVE  /\ Head(stream) \in Event /\ Head(stream).uid \in DOMAIN objects
         /\ Head(stream).object.name = objects[Head(stream).uid].name
         /\ stream' \in Seq(Event)
         /\ Head(stream) = stream[1] /\ 1 \in DOMAIN stream
         /\ Len(stream) \in Nat \ {0} /\ DOMAIN stream' = 1 .. Len(stream) - 1
         /\ \A i \in DOMAIN stream' : /\ i + 1 \in DOMAIN stream /\ 1 < i + 1
                                      /\ stream'[i] = stream[i + 1]
<1>1. stream \in Seq(Event) /\ stream # <<>> /\ stream' = Tail(stream)
  BY DEF Decode, Typed
<1>2. Head(stream) = stream[1] /\ 1 \in DOMAIN stream
  BY <1>1
<1> QED
  BY <1>1, <1>2 DEF Typed, EventsAreAboutRequests

\* A patch about to be sent, and an action about to run.
LEMMA SendTyped ==
  ASSUME NEW phase \in Phases \ {""}, NEW q \in Proposal \cup {None}, Send(phase, q)
  PROVE  pc' = "patch" /\ todo' = None /\ status' \in Patch /\ status'.phase = phase
BY DEF Send, Patch

LEMMA StartTyped ==
  ASSUME NEW action \in CatalogActions, NEW by \in {"approval", "auto"},
         NEW decision \in Decisions \cup {"none", "unread"}, NEW labels \in NamespaceLabels,
         Start(action, by, decision, labels)
  PROVE  /\ pc' = "run" /\ todo' \in Todo /\ todo'.action = action /\ todo'.by = by
         /\ todo'.decision = decision /\ todo'.labels = labels
BY DEF Start, Todo

\* Decoding an event, and beginning to work on it or not.
LEMMA BeginsTyped == Typed /\ (Ignore \/ BeginAnalysis \/ BeginApproved) => Typed'
<1> SUFFICES ASSUME Typed, Ignore \/ BeginAnalysis \/ BeginApproved PROVE Typed'
  OBVIOUS
<1>1. Decode
  BY DEF Ignore, BeginAnalysis, BeginApproved
<1> DEFINE e == Head(stream)
<1>2. /\ e \in Event /\ e.uid \in DOMAIN objects /\ e.object.name = objects[e.uid].name
      /\ stream' \in Seq(Event)
      /\ \A i \in DOMAIN stream' : i + 1 \in DOMAIN stream /\ stream'[i] = stream[i + 1]
  BY <1>1, DecodeTyped
<1>3. UNCHANGED <<objects, policies, ran, touched, restarts, faults, edits>>
  BY DEF Ignore, BeginAnalysis, BeginApproved
<1>4. EventsAreAboutRequests'
  BY <1>2, <1>3 DEF Typed, EventsAreAboutRequests
<1>5. e.object.name \in Names /\ e.object \in Object
  BY <1>2 DEF Event, Object
<1>6. /\ processed' \subseteq Names \X {"analyze", "remediate"}
      /\ pc' \in {"idle", "analyze", "run", "patch"}
      /\ cr' \in Event \cup {None} /\ (pc' # "idle" => cr' = e)
      /\ todo' \in Todo \cup {None} /\ (pc' = "run" => todo' \in Todo)
      /\ status' \in Patch \cup {None} /\ (pc' = "patch" => status' \in Patch)
  <2>1. CASE Ignore
    BY <1>1, <2>1 DEF Ignore, handler, Decode, Typed, TypeOK
  <2>2. CASE BeginAnalysis
    BY <1>2, <1>5, <2>2 DEF BeginAnalysis, Typed, TypeOK
  <2>3. CASE BeginApproved
    <3> DEFINE action == EffectiveAction(e.object)
    <3>1. cr' = e /\ processed' = processed \cup {<<e.object.name, "remediate">>}
      BY <2>3 DEF BeginApproved
    <3>2. action \in CatalogActions \cup {None}
      BY <1>5, EffectiveActionTyped
    <3>3. \/ action = None /\ Send("Failed", None)
          \/ action # None /\ Start(action, "approval", "unread", {}) /\ UNCHANGED status
      BY <2>3, <3>1 DEF BeginApproved
    <3>4. processed' \subseteq Names \X {"analyze", "remediate"}
      BY <1>5, <3>1 DEF Typed, TypeOK
    <3> HIDE DEF action, e
    <3>5. CASE action = None
      <4>1. pc' = "patch" /\ status' \in Patch /\ todo' = None
        BY <3>3, <3>5, SendTyped DEF Phases
      <4> QED
        BY <1>2, <3>1, <3>4, <4>1
    <3>6. CASE action # None
      <4>1. pc' = "run" /\ todo' \in Todo /\ status' = status
        BY <3>2, <3>3, <3>6, StartTyped DEF NamespaceLabels
      <4> QED
        BY <1>2, <3>1, <3>4, <4>1 DEF Typed, TypeOK
    <3> QED
      BY <3>5, <3>6
  <2> QED
    BY <2>1, <2>2, <2>3
<1>7. \A i \in DOMAIN stream' : stream'[i] \in Event
  BY <1>2
<1> HIDE DEF e
<1> QED
  BY <1>2, <1>3, <1>4, <1>6, <1>7 DEF Typed, TypeOK, Holding

\* The answer of an analysis, and what the operator decides on it.
LEMMA AnalysisTyped == Typed /\ (AnalysisFails \/ Analyzed \/ Consult) => Typed'
<1> SUFFICES ASSUME Typed, AnalysisFails \/ Analyzed \/ Consult PROVE Typed'
  OBVIOUS
<1>1. /\ UNCHANGED <<objects, policies, stream, processed, ran, touched, restarts, faults, edits>>
      /\ pc # "idle" /\ cr \in Event /\ cr.uid \in DOMAIN objects
      /\ cr.object.name = objects[cr.uid].name
  BY DEF AnalysisFails, Analyzed, Consult, Typed, Holding
<1>2. /\ cr' \in Event /\ cr'.uid = cr.uid /\ cr'.object.name = cr.object.name
      /\ pc' \in {"consult", "run", "patch"}
      /\ pc' = "consult" => EffectiveAction(cr'.object) \in CatalogActions
      /\ todo' \in Todo \cup {None} /\ (pc' = "run" => todo' \in Todo)
      /\ status' \in Patch \cup {None} /\ (pc' = "patch" => status' \in Patch)
  <2>1. CASE AnalysisFails
    <3>1. pc' = "patch" /\ todo' = None /\ status' \in Patch
      BY <2>1, SendTyped DEF AnalysisFails, Phases
    <3> QED
      BY <1>1, <2>1, <3>1 DEF AnalysisFails
  <2>2. CASE Analyzed
    <3>1. PICK p \in Proposal \cup {None} :
            LET object == [cr.object EXCEPT !.proposal = p]
                action == EffectiveAction(object)
            IN  /\ cr' = [cr EXCEPT !.object = object]
                /\ \/ \E phase \in {"Complete", "AwaitingApproval"} : Send(phase, p)
                   \/ action # None /\ pc' = "consult" /\ UNCHANGED <<todo, status>>
      BY <2>2 DEF Analyzed
    <3> DEFINE object == [cr.object EXCEPT !.proposal = p]
    <3>2. object \in Object /\ object.name = cr.object.name
      BY <1>1 DEF Event, Object
    <3> HIDE DEF object
    <3>3. cr' = [cr EXCEPT !.object = object]
      BY <3>1 DEF object
    <3>4. cr' \in Event /\ cr'.uid = cr.uid /\ cr'.object = object
      BY <1>1, <3>2, <3>3 DEF Event
    <3>5. CASE \E phase \in {"Complete", "AwaitingApproval"} : Send(phase, p)
      <4>1. pc' = "patch" /\ todo' = None /\ status' \in Patch
        BY <3>5, SendTyped DEF Phases
      <4> QED
        BY <3>2, <3>4, <4>1
    <3>6. CASE /\ EffectiveAction(object) # None /\ pc' = "consult"
               /\ UNCHANGED <<todo, status>>
      <4>1. EffectiveAction(cr'.object) \in CatalogActions
        BY <3>2, <3>4, <3>6, EffectiveActionTyped
      <4> QED
        BY <3>2, <3>4, <3>6, <4>1 DEF Typed, TypeOK
    <3> QED
      BY <3>1, <3>5, <3>6 DEF object
  <2>3. CASE Consult
    <3> DEFINE action == EffectiveAction(cr.object)
    <3>1. action \in CatalogActions /\ cr' = cr
      BY <2>3 DEF Consult, Typed, Holding
    <3>2. PICK labels \in NamespaceLabels :
            \E decision \in {"unread", Overlay(cr.object.spec, action, labels)} :
              \/ Send("AwaitingApproval", cr.object.proposal)
              \/ Start(action, "auto", decision, labels) /\ UNCHANGED status
      BY <2>3 DEF Consult
    <3>3. PICK decision \in Decisions \cup {"none", "unread"} :
            \/ Send("AwaitingApproval", cr.object.proposal)
            \/ Start(action, "auto", decision, labels) /\ UNCHANGED status
      BY <3>2 DEF Overlay, EvaluatePolicies, Decisions
    <3>4. cr.object.proposal \in Proposal \cup {None}
      BY <1>1 DEF Event, Object
    <3> HIDE DEF action
    <3>5. CASE Send("AwaitingApproval", cr.object.proposal)
      <4>1. pc' = "patch" /\ todo' = None /\ status' \in Patch
        BY <3>4, <3>5, SendTyped DEF Phases
      <4> QED
        BY <1>1, <3>1, <4>1
    <3>6. CASE Start(action, "auto", decision, labels) /\ UNCHANGED status
      <4>1. pc' = "run" /\ todo' \in Todo
        BY <3>1, <3>6, StartTyped
      <4> QED
        BY <1>1, <3>1, <3>6, <4>1 DEF Typed, TypeOK
    <3> QED
      BY <3>3, <3>5, <3>6
  <2> QED
    BY <2>1, <2>2, <2>3
<1>3. pc' \in {"idle", "analyze", "consult", "run", "patch"} /\ cr' \in Event \cup {None}
  BY <1>2
<1> QED
  BY <1>1, <1>2, <1>3 DEF Typed, TypeOK, Holding, EventsAreAboutRequests

\* A remediation run for request u.
LEMMA RanTyped ==
  ASSUME ran \in [Uids -> Nat], NEW u \in Uids, ran' \in {ran, [ran EXCEPT ![u] = @ + 1]}
  PROVE  /\ ran' \in [Uids -> Nat]
         /\ \A v \in Uids : ran'[v] = ran[v] \/ (v = u /\ ran'[v] = ran[v] + 1)
OBVIOUS

\* The end of a run, whether it did anything or not, touches only its request.
LEMMA Touches ==
  ASSUME RunSucceeds \/ RunFails
  PROVE  /\ ran' \in {ran, [ran EXCEPT ![cr.uid] = @ + 1]}
         /\ touched \subseteq touched' /\ touched' \subseteq touched \cup {cr.uid}
BY DEF RunSucceeds, RunFails, Touch

\* The end of a remediation.
LEMMA RunTyped == Typed /\ (RunSucceeds \/ RunFails) => Typed'
<1> SUFFICES ASSUME Typed, RunSucceeds \/ RunFails PROVE Typed'
  OBVIOUS
<1>1. /\ UNCHANGED <<objects, policies, stream, processed, cr, restarts, faults, edits>>
      /\ cr \in Event /\ cr.uid \in DOMAIN objects
      /\ cr.object.name = objects[cr.uid].name
  BY DEF RunSucceeds, RunFails, Typed, Holding
<1>2. ran' \in [Uids -> Nat] /\ touched' \subseteq Uids
  <2>1. ran \in [Uids -> Nat] /\ cr.uid \in Uids /\ touched \subseteq Uids
    BY <1>1 DEF Typed, TypeOK, Event
  <2> QED
    BY <2>1, RanTyped, Touches
<1>3. pc' = "patch" /\ todo' = None /\ status' \in Patch
  <2>1. Carried \in Proposal \cup {None}
    BY <1>1 DEF Carried, Event, Object
  <2>2. \E phase \in {"Remediated", "Failed"} : Send(phase, Carried)
    BY DEF RunSucceeds, RunFails
  <2> QED
    BY <2>1, <2>2, SendTyped DEF Phases
<1> QED
  BY <1>1, <1>2, <1>3 DEF Typed, TypeOK, Holding, EventsAreAboutRequests

\* A patch that lands, or not.
LEMMA PatchTyped == Typed /\ (PatchLands \/ PatchFails) => Typed'
<1> SUFFICES ASSUME Typed, PatchLands \/ PatchFails PROVE Typed'
  OBVIOUS
<1>1. pc' = "idle" /\ cr' = None /\ todo' = None /\ status' = None
  BY DEF PatchLands, PatchFails, Done
<1>2. CASE PatchLands
  <2>1. PICK u \in LiveUids :
          /\ objects' \in Seq(Object) /\ DOMAIN objects' = DOMAIN objects
          /\ Len(objects') = Len(objects) /\ u \in DOMAIN objects
          /\ \A v \in DOMAIN objects : objects'[v].name = objects[v].name
          /\ stream' = Append(stream, [uid |-> u, object |-> objects'[u]])
    BY <1>2, PatchChanges
  <2>2. Len(objects') <= MaxObjects
    BY <2>1 DEF Typed, TypeOK
  <2>3. stream' \in Seq(Event) /\ EventsAreAboutRequests'
    BY <2>1, <2>2, ChangeTyped
  <2>4. \A i \in DOMAIN stream' : stream'[i] \in Event
    BY <2>3
  <2>5. UNCHANGED <<policies, processed, ran, touched, restarts, faults, edits>>
    BY <1>2 DEF PatchLands
  <2> QED
    BY <1>1, <2>1, <2>2, <2>3, <2>4, <2>5 DEF Typed, TypeOK, Holding
<1>3. CASE PatchFails
  <2>1. UNCHANGED <<objects, policies, stream, processed, ran, touched, restarts, edits>>
    BY <1>3 DEF PatchFails
  <2>2. faults' \in 0 .. MaxFaults
    BY <1>3, BoundsAssumption DEF PatchFails, Typed, TypeOK
  <2> QED
    BY <1>1, <2>1, <2>2 DEF Typed, TypeOK, Holding, EventsAreAboutRequests
<1> QED
  BY <1>2, <1>3

\* A new operator.
LEMMA RestartTyped == Typed /\ Restart => Typed'
<1> SUFFICES ASSUME Typed, Restart PROVE Typed'
  OBVIOUS
<1>1. /\ UNCHANGED <<objects, policies, faults, edits>>
      /\ pc' = "idle" /\ cr' = None /\ todo' = None /\ status' = None
      /\ processed' = {} /\ touched' = {}
  BY DEF Restart
<1>2. /\ stream' \in Seq(Event)
      /\ \A i \in DOMAIN stream' : \E u \in LiveUids : stream'[i] = EventOf(objects, u)
  BY ListingTyped DEF Typed, Restart
<1>3. \A i \in DOMAIN stream' : stream'[i] \in Event
  BY <1>2
<1>4. EventsAreAboutRequests'
  BY <1>1, <1>2 DEF EventsAreAboutRequests, EventOf, LiveUids
<1>5. ran' \in [Uids -> Nat]
  <2>1. ran \in [Uids -> Nat] /\ (pc = "run" => cr.uid \in Uids)
    BY DEF Typed, TypeOK, Holding, Event
  <2> QED
    BY <2>1, RanTyped DEF Restart
<1>6. restarts' \in 0 .. MaxRestarts
  BY BoundsAssumption DEF Restart, Typed, TypeOK
<1> QED
  BY <1>1, <1>2, <1>3, <1>4, <1>5, <1>6 DEF Typed, TypeOK, Holding

LEMMA InitTyped == Init => Typed
BY BoundsAssumption DEF Init, Typed, TypeOK, Holding, EventsAreAboutRequests

LEMMA NextTyped == Typed /\ [Next]_vars => Typed'
<1>1. Typed /\ UNCHANGED vars => Typed'
  BY DEF Typed, TypeOK, Holding, EventsAreAboutRequests, vars, handler
<1> QED
  BY <1>1, UsersTyped, BeginsTyped, AnalysisTyped, RunTyped, PatchTyped, RestartTyped
  DEF Next, OperatorStep

LEMMA AlwaysTyped == Spec => []Typed
BY InitTyped, NextTyped, PTL DEF Spec

\* Every variable keeps its type, however users, the API server and restarts
\* interleave with reconcile.
THEOREM TypeCorrect == Spec => []TypeOK
<1>1. Typed => TypeOK
  BY DEF Typed
<1> QED
  BY <1>1, AlwaysTyped, PTL

------------------------------------------------------------------------------
(* The events ahead. *)

LEMMA AheadNotified ==
  ASSUME stream \in Seq(Event), NEW u, NEW o,
         stream' = Append(stream, [uid |-> u, object |-> o])
  PROVE  \A v, p : Ahead(v, p)' <=> Ahead(v, p) \/ (v = u /\ p = o.phase)
<1>1. /\ Len(stream') = Len(stream) + 1 /\ Len(stream) \in Nat
      /\ DOMAIN stream = 1 .. Len(stream) /\ DOMAIN stream' = 1 .. Len(stream')
      /\ \A i \in DOMAIN stream : i \in DOMAIN stream' /\ stream'[i] = stream[i]
      /\ stream'[Len(stream')] = [uid |-> u, object |-> o]
  BY Notified
<1> TAKE v, p
<1>2. ASSUME Ahead(v, p) PROVE Ahead(v, p)'
  BY <1>1, <1>2 DEF Ahead
<1>3. ASSUME v = u, p = o.phase PROVE Ahead(v, p)'
  BY <1>1, <1>3 DEF Ahead
<1>4. ASSUME Ahead(v, p)' PROVE Ahead(v, p) \/ (v = u /\ p = o.phase)
  <2>1. PICK i \in DOMAIN stream' : stream'[i].uid = v /\ stream'[i].object.phase = p
    BY <1>4 DEF Ahead
  <2>2. i \in DOMAIN stream \/ i = Len(stream')
    BY <1>1
  <2> QED
    BY <1>1, <2>1, <2>2 DEF Ahead
<1> QED
  BY <1>2, <1>3, <1>4

LEMMA AheadDecoded ==
  ASSUME Typed, Decode
  PROVE  \A v, p : Ahead(v, p) <=> \/ Ahead(v, p)'
                                  \/ /\ Head(stream).uid = v
                                     /\ Head(stream).object.phase = p
<1>1. /\ stream \in Seq(Event) /\ stream # <<>> /\ stream' = Tail(stream)
      /\ Head(stream) = stream[1] /\ 1 \in DOMAIN stream
  BY DEF Decode, Typed
<1>2. /\ Len(stream) \in Nat \ {0} /\ DOMAIN stream' = 1 .. Len(stream) - 1
      /\ DOMAIN stream = 1 .. Len(stream)
      /\ \A i \in DOMAIN stream' : i + 1 \in DOMAIN stream /\ stream'[i] = stream[i + 1]
  BY <1>1, DecodeTyped
<1> TAKE v, p
<1>3. ASSUME Ahead(v, p)' PROVE Ahead(v, p)
  BY <1>2, <1>3 DEF Ahead
<1>4. ASSUME Head(stream).uid = v, Head(stream).object.phase = p PROVE Ahead(v, p)
  BY <1>1, <1>4 DEF Ahead
<1>5. ASSUME Ahead(v, p), ~(Head(stream).uid = v /\ Head(stream).object.phase = p)
      PROVE  Ahead(v, p)'
  <2>1. PICK i \in DOMAIN stream : stream[i].uid = v /\ stream[i].object.phase = p
    BY <1>5 DEF Ahead
  <2>2. i # 1
    BY <1>1, <1>5, <2>1
  <2>3. i - 1 \in DOMAIN stream' /\ stream'[i - 1] = stream[(i - 1) + 1] /\ (i - 1) + 1 = i
    BY <1>2, <2>2
  <2> QED
    BY <2>1, <2>3 DEF Ahead
<1> QED
  BY <1>3, <1>4, <1>5

LEMMA AheadListed ==
  ASSUME Typed, Restart
  PROVE  \A v, p : Ahead(v, p)' =>
           v \in DOMAIN objects /\ objects[v].phase = p /\ objects[v].live
<1>1. \A i \in DOMAIN stream' : \E u \in LiveUids : stream'[i] = EventOf(objects, u)
  BY ListingTyped DEF Typed, Restart
<1> QED
  BY <1>1 DEF Ahead, EventOf, LiveUids

LEMMA AheadStays ==
  ASSUME UNCHANGED stream
  PROVE  \A v, p : Ahead(v, p)' <=> Ahead(v, p)
BY DEF Ahead

LEMMA AheadExists == ASSUME Typed PROVE \A v, p : Ahead(v, p) => v \in DOMAIN objects
BY DEF Typed, EventsAreAboutRequests, Ahead

\* No event without a phase is ahead of one with a phase.
LEMMA AheadInOrder ==
  ASSUME Typed, PhasesAppear
  PROVE  \A v, p : Ahead(v, p) /\ p # "" => objects[v].phase # ""
BY DEF PhasesAppear, Ahead

LEMMA DecodedInOrder ==
  ASSUME Typed, PhasesAppear, Decode, Head(stream).object.phase # "",
         NEW u, Head(stream).uid = u
  PROVE  ~Ahead(u, "")' /\ objects[u].phase # ""
<1>1. /\ Head(stream) = stream[1] /\ 1 \in DOMAIN stream
      /\ \A i \in DOMAIN stream' : /\ i + 1 \in DOMAIN stream /\ 1 < i + 1
                                   /\ stream'[i] = stream[i + 1]
  BY DecodeTyped
<1>2. /\ objects[u].phase # ""
      /\ \A j \in DOMAIN stream : 1 < j /\ stream[j].uid = u => stream[j].object.phase # ""
  BY <1>1 DEF PhasesAppear
<1>3. ASSUME NEW i \in DOMAIN stream', stream'[i].uid = u PROVE stream'[i].object.phase # ""
  BY <1>1, <1>2, <1>3
<1> QED
  BY <1>2, <1>3 DEF Ahead

------------------------------------------------------------------------------
(* What a step does to the requests, and to what the operator holds. *)

\* Request u is made or written, and an event of it put in the stream.
Emits(u) ==
  /\ u \in DOMAIN objects' /\ DOMAIN objects' = DOMAIN objects \cup {u}
  /\ \A v \in DOMAIN objects : /\ objects'[v].name = objects[v].name
                               /\ objects'[v].live => objects[v].live
                               /\ v # u => objects'[v].phase = objects[v].phase
  /\ stream' = Append(stream, [uid |-> u, object |-> objects'[u]])

\* Users make and write requests without touching their phase.
LEMMA UsersEmit ==
  ASSUME Typed, Users
  PROVE  /\ UNCHANGED <<processed, handler, ran, touched, restarts>>
         /\ \/ UNCHANGED <<objects, stream>>
            \/ \E u \in DOMAIN objects' :
                 /\ Emits(u)
                 /\ u \in DOMAIN objects => objects'[u].phase = objects[u].phase
                 /\ u \notin DOMAIN objects => /\ objects'[u].phase = ""
                                               /\ u \in Nat
                                               /\ \A v \in DOMAIN objects : v < u
                                               /\ \A v \in LiveUids :
                                                    objects[v].name # objects'[u].name
<1>1. CASE ChangePolicies
  BY <1>1 DEF ChangePolicies
<1>2. CASE Create
  <2> DEFINE n == Len(objects) + 1
  <2>1. /\ objects' \in Seq(Object) /\ Len(objects') = n /\ n \in Uids
        /\ \A v \in DOMAIN objects : objects'[v] = objects[v]
        /\ objects'[n].phase = ""
        /\ \A v \in LiveUids : objects[v].name # objects'[n].name
        /\ stream' = Append(stream, [uid |-> n, object |-> objects'[n]])
        /\ UNCHANGED <<policies, processed, handler, ran, touched, restarts, faults, edits>>
    BY <1>2, CreateChanges
  <2>2. Len(objects) \in Nat /\ DOMAIN objects = 1 .. Len(objects)
    BY DEF Typed, TypeOK
  <2>3. DOMAIN objects' = 1 .. n
    BY <2>1, LenProperties
  <2>4. /\ n \in DOMAIN objects' /\ DOMAIN objects' = DOMAIN objects \cup {n} /\ n \in Nat
        /\ n \notin DOMAIN objects /\ \A v \in DOMAIN objects : v < n
    BY <2>2, <2>3
  <2> HIDE DEF n
  <2>5. Emits(n)
    BY <2>1, <2>4 DEF Emits
  <2> QED
    BY <2>1, <2>4, <2>5
<1>3. CASE \E u \in LiveUids : Edit(u) \/ Delete(u)
  <2>1. PICK u \in LiveUids : Edit(u) \/ Delete(u)
    BY <1>3
  <2>2. /\ objects' \in Seq(Object) /\ DOMAIN objects' = DOMAIN objects
        /\ Len(objects') = Len(objects) /\ u \in DOMAIN objects
        /\ \A v \in DOMAIN objects : /\ objects'[v].name = objects[v].name
                                     /\ objects'[v].phase = objects[v].phase
                                     /\ objects'[v].live => objects[v].live
        /\ stream' = Append(stream, [uid |-> u, object |-> objects'[u]])
        /\ UNCHANGED <<policies, processed, handler, ran, touched, restarts, faults>>
    BY <2>1, ChangeChanges
  <2>3. Emits(u)
    BY <2>2 DEF Emits
  <2> QED
    BY <2>2, <2>3
<1> QED
  BY <1>1, <1>2, <1>3 DEF Users

\* A patch writes the phase of the live request that bears the name.
LEMMA PatchEmits ==
  ASSUME Typed, PatchLands
  PROVE  /\ pc = "patch" /\ pc' = "idle"
         /\ UNCHANGED <<processed, ran, touched, restarts>>
         /\ \E u \in LiveUids : /\ Emits(u) /\ u \in DOMAIN objects
                                /\ objects[u].name = cr.object.name
                                /\ DOMAIN objects' = DOMAIN objects
                                /\ objects'[u].phase = status.phase
                                /\ status.phase # ""
<1>1. PICK u \in LiveUids :
         /\ objects[u].name = cr.object.name
         /\ objects' \in Seq(Object) /\ DOMAIN objects' = DOMAIN objects
         /\ Len(objects') = Len(objects) /\ u \in DOMAIN objects
         /\ \A v \in DOMAIN objects : /\ objects'[v].name = objects[v].name
                                      /\ objects'[v].live = objects[v].live
                                      /\ v # u => objects'[v].phase = objects[v].phase
         /\ objects'[u].phase = status.phase /\ status.phase \in Phases \ {""}
         /\ stream' = Append(stream, [uid |-> u, object |-> objects'[u]])
  BY PatchChanges
<1>2. Emits(u)
  BY <1>1 DEF Emits
<1> QED
  BY <1>1, <1>2 DEF PatchLands, Done

LEMMA BeginAnalysisMoves ==
  ASSUME BeginAnalysis
  PROVE  /\ Decode /\ Head(stream).object.phase = ""
         /\ <<Head(stream).object.name, "analyze">> \notin processed
         /\ processed' = processed \cup {<<Head(stream).object.name, "analyze">>}
         /\ pc = "idle" /\ pc' = "analyze" /\ cr' = Head(stream)
         /\ UNCHANGED <<objects, ran, touched, restarts>>
BY DEF BeginAnalysis, NeedsAnalysis, Decode

LEMMA BeginApprovedMoves ==
  ASSUME BeginApproved
  PROVE  /\ Decode /\ Head(stream).object.phase = "AwaitingApproval"
         /\ <<Head(stream).object.name, "remediate">> \notin processed
         /\ processed' = processed \cup {<<Head(stream).object.name, "remediate">>}
         /\ pc = "idle" /\ pc' \in {"run", "patch"} /\ cr' = Head(stream)
         /\ pc' = "run" => todo'.by = "approval"
         /\ pc' = "patch" => status'.phase = "Failed"
         /\ UNCHANGED <<objects, ran, touched, restarts>>
BY DEF BeginApproved, NeedsRemediation, Decode, Send, Start

LEMMA IgnoreMoves ==
  ASSUME Ignore
  PROVE  Decode /\ pc = "idle" /\ pc' = "idle"
         /\ UNCHANGED <<objects, processed, handler, ran, touched, restarts>>
BY DEF Ignore, Decode, handler

\* The answer to an analysis is about the request it was begun for.
LEMMA AnalysisMoves ==
  ASSUME Typed, AnalysisFails \/ Analyzed \/ Consult
  PROVE  /\ pc \in {"analyze", "consult"} /\ pc' \in {"consult", "run", "patch"}
         /\ cr'.uid = cr.uid /\ cr'.object.name = cr.object.name
         /\ cr'.object.phase = cr.object.phase
         /\ pc' = "run" => todo'.by = "auto"
         /\ UNCHANGED <<objects, stream, processed, ran, touched, restarts>>
<1>1. cr \in Event
  BY DEF AnalysisFails, Analyzed, Consult, Typed, Holding
<1>2. CASE AnalysisFails
  BY <1>2 DEF AnalysisFails, Send
<1>3. CASE Analyzed
  <2>1. PICK p \in Proposal \cup {None} : cr' = [cr EXCEPT !.object = [cr.object EXCEPT !.proposal = p]]
    BY <1>3 DEF Analyzed
  <2>2. cr'.uid = cr.uid /\ cr'.object.name = cr.object.name /\ cr'.object.phase = cr.object.phase
    BY <1>1, <2>1 DEF Event, Object
  <2>3. pc' \in {"consult", "patch"}
    BY <1>3 DEF Analyzed, Send
  <2> QED
    BY <1>3, <2>2, <2>3 DEF Analyzed
<1>4. CASE Consult
  <2>1. pc' = "patch" \/ (pc' = "run" /\ todo'.by = "auto")
    BY <1>4 DEF Consult, Send, Start
  <2> QED
    BY <1>4, <2>1 DEF Consult
<1> QED
  BY <1>2, <1>3, <1>4

\* A remediation is run at most once, for the request in hand.
LEMMA RunMoves ==
  ASSUME Typed, RunSucceeds \/ RunFails
  PROVE  /\ pc = "run" /\ pc' = "patch" /\ cr' = cr
         /\ status'.phase \in {"Remediated", "Failed"}
         /\ \A v \in Uids : ran'[v] = ran[v] \/ (v = cr.uid /\ ran'[v] = ran[v] + 1)
         /\ touched' \subseteq touched \cup {cr.uid}
         /\ UNCHANGED <<objects, stream, processed, restarts>>
<1>1. ran \in [Uids -> Nat] /\ cr.uid \in Uids
  BY DEF RunSucceeds, RunFails, Typed, TypeOK, Holding, Event
<1>2. \A v \in Uids : ran'[v] = ran[v] \/ (v = cr.uid /\ ran'[v] = ran[v] + 1)
  BY <1>1, RanTyped, Touches
<1> QED
  BY <1>2, Touches DEF RunSucceeds, RunFails, Send

LEMMA PatchFailsMoves ==
  ASSUME PatchFails
  PROVE  pc' = "idle" /\ UNCHANGED <<objects, stream, processed, ran, touched, restarts>>
BY DEF PatchFails, Done

LEMMA RestartMoves ==
  ASSUME Typed, Restart
  PROVE  /\ pc' = "idle" /\ processed' = {} /\ touched' = {} /\ restarts' = restarts + 1
         /\ \A v \in Uids : \/ ran'[v] = ran[v]
                            \/ pc = "run" /\ v = cr.uid /\ ran'[v] = ran[v] + 1
         /\ UNCHANGED objects
<1>1. ran \in [Uids -> Nat] /\ (pc = "run" => cr.uid \in Uids)
  BY DEF Typed, TypeOK, Holding, Event
<1>2. \A v \in Uids : \/ ran'[v] = ran[v]
                      \/ pc = "run" /\ v = cr.uid /\ ran'[v] = ran[v] + 1
  BY <1>1, RanTyped DEF Restart
<1> QED
  BY <1>2 DEF Restart

------------------------------------------------------------------------------
(* What holds of the requests and of the events about them. *)

LEMMA AheadEmitted ==
  ASSUME Typed, NEW u, Emits(u)
  PROVE  \A v, p : Ahead(v, p)' <=> Ahead(v, p) \/ (v = u /\ p = objects'[u].phase)
<1>1. stream \in Seq(Event) /\ stream' = Append(stream, [uid |-> u, object |-> objects'[u]])
  BY DEF Typed, Emits
<1>2. \A v, p : Ahead(v, p)' <=>
        Ahead(v, p) \/ (v = u /\ p = [uid |-> u, object |-> objects'[u]].object.phase)
  BY <1>1, AheadNotified
<1> QED
  BY <1>2

\* Phases only appear while requests keep the phases they have.
LEMMA EmittedInOrder ==
  ASSUME Typed, PhasesAppear, NEW u, Emits(u),
         u \in DOMAIN objects /\ objects[u].phase # "" => objects'[u].phase # ""
  PROVE  PhasesAppear'
<1>1. /\ Len(stream') = Len(stream) + 1 /\ Len(stream) \in Nat
      /\ DOMAIN stream = 1 .. Len(stream) /\ DOMAIN stream' = 1 .. Len(stream')
      /\ \A i \in DOMAIN stream : i \in DOMAIN stream' /\ stream'[i] = stream[i]
      /\ stream'[Len(stream')] = [uid |-> u, object |-> objects'[u]]
      /\ \A i \in DOMAIN stream' : ~(Len(stream') < i)
  BY Notified DEF Typed, Emits
<1>2. \A i \in DOMAIN stream' : i \in DOMAIN stream \/ i = Len(stream')
  BY Notified DEF Typed, Emits
<1>3. \A j \in DOMAIN stream' : j = Len(stream') =>
        stream'[j].uid = u /\ stream'[j].object.phase = objects'[u].phase
  <2>1. /\ stream'[Len(stream')].uid = u
        /\ stream'[Len(stream')].object.phase = objects'[u].phase
    <3>1. stream'[Len(stream')] = [uid |-> u, object |-> objects'[u]]
      BY <1>1, Zenon
    <3> QED
      BY ONLY <3>1
  <2> QED
    BY <2>1, Zenon
<1>4. \A v \in DOMAIN objects : objects[v].phase # "" => objects'[v].phase # ""
  BY DEF Emits
<1> SUFFICES ASSUME NEW i \in DOMAIN stream', stream'[i].object.phase # ""
             PROVE  /\ objects'[stream'[i].uid].phase # ""
                    /\ \A j \in DOMAIN stream' :
                         i < j /\ stream'[j].uid = stream'[i].uid => stream'[j].object.phase # ""
  BY DEF PhasesAppear
<1>5. CASE i \in DOMAIN stream
  <2>1. /\ stream'[i] = stream[i] /\ stream[i].uid \in DOMAIN objects
        /\ objects[stream[i].uid].phase # ""
        /\ \A j \in DOMAIN stream :
             i < j /\ stream[j].uid = stream[i].uid => stream[j].object.phase # ""
    BY <1>1, <1>5 DEF PhasesAppear, Typed, EventsAreAboutRequests
  <2>2. objects'[stream[i].uid].phase # ""
    BY <1>4, <2>1
  <2>3. ASSUME NEW j \in DOMAIN stream', i < j, stream'[j].uid = stream[i].uid
        PROVE  stream'[j].object.phase # ""
    <3>1. CASE j \in DOMAIN stream
      BY <1>1, <2>1, <2>3, <3>1
    <3>2. CASE j = Len(stream')
      <4>1. stream[i].uid = u /\ stream'[j].object.phase = objects'[u].phase
        BY <1>3, <2>3, <3>2
      <4> QED
        BY <2>2, <4>1
    <3> QED
      BY <1>2, <3>1, <3>2
  <2> QED
    BY <2>1, <2>2, <2>3
<1>6. CASE i = Len(stream')
  <2>1. \A j \in DOMAIN stream' : ~(i < j)
    BY <1>1, <1>6
  <2> QED
    BY <1>6, <1>3, <2>1
<1> QED
  BY <1>2, <1>5, <1>6

LEMMA DecodingInOrder ==
  ASSUME Typed, PhasesAppear, Decode, UNCHANGED objects
  PROVE  PhasesAppear'
<1>1. /\ DOMAIN stream' = 1 .. Len(stream) - 1 /\ Len(stream) \in Nat
      /\ \A i \in DOMAIN stream' : /\ i + 1 \in DOMAIN stream /\ stream'[i] = stream[i + 1]
  BY DecodeTyped
<1>2. \A i, j \in DOMAIN stream' : i < j => i + 1 < j + 1
  BY <1>1
<1> QED
  BY <1>1, <1>2 DEF PhasesAppear

LEMMA HistoryStays ==
  ASSUME Typed, History, UnbornUntouched', UNCHANGED <<objects, stream, processed>>
  PROVE  History'
<1>1. PhasesAppear'
  BY DEF History, PhasesAppear
<1>2. AnalyzedBeforeWaiting'
  <2>1. \A v, p : Ahead(v, p)' <=> Ahead(v, p)
    BY AheadStays
  <2> QED
    BY <2>1 DEF History, AnalyzedBeforeWaiting, NotWaiting, Begun
<1> QED
  BY <1>1, <1>2 DEF History, OneLive

\* The history of the requests under what users do.
LEMMA UsersKeepHistory == Typed /\ History /\ Users => History'
<1> SUFFICES ASSUME Typed, History, Users PROVE History'
  OBVIOUS
<1>1. UNCHANGED <<processed, handler, ran, touched, restarts>>
  BY UsersEmit
<1>2. CASE UNCHANGED <<objects, stream>>
  BY <1>1, <1>2, HistoryStays DEF History, UnbornUntouched
<1>3. ASSUME NEW u \in DOMAIN objects', Emits(u),
             u \in DOMAIN objects => objects'[u].phase = objects[u].phase,
             u \notin DOMAIN objects => /\ objects'[u].phase = ""
                                        /\ u \in Nat
                                        /\ \A v \in DOMAIN objects : v < u
                                        /\ \A v \in LiveUids :
                                             objects[v].name # objects'[u].name
      PROVE  History'
  <2>1. \A v, p : Ahead(v, p)' <=> Ahead(v, p) \/ (v = u /\ p = objects'[u].phase)
    BY <1>3, AheadEmitted
  <2>2. /\ DOMAIN objects' = DOMAIN objects \cup {u}
        /\ \A v \in DOMAIN objects : /\ objects'[v].name = objects[v].name
                                     /\ objects'[v].phase = objects[v].phase
                                     /\ objects'[v].live => objects[v].live
    BY <1>3 DEF Emits
  <2>3. OneLive'
    <3> SUFFICES ASSUME NEW v \in DOMAIN objects', NEW w \in DOMAIN objects', v < w,
                        objects'[v].name = objects'[w].name
                 PROVE  ~objects'[v].live
      BY DEF OneLive
    <3>1. DOMAIN objects \subseteq Nat
      BY DEF Typed, TypeOK
    <3>2. CASE v \in DOMAIN objects /\ w \in DOMAIN objects
      BY <2>2, <3>2 DEF History, OneLive
    <3>3. CASE v \in DOMAIN objects /\ w \notin DOMAIN objects
      <4>1. w = u /\ objects[v].name = objects'[u].name
        BY <2>2, <3>3
      <4>2. v \notin LiveUids
        BY <1>3, <3>3, <4>1
      <4> QED
        BY <2>2, <3>3, <4>2 DEF LiveUids
    <3>4. CASE v \notin DOMAIN objects
      <4>1. v = u /\ u \in Nat /\ (w = u \/ w < u) /\ w \in Nat
        BY <1>3, <2>2, <3>1, <3>4
      <4> QED
        BY <4>1
    <3> QED
      BY <3>2, <3>3, <3>4
  <2>4. UnbornUntouched'
    BY <1>1, <2>2 DEF History, UnbornUntouched
  <2>5. PhasesAppear'
    BY <1>3, <2>2, EmittedInOrder DEF History
  <2>6. AnalyzedBeforeWaiting'
    <3> SUFFICES ASSUME NEW v \in DOMAIN objects', Ahead(v, "")', ~Begun(v, "analyze")'
                 PROVE  objects'[v].phase # "AwaitingApproval" /\ ~Ahead(v, "AwaitingApproval")'
      BY DEF AnalyzedBeforeWaiting, NotWaiting
    <3>1. CASE v \in DOMAIN objects
      <4>1. ~Begun(v, "analyze")
        BY <1>1, <2>2, <3>1 DEF Begun
      <4>2. CASE Ahead(v, "")
        BY <2>1, <2>2, <3>1, <4>1, <4>2 DEF History, AnalyzedBeforeWaiting, NotWaiting
      <4>3. CASE ~Ahead(v, "")
        <5>1. v = u /\ objects[v].phase = ""
          BY <2>1, <2>2, <3>1, <4>3
        <5>2. ~Ahead(v, "AwaitingApproval")
          BY <5>1, AheadInOrder DEF History
        <5> QED
          BY <2>1, <2>2, <3>1, <5>1, <5>2
      <4> QED
        BY <4>2, <4>3
    <3>2. CASE v \notin DOMAIN objects
      BY <1>3, <2>1, <2>2, <3>2, AheadExists
    <3> QED
      BY <3>1, <3>2
  <2> QED
    BY <2>3, <2>4, <2>5, <2>6 DEF History
<1> QED
  BY <1>2, <1>3, UsersEmit

\* Decoding an event, whatever is made of it.
LEMMA BeginsKeepHistory ==
  Typed /\ History /\ (Ignore \/ BeginAnalysis \/ BeginApproved) => History'
<1> SUFFICES ASSUME Typed, History, Ignore \/ BeginAnalysis \/ BeginApproved
             PROVE  History'
  OBVIOUS
<1>1. Decode /\ UNCHANGED <<objects, ran>> /\ processed \subseteq processed'
  BY IgnoreMoves, BeginAnalysisMoves, BeginApprovedMoves
<1>2. \A v, p : Ahead(v, p)' => Ahead(v, p)
  BY <1>1, AheadDecoded
<1>3. AnalyzedBeforeWaiting'
  BY <1>1, <1>2 DEF History, AnalyzedBeforeWaiting, NotWaiting, Begun
<1> QED
  BY <1>1, <1>3, DecodingInOrder DEF History, OneLive, UnbornUntouched

LEMMA RunsKeepHistory ==
  Typed /\ History /\ (AnalysisFails \/ Analyzed \/ Consult \/ RunSucceeds \/ RunFails)
    => History'
<1> SUFFICES ASSUME Typed, History,
                    AnalysisFails \/ Analyzed \/ Consult \/ RunSucceeds \/ RunFails
             PROVE  History'
  OBVIOUS
<1>1. UNCHANGED <<objects, stream, processed>>
  BY AnalysisMoves, RunMoves
<1>2. UnbornUntouched'
  <2>1. CASE AnalysisFails \/ Analyzed \/ Consult
    BY <2>1, AnalysisMoves DEF History, UnbornUntouched
  <2>2. CASE RunSucceeds \/ RunFails
    <3>1. cr.uid \in DOMAIN objects
      BY <2>2 DEF Typed, Holding, RunSucceeds, RunFails
    <3> QED
      BY <1>1, <2>2, <3>1, RunMoves DEF History, UnbornUntouched
  <2> QED
    BY <2>1, <2>2
<1> QED
  BY <1>1, <1>2, HistoryStays

\* A patch asks for an approval only after an analysis.
LEMMA PatchKeepsHistory ==
  Typed /\ History /\ OneOfTwo /\ (PatchLands \/ PatchFails) => History'
<1> SUFFICES ASSUME Typed, History, OneOfTwo, PatchLands \/ PatchFails
             PROVE  History'
  OBVIOUS
<1>1. CASE PatchFails
  BY <1>1, PatchFailsMoves, HistoryStays DEF History, UnbornUntouched
<1>2. CASE PatchLands
  <2>1. UNCHANGED <<processed, ran>> /\ pc = "patch"
    BY <1>2, PatchEmits
  <2>2. PICK u \in LiveUids : /\ Emits(u) /\ u \in DOMAIN objects
                              /\ objects[u].name = cr.object.name
                              /\ DOMAIN objects' = DOMAIN objects
                              /\ objects'[u].phase = status.phase
                              /\ status.phase # ""
    BY <1>2, PatchEmits
  <2>3. \A v \in DOMAIN objects : /\ objects'[v].name = objects[v].name
                                  /\ objects'[v].live => objects[v].live
                                  /\ v # u => objects'[v].phase = objects[v].phase
    BY <2>2 DEF Emits
  <2>4. \A v, p : Ahead(v, p)' <=> Ahead(v, p) \/ (v = u /\ p = objects'[u].phase)
    BY <2>2, AheadEmitted
  <2>5. status.phase = "AwaitingApproval" => Begun(u, "analyze")
    <3>1. PICK w \in Uids : w = cr.uid /\ objects[w].name = cr.object.name
      BY <2>1 DEF Typed, Holding, Event
    <3>2. Analysis(w) \/ Approval(w)
      BY <2>1, <3>1 DEF OneOfTwo
    <3> QED
      BY <2>1, <2>2, <3>1, <3>2 DEF Analysis, Approval, Begun
  <2>6. OneLive'
    BY <2>2, <2>3 DEF History, OneLive
  <2>7. UnbornUntouched'
    BY <2>1, <2>2 DEF History, UnbornUntouched
  <2>8. PhasesAppear'
    BY <2>2, EmittedInOrder DEF History
  <2>9. AnalyzedBeforeWaiting'
    <3> SUFFICES ASSUME NEW v \in DOMAIN objects, Ahead(v, "")', ~Begun(v, "analyze")'
                 PROVE  objects'[v].phase # "AwaitingApproval" /\ ~Ahead(v, "AwaitingApproval")'
      BY <2>2 DEF AnalyzedBeforeWaiting, NotWaiting
    <3>1. ~Begun(v, "analyze")
      BY <2>1, <2>3 DEF Begun
    <3>2. Ahead(v, "")
      BY <2>2, <2>4
    <3>3. objects[v].phase # "AwaitingApproval" /\ ~Ahead(v, "AwaitingApproval")
      BY <3>1, <3>2 DEF History, AnalyzedBeforeWaiting, NotWaiting
    <3> QED
      BY <2>2, <2>3, <2>4, <2>5, <3>1, <3>3
  <2> QED
    BY <2>6, <2>7, <2>8, <2>9 DEF History
<1> QED
  BY <1>1, <1>2

LEMMA RestartKeepsHistory == Typed /\ History /\ Restart => History'
<1> SUFFICES ASSUME Typed, History, Restart PROVE History'
  OBVIOUS
<1>1. UNCHANGED objects
  BY RestartMoves
<1>2. \A v, p : Ahead(v, p)' => v \in DOMAIN objects /\ objects[v].phase = p
  BY AheadListed
<1>3. UnbornUntouched'
  <2>1. pc = "run" => cr.uid \in DOMAIN objects
    BY DEF Typed, Holding
  <2> QED
    BY <1>1, <2>1, RestartMoves DEF History, UnbornUntouched
<1>4. PhasesAppear'
  <2>1. \A i \in DOMAIN stream' : \E u \in LiveUids : stream'[i] = EventOf(objects, u)
    BY ListingTyped DEF Typed, Restart
  <2>2. \A i \in DOMAIN stream' : stream'[i].object = objects[stream'[i].uid]
    BY <2>1 DEF EventOf
  <2> QED
    BY <1>1, <2>2 DEF PhasesAppear
<1>5. AnalyzedBeforeWaiting'
  <2>1. ASSUME NEW v \in DOMAIN objects, Ahead(v, "")'
        PROVE  objects'[v].phase # "AwaitingApproval" /\ ~Ahead(v, "AwaitingApproval")'
    <3>1. objects[v].phase = ""
      BY <1>2, <2>1
    <3>2. Ahead(v, "AwaitingApproval")' => objects[v].phase = "AwaitingApproval"
      BY <1>2
    <3>3. ~Ahead(v, "AwaitingApproval")'
      BY <3>1, <3>2
    <3> QED
      BY <1>1, <3>1, <3>3
  <2> QED
    BY <1>1, <2>1 DEF AnalyzedBeforeWaiting, NotWaiting
<1> QED
  BY <1>1, <1>3, <1>4, <1>5 DEF History, OneLive

------------------------------------------------------------------------------
(* What reconcile works on, and what it has done. *)

\* What users do takes no phase back and asks for no approval.
LEMMA UsersLeave ==
  ASSUME Typed, Users
  PROVE  /\ DOMAIN objects \subseteq DOMAIN objects'
         /\ \A v \in DOMAIN objects :
              /\ objects'[v].name = objects[v].name /\ objects'[v].phase = objects[v].phase
              /\ Answered(v) => Answered(v)'
              /\ NotWaiting(v) => NotWaiting(v)'
              /\ \A what : Begun(v, what)' <=> Begun(v, what)
<1>1. UNCHANGED processed
  BY UsersEmit
<1>2. CASE UNCHANGED <<objects, stream>>
  BY <1>1, <1>2, AheadStays DEF Answered, NotWaiting, Begun
<1>3. ASSUME NEW u \in DOMAIN objects', Emits(u),
             u \in DOMAIN objects => objects'[u].phase = objects[u].phase
      PROVE  /\ DOMAIN objects \subseteq DOMAIN objects'
             /\ \A v \in DOMAIN objects :
                  /\ objects'[v].name = objects[v].name
                  /\ objects'[v].phase = objects[v].phase
                  /\ Answered(v) => Answered(v)'
                  /\ NotWaiting(v) => NotWaiting(v)'
                  /\ \A what : Begun(v, what)' <=> Begun(v, what)
  <2>1. \A v, p : Ahead(v, p)' <=> Ahead(v, p) \/ (v = u /\ p = objects'[u].phase)
    BY <1>3, AheadEmitted
  <2>2. /\ DOMAIN objects' = DOMAIN objects \cup {u}
        /\ \A v \in DOMAIN objects : /\ objects'[v].name = objects[v].name
                                     /\ objects'[v].phase = objects[v].phase
    BY <1>3 DEF Emits
  <2>3. ASSUME NEW v \in DOMAIN objects, Answered(v) PROVE Answered(v)'
    BY <2>1, <2>2, <2>3 DEF Answered
  <2>4. ASSUME NEW v \in DOMAIN objects, NotWaiting(v) PROVE NotWaiting(v)'
    BY <2>1, <2>2, <2>4 DEF NotWaiting
  <2>5. \A v \in DOMAIN objects : \A what : Begun(v, what)' <=> Begun(v, what)
    BY <1>1, <2>2 DEF Begun
  <2> QED
    BY <2>2, <2>3, <2>4, <2>5
<1> QED
  BY <1>2, <1>3, UsersEmit

\* A decoded event is gone, and what has been begun stays begun.
LEMMA DecodingLeaves ==
  ASSUME Typed, Decode, UNCHANGED objects, processed \subseteq processed'
  PROVE  \A v : /\ Answered(v) => Answered(v)'
                /\ NotWaiting(v) => NotWaiting(v)'
                /\ \A what : Begun(v, what) => Begun(v, what)'
<1>1. \A v, p : Ahead(v, p)' => Ahead(v, p)
  BY AheadDecoded
<1> QED
  BY <1>1 DEF Answered, NotWaiting, Begun

LEMMA StandingLeaves ==
  ASSUME UNCHANGED <<objects, stream, processed>>
  PROVE  \A v : /\ Answered(v)' <=> Answered(v)
                /\ NotWaiting(v)' <=> NotWaiting(v)
                /\ \A what : Begun(v, what)' <=> Begun(v, what)
BY AheadStays DEF Answered, NotWaiting, Begun

\* The decoded event is the first one ahead.
LEMMA DecodedWasAhead ==
  ASSUME Typed, Decode
  PROVE  /\ Ahead(Head(stream).uid, Head(stream).object.phase)
         /\ Head(stream).uid \in DOMAIN objects /\ Head(stream).uid \in Uids
         /\ \A what : Begun(Head(stream).uid, what)
                        <=> <<Head(stream).object.name, what>> \in processed
<1>1. /\ Head(stream).uid \in DOMAIN objects /\ Head(stream) \in Event
      /\ Head(stream).object.name = objects[Head(stream).uid].name
  BY DecodeTyped
<1>2. Ahead(Head(stream).uid, Head(stream).object.phase)
  BY DecodeTyped DEF Ahead
<1> QED
  BY <1>1, <1>2 DEF Begun, Event

LEMMA InHand ==
  ASSUME Typed, pc # "idle"
  PROVE  cr.uid \in DOMAIN objects /\ cr.uid \in Uids /\ cr.object.name = objects[cr.uid].name
BY DEF Typed, Holding, Event

\* Reconcile works on a request nobody waits for, or on an approved one of which
\* no event without a phase can come any more.
LEMMA OneOfTwoKept ==
  Typed /\ History /\ OneOfTwo /\ [Next]_vars => OneOfTwo'
<1> SUFFICES ASSUME Typed, History, OneOfTwo, [Next]_vars,
                    NEW u \in Uids, pc' # "idle", cr'.uid = u
             PROVE  (Analysis(u) \/ Approval(u))'
  BY DEF OneOfTwo
<1>1. CASE Users
  <2>1. UNCHANGED handler
    BY <1>1, UsersEmit
  <2>2. u \in DOMAIN objects /\ (Analysis(u) \/ Approval(u))
    BY <2>1, InHand DEF OneOfTwo, handler
  <2> QED
    BY <1>1, <2>1, <2>2, UsersLeave DEF Analysis, Approval, handler
<1>2. CASE BeginAnalysis
  <2>1. /\ Decode /\ Head(stream).object.phase = "" /\ Head(stream).uid = u
        /\ <<Head(stream).object.name, "analyze">> \notin processed
        /\ processed' = processed \cup {<<Head(stream).object.name, "analyze">>}
        /\ pc' = "analyze" /\ cr' = Head(stream) /\ UNCHANGED objects
    BY <1>2, BeginAnalysisMoves
  <2>2. /\ Ahead(u, "") /\ ~Begun(u, "analyze") /\ u \in DOMAIN objects
        /\ objects[u].name = Head(stream).object.name
    BY <2>1, DecodedWasAhead, DecodeTyped
  <2>3. NotWaiting(u)
    BY <2>2 DEF History, AnalyzedBeforeWaiting
  <2>4. NotWaiting(u)' /\ Begun(u, "analyze")'
    BY <2>1, <2>2, <2>3, DecodingLeaves DEF Begun
  <2> QED
    BY <2>1, <2>4 DEF Analysis
<1>3. CASE BeginApproved
  <2>1. /\ Decode /\ Head(stream).object.phase = "AwaitingApproval" /\ Head(stream).uid = u
        /\ processed' = processed \cup {<<Head(stream).object.name, "remediate">>}
        /\ pc' \in {"run", "patch"} /\ cr' = Head(stream) /\ UNCHANGED objects
        /\ pc' = "run" => todo'.by = "approval"
        /\ pc' = "patch" => status'.phase = "Failed"
    BY <1>3, BeginApprovedMoves
  <2>2. ~Ahead(u, "")' /\ objects[u].phase # ""
    BY <2>1, DecodedInOrder DEF History
  <2>3. Begun(u, "remediate")'
    BY <2>1, DecodeTyped DEF Begun
  <2> QED
    BY <2>1, <2>2, <2>3 DEF Approval, Answered
<1>4. CASE AnalysisFails \/ Analyzed \/ Consult
  <2>1. /\ pc \in {"analyze", "consult"} /\ pc' \in {"consult", "run", "patch"}
        /\ cr.uid = u /\ cr'.object.phase = cr.object.phase
        /\ pc' = "run" => todo'.by = "auto"
        /\ UNCHANGED <<objects, stream, processed>>
    BY <1>4, AnalysisMoves
  <2>2. Analysis(u)
    BY <2>1 DEF OneOfTwo, Approval
  <2> QED
    BY <2>1, <2>2, StandingLeaves DEF Analysis
<1>5. CASE RunSucceeds \/ RunFails
  <2>1. /\ pc = "run" /\ pc' = "patch" /\ cr' = cr
        /\ status'.phase \in {"Remediated", "Failed"}
        /\ UNCHANGED <<objects, stream, processed>>
    BY <1>5, RunMoves
  <2>2. Analysis(u) \/ Approval(u)
    BY <2>1 DEF OneOfTwo
  <2> QED
    BY <2>1, <2>2, StandingLeaves DEF Analysis, Approval
<1>6. CASE UNCHANGED vars
  <2>1. UNCHANGED <<objects, stream, processed, pc, cr, todo, status>>
    BY <1>6 DEF vars, handler
  <2>2. Analysis(u) \/ Approval(u)
    BY <2>1 DEF OneOfTwo
  <2> QED
    BY <2>1, <2>2, StandingLeaves DEF Analysis, Approval
<1> QED
  BY <1>1, <1>2, <1>3, <1>4, <1>5, <1>6, IgnoreMoves, PatchEmits, PatchFailsMoves, RestartMoves
  DEF Next, OperatorStep

\* What is spent stays spent for the life of the operator.
LEMMA SpentKept ==
  ASSUME Typed, History, OneOfTwo, [Next]_vars, ~Restart, NEW u \in Uids, Spent(u)
  PROVE  Spent(u)'
<1>1. /\ u \in DOMAIN objects /\ (pc \in {"analyze", "consult", "run"} => cr.uid # u)
      /\ \/ Begun(u, "remediate") /\ Answered(u)
         \/ Begun(u, "analyze") /\ NotWaiting(u) /\ ~MayAsk(u)
  BY DEF Spent
<1>2. CASE Users
  <2>1. UNCHANGED handler
    BY <1>2, UsersEmit
  <2>2. /\ u \in DOMAIN objects' /\ objects'[u].name = objects[u].name
        /\ Answered(u) => Answered(u)'
        /\ NotWaiting(u) => NotWaiting(u)'
        /\ \A what : Begun(u, what)' <=> Begun(u, what)
    BY <1>1, <1>2, UsersLeave
  <2> QED
    BY <1>1, <2>1, <2>2 DEF Spent, MayAsk, handler
<1>3. CASE Ignore
  <2>1. /\ Decode /\ pc' = "idle" /\ UNCHANGED objects /\ processed \subseteq processed'
    BY <1>3, IgnoreMoves
  <2> QED
    BY <1>1, <2>1, DecodingLeaves DEF Spent, MayAsk
<1>4. CASE BeginAnalysis
  <2>1. /\ Decode /\ Head(stream).object.phase = ""
        /\ <<Head(stream).object.name, "analyze">> \notin processed
        /\ processed \subseteq processed'
        /\ pc' = "analyze" /\ cr' = Head(stream) /\ UNCHANGED objects
    BY <1>4, BeginAnalysisMoves
  <2>2. Begun(u, "analyze") => Head(stream).object.name # objects[u].name
    BY <2>1 DEF Begun
  <2>3. Head(stream).uid # u
    BY <1>1, <2>1, <2>2, DecodedWasAhead DEF Answered, Begun
  <2> QED
    BY <1>1, <2>1, <2>2, <2>3, DecodingLeaves DEF Spent, MayAsk
<1>5. CASE BeginApproved
  <2>1. /\ Decode /\ Head(stream).object.phase = "AwaitingApproval"
        /\ <<Head(stream).object.name, "remediate">> \notin processed
        /\ processed \subseteq processed'
        /\ pc' \in {"run", "patch"} /\ cr' = Head(stream) /\ UNCHANGED objects
        /\ pc' = "patch" => status'.phase = "Failed"
    BY <1>5, BeginApprovedMoves
  <2>2. Head(stream).uid # u
    BY <1>1, <2>1, DecodedWasAhead DEF NotWaiting, Begun
  <2>3. ~MayAsk(u)'
    BY <2>1 DEF MayAsk
  <2> QED
    BY <1>1, <2>1, <2>2, <2>3, DecodingLeaves DEF Spent
<1>6. CASE AnalysisFails \/ Analyzed \/ Consult
  <2>1. /\ pc \in {"analyze", "consult"} /\ pc' \in {"consult", "run", "patch"}
        /\ cr'.uid = cr.uid /\ cr'.object.name = cr.object.name
        /\ UNCHANGED <<objects, stream, processed>>
    BY <1>6, AnalysisMoves
  <2>2. ~MayAsk(u) => ~MayAsk(u)'
    BY <2>1 DEF MayAsk
  <2> QED
    BY <1>1, <2>1, <2>2, StandingLeaves DEF Spent
<1>7. CASE RunSucceeds \/ RunFails
  <2>1. /\ pc' = "patch" /\ status'.phase \in {"Remediated", "Failed"}
        /\ UNCHANGED <<objects, stream, processed>>
    BY <1>7, RunMoves
  <2>2. ~MayAsk(u)'
    BY <2>1 DEF MayAsk
  <2> QED
    BY <1>1, <2>1, <2>2, StandingLeaves DEF Spent
<1>8. CASE PatchLands
  <2>1. pc = "patch" /\ pc' = "idle" /\ UNCHANGED processed
    BY <1>8, PatchEmits
  <2>2. PICK w \in LiveUids : /\ Emits(w) /\ w \in DOMAIN objects
                              /\ objects[w].name = cr.object.name
                              /\ DOMAIN objects' = DOMAIN objects
                              /\ objects'[w].phase = status.phase
                              /\ status.phase # ""
    BY <1>8, PatchEmits
  <2>3. /\ objects'[u].name = objects[u].name
        /\ u # w => objects'[u].phase = objects[u].phase
    BY <1>1, <2>2 DEF Emits
  <2>4. \A p : Ahead(u, p)' <=> Ahead(u, p) \/ (u = w /\ p = objects'[w].phase)
    BY <2>2, AheadEmitted
  <2>5. Answered(u) => Answered(u)'
    BY <2>2, <2>3, <2>4 DEF Answered
  <2>6. ~MayAsk(u) /\ NotWaiting(u) => NotWaiting(u)'
    <3>1. ~MayAsk(u) /\ u = w => status.phase # "AwaitingApproval"
      BY <2>1, <2>2 DEF MayAsk
    <3> QED
      BY <2>2, <2>3, <2>4, <3>1 DEF NotWaiting
  <2>7. ~MayAsk(u)' /\ \A what : Begun(u, what) => Begun(u, what)'
    BY <2>1, <2>3 DEF MayAsk, Begun
  <2> QED
    BY <1>1, <2>1, <2>2, <2>5, <2>6, <2>7 DEF Spent
<1>9. CASE PatchFails
  <2>1. pc' = "idle" /\ UNCHANGED <<objects, stream, processed>>
    BY <1>9, PatchFailsMoves
  <2> QED
    BY <1>1, <2>1, StandingLeaves DEF Spent, MayAsk
<1>10. CASE UNCHANGED vars
  <2>1. UNCHANGED <<objects, stream, processed, pc, cr, status>>
    BY <1>10 DEF vars, handler
  <2> QED
    BY <1>1, <2>1, StandingLeaves DEF Spent, MayAsk
<1> QED
  BY <1>2, <1>3, <1>4, <1>5, <1>6, <1>7, <1>8, <1>9, <1>10 DEF Next, OperatorStep

\* What the running operator has touched is spent.
LEMMA TouchedAreSpentKept ==
  Typed /\ History /\ OneOfTwo /\ TouchedAreSpent /\ [Next]_vars => TouchedAreSpent'
<1> SUFFICES ASSUME Typed, History, OneOfTwo, TouchedAreSpent, [Next]_vars,
                    NEW u \in touched'
             PROVE  Spent(u)'
  BY DEF TouchedAreSpent
<1>1. ~Restart
  BY RestartMoves
<1>2. ASSUME u \in touched PROVE Spent(u)'
  <2>1. u \in Uids /\ Spent(u)
    BY <1>2 DEF TouchedAreSpent, Typed, TypeOK
  <2> QED
    BY <1>1, <2>1, SpentKept
<1>3. CASE RunSucceeds \/ RunFails
  <2>1. /\ pc = "run" /\ pc' = "patch" /\ cr' = cr
        /\ status'.phase \in {"Remediated", "Failed"}
        /\ u \in touched \/ u = cr.uid
        /\ UNCHANGED <<objects, stream, processed>>
    BY <1>3, RunMoves
  <2>2. CASE u = cr.uid
    <3>1. u \in DOMAIN objects /\ u \in Uids
      BY <2>1, <2>2, InHand
    <3>2. Analysis(u) \/ Approval(u)
      BY <2>1, <2>2, <3>1 DEF OneOfTwo
    <3>3. \/ Begun(u, "remediate") /\ Answered(u)
          \/ Begun(u, "analyze") /\ NotWaiting(u)
      BY <2>1, <3>2 DEF Analysis, Approval
    <3>4. ~MayAsk(u)'
      BY <2>1 DEF MayAsk
    <3> QED
      BY <2>1, <3>1, <3>3, <3>4, StandingLeaves DEF Spent
  <2> QED
    BY <1>2, <2>1, <2>2
<1>4. CASE ~RunSucceeds /\ ~RunFails
  <2>1. UNCHANGED touched
    BY <1>1, <1>4, UsersEmit, IgnoreMoves, BeginAnalysisMoves, BeginApprovedMoves,
       AnalysisMoves, PatchEmits, PatchFailsMoves DEF Next, OperatorStep, vars
  <2> QED
    BY <1>2, <2>1
<1> QED
  BY <1>3, <1>4

LEMMA FreshStays ==
  ASSUME Typed, \A v \in DOMAIN objects : objects'[v].name = objects[v].name,
         NEW u \in DOMAIN objects
  PROVE  Fresh(u)' <=> Fresh(u)
<1>1. u \in Nat \ {0} /\ DOMAIN objects = 1 .. Len(objects) /\ Len(objects) \in Nat
  BY DEF Typed, TypeOK
<1>2. \A v \in 1 .. u - 1 : v \in DOMAIN objects
  BY <1>1
<1> QED
  BY <1>2 DEF Fresh

\* A patch meant for a request reaches the live one of that name; a request with
\* a name of its own that receives it is the one it was meant for.
LEMMA FreshIsMeant ==
  ASSUME Typed, OneLive, NEW u \in DOMAIN objects, NEW w \in LiveUids,
         objects[w].name = objects[u].name, Fresh(w)
  PROVE  w = u
<1>1. DOMAIN objects = 1 .. Len(objects) /\ w \in DOMAIN objects /\ objects[w].live
  BY DEF Typed, TypeOK, LiveUids
<1>2. ~(w < u)
  BY <1>1 DEF OneLive
<1>3. ~(u < w)
  BY <1>1 DEF Fresh
<1> QED
  BY <1>1, <1>2, <1>3

\* Of a request with a name of its own, what the operator decodes is current.
LEMMA FreshIsCurrentKept ==
  Typed /\ History /\ OneOfTwo /\ FreshIsCurrent /\ [Next]_vars => FreshIsCurrent'
<1> SUFFICES ASSUME Typed, History, OneOfTwo, FreshIsCurrent, [Next]_vars,
                    NEW u \in DOMAIN objects', Fresh(u)'
             PROVE  /\ Ahead(u, "")' /\ ~Begun(u, "analyze")' => objects'[u].phase = ""
                    /\ Ahead(u, "AwaitingApproval")' /\ ~Begun(u, "remediate")'
                         => objects'[u].phase = "AwaitingApproval"
                    /\ pc' # "idle" /\ cr'.uid = u => objects'[u].phase = cr'.object.phase
  BY DEF FreshIsCurrent
<1>1. ASSUME u \in DOMAIN objects, Fresh(u)
      PROVE  /\ Ahead(u, "") /\ ~Begun(u, "analyze") => objects[u].phase = ""
             /\ Ahead(u, "AwaitingApproval") /\ ~Begun(u, "remediate")
                  => objects[u].phase = "AwaitingApproval"
             /\ pc # "idle" /\ cr.uid = u => objects[u].phase = cr.object.phase
  BY <1>1 DEF FreshIsCurrent
<1>2. ASSUME UNCHANGED objects PROVE u \in DOMAIN objects /\ Fresh(u)
  BY <1>2 DEF Fresh
<1>3. ASSUME \A v \in DOMAIN objects : objects'[v].name = objects[v].name,
             u \in DOMAIN objects
      PROVE  Fresh(u)
  BY <1>3, FreshStays
<1>4. CASE Users
  <2>1. UNCHANGED <<processed, handler>>
    BY <1>4, UsersEmit
  <2>2. \A v \in DOMAIN objects : objects'[v].name = objects[v].name
    BY <1>4, UsersLeave
  <2>3. CASE UNCHANGED <<objects, stream>>
    BY <1>1, <1>2, <2>1, <2>3, StandingLeaves, AheadStays DEF handler
  <2>4. ASSUME NEW w \in DOMAIN objects', Emits(w),
               w \in DOMAIN objects => objects'[w].phase = objects[w].phase,
               w \notin DOMAIN objects => objects'[w].phase = ""
        PROVE  /\ Ahead(u, "")' /\ ~Begun(u, "analyze")' => objects'[u].phase = ""
               /\ Ahead(u, "AwaitingApproval")' /\ ~Begun(u, "remediate")'
                    => objects'[u].phase = "AwaitingApproval"
               /\ pc' # "idle" /\ cr'.uid = u => objects'[u].phase = cr'.object.phase
    <3>1. \A p : Ahead(u, p)' <=> Ahead(u, p) \/ (u = w /\ p = objects'[w].phase)
      BY <2>4, AheadEmitted
    <3>2. DOMAIN objects' = DOMAIN objects \cup {w}
      BY <2>4 DEF Emits
    <3>3. CASE u \in DOMAIN objects
      <4>1. Fresh(u)
        BY <1>3, <2>2, <3>3
      <4>2. /\ objects'[u].phase = objects[u].phase
            /\ \A what : Begun(u, what)' <=> Begun(u, what)
        BY <1>4, <3>3, UsersLeave
      <4> QED
        BY <1>1, <2>1, <3>1, <3>3, <4>1, <4>2 DEF handler
    <3>4. CASE u \notin DOMAIN objects
      <4>1. \A p : ~Ahead(u, p)
        BY <3>4, AheadExists
      <4>2. u = w /\ objects'[u].phase = ""
        BY <2>4, <3>2, <3>4
      <4>3. ~(pc' # "idle" /\ cr'.uid = u)
        BY <2>1, <3>4, InHand DEF handler
      <4> QED
        BY <3>1, <4>1, <4>2, <4>3
    <3> QED
      BY <3>3, <3>4
  <2> QED
    BY <1>4, <2>3, <2>4, UsersEmit
<1>5. CASE Ignore \/ BeginAnalysis \/ BeginApproved
  <2>1. Decode /\ UNCHANGED objects /\ processed \subseteq processed'
    BY <1>5, IgnoreMoves, BeginAnalysisMoves, BeginApprovedMoves
  <2>2. \A p : Ahead(u, p)' => Ahead(u, p)
    BY <2>1, AheadDecoded
  <2>3. /\ Ahead(u, "")' /\ ~Begun(u, "analyze")' => objects'[u].phase = ""
        /\ Ahead(u, "AwaitingApproval")' /\ ~Begun(u, "remediate")'
             => objects'[u].phase = "AwaitingApproval"
    BY <1>1, <1>2, <2>1, <2>2, DecodingLeaves
  <2>4. CASE pc' # "idle" /\ cr'.uid = u
    <3>1. /\ Head(stream).uid = u /\ cr'.object.phase = Head(stream).object.phase
          /\ \/ /\ Head(stream).object.phase = ""
                /\ <<Head(stream).object.name, "analyze">> \notin processed
             \/ /\ Head(stream).object.phase = "AwaitingApproval"
                /\ <<Head(stream).object.name, "remediate">> \notin processed
      BY <1>5, <2>4, IgnoreMoves, BeginAnalysisMoves, BeginApprovedMoves
    <3>2. objects[u].phase = Head(stream).object.phase
      BY <1>1, <1>2, <2>1, <3>1, DecodedWasAhead
    <3> QED
      BY <2>1, <2>3, <3>1, <3>2
  <2> QED
    BY <2>3, <2>4
<1>6. CASE AnalysisFails \/ Analyzed \/ Consult \/ RunSucceeds \/ RunFails
  <2>1. /\ UNCHANGED <<objects, stream, processed>> /\ pc # "idle"
        /\ cr'.uid = cr.uid /\ cr'.object.phase = cr.object.phase
    BY <1>6, AnalysisMoves, RunMoves
  <2> QED
    BY <1>1, <1>2, <2>1, StandingLeaves, AheadStays
<1>7. CASE PatchLands
  <2>1. pc = "patch" /\ pc' = "idle" /\ UNCHANGED processed
    BY <1>7, PatchEmits
  <2>2. PICK w \in LiveUids : /\ Emits(w) /\ w \in DOMAIN objects
                              /\ objects[w].name = cr.object.name
                              /\ DOMAIN objects' = DOMAIN objects
                              /\ objects'[w].phase = status.phase
                              /\ status.phase # ""
    BY <1>7, PatchEmits
  <2>3. /\ \A v \in DOMAIN objects : objects'[v].name = objects[v].name
        /\ u # w => objects'[u].phase = objects[u].phase
    BY <2>2 DEF Emits
  <2>4. \A p : Ahead(u, p)' <=> Ahead(u, p) \/ (u = w /\ p = objects'[w].phase)
    BY <2>2, AheadEmitted
  <2>5. u \in DOMAIN objects /\ Fresh(u)
    BY <1>3, <2>2, <2>3
  <2>6. \A what : Begun(u, what)' <=> Begun(u, what)
    BY <2>1, <2>3, <2>5 DEF Begun
  <2>7. CASE u # w
    BY <1>1, <2>1, <2>3, <2>4, <2>5, <2>6, <2>7
  <2>8. CASE u = w
    <3>1. cr.uid = u /\ cr.uid \in Uids
      <4>1. cr.uid \in DOMAIN objects /\ cr.uid \in Uids /\ cr.object.name = objects[cr.uid].name
        BY <2>1, InHand
      <4>2. objects[w].name = objects[cr.uid].name /\ Fresh(w) /\ OneLive
        BY <2>2, <2>5, <2>8, <4>1 DEF History
      <4> QED
        BY <2>8, <4>1, <4>2, FreshIsMeant
    <3>2. Analysis(u) \/ Approval(u)
      BY <2>1, <3>1 DEF OneOfTwo
    <3>3. ~(Ahead(u, "")' /\ ~Begun(u, "analyze")')
      <4>1. Ahead(u, "")' => Ahead(u, "")
        BY <2>2, <2>4
      <4> QED
        BY <2>6, <3>2, <4>1 DEF Analysis, Approval, Answered
    <3>4. ASSUME Ahead(u, "AwaitingApproval")', ~Begun(u, "remediate")'
          PROVE  objects'[u].phase = "AwaitingApproval"
      <4>1. Analysis(u)
        BY <2>6, <3>2, <3>4 DEF Approval
      <4>2. objects[u].phase = ""
        BY <1>1, <2>1, <2>5, <3>1, <4>1 DEF Analysis
      <4>3. ~Ahead(u, "AwaitingApproval")
        BY <4>2, AheadInOrder DEF History
      <4> QED
        BY <2>4, <2>8, <3>4, <4>3
    <3> QED
      BY <2>1, <3>3, <3>4
  <2> QED
    BY <2>7, <2>8
<1>8. CASE PatchFails
  <2>1. pc' = "idle" /\ UNCHANGED <<objects, stream, processed>>
    BY <1>8, PatchFailsMoves
  <2> QED
    BY <1>1, <1>2, <2>1, StandingLeaves, AheadStays
<1>9. CASE Restart
  <2>1. pc' = "idle" /\ UNCHANGED objects
    BY <1>9, RestartMoves
  <2>2. \A p : Ahead(u, p)' => objects[u].phase = p
    BY <1>9, AheadListed
  <2> QED
    BY <2>1, <2>2
<1>10. CASE UNCHANGED vars
  <2>1. UNCHANGED <<objects, stream, processed, pc, cr>>
    BY <1>10 DEF vars, handler
  <2> QED
    BY <1>1, <1>2, <2>1, StandingLeaves, AheadStays
<1> QED
  BY <1>4, <1>5, <1>6, <1>7, <1>8, <1>9, <1>10 DEF Next, OperatorStep

------------------------------------------------------------------------------
(* Proposals. *)

\* The only live request of a name.
LEMMA OnlyLive ==
  ASSUME Typed, OneLive, NEW u \in LiveUids, NEW v \in LiveUids, objects[u].name = objects[v].name
  PROVE  u = v
<1>1. u \in DOMAIN objects /\ v \in DOMAIN objects /\ u \in Nat /\ v \in Nat
  BY DEF LiveUids, Typed, TypeOK
<1>2. ~(u < v) /\ ~(v < u)
  BY <1>1 DEF OneLive, LiveUids
<1> QED
  BY <1>1, <1>2

\* A change of request w by a user brings no proposal, and an event without a phase
\* only of a name none of whose bearers has one.
LEMMA UsersKeepProposals ==
  ASSUME Typed, OneLive, OneProposal, Users
  PROVE  OneProposal'
<1>1. UNCHANGED <<processed, handler>> /\ (Working' <=> Working)
  BY UsersEmit DEF Working, handler
<1>2. CASE UNCHANGED <<objects, stream>>
  BY <1>1, <1>2, AheadStays DEF OneProposal, ProposalsShow, NobodyHasOneYet, Begun, handler
<1>3. ASSUME NEW w, DOMAIN objects' = DOMAIN objects \cup {w},
             \A v \in DOMAIN objects : /\ objects'[v].name = objects[v].name
                                       /\ objects'[v].phase = objects[v].phase
                                       /\ objects'[v].proposal = objects[v].proposal
                                       /\ objects'[v].live => objects[v].live,
             w \notin DOMAIN objects => objects'[w].proposal = None,
             \A v \in LiveUids :
               v # w /\ objects'[w].phase = "" => objects[v].name # objects'[w].name,
             stream' = Append(stream, [uid |-> w, object |-> objects'[w]])
      PROVE  OneProposal'
  <2>1. \A v, p : Ahead(v, p)' <=> Ahead(v, p) \/ (v = w /\ p = objects'[w].phase)
    BY <1>3, AheadNotified DEF Typed
  <2>2. ASSUME NEW u \in DOMAIN objects', objects'[u].proposal # None
        PROVE  /\ objects'[u].phase # ""
               /\ objects'[u].live /\ ~Begun(u, "analyze")' =>
                    \A v \in DOMAIN objects' :
                      objects'[v].name = objects'[u].name => ~Ahead(v, "")'
    <3>1. u \in DOMAIN objects /\ objects[u].proposal # None
      BY <1>3, <2>2
    <3>2. objects'[u].phase # ""
      BY <1>3, <3>1 DEF OneProposal, ProposalsShow
    <3>3. ASSUME objects'[u].live, ~Begun(u, "analyze")', NEW v \in DOMAIN objects',
                 objects'[v].name = objects'[u].name, Ahead(v, "")'
          PROVE  FALSE
      <4>1. objects[u].live /\ ~Begun(u, "analyze") /\ u \in LiveUids
        BY <1>1, <1>3, <3>1, <3>3 DEF Begun, LiveUids
      <4>2. CASE Ahead(v, "")
        <5>1. v \in DOMAIN objects
          BY <4>2, AheadExists
        <5>2. objects[v].name = objects[u].name
          BY <1>3, <3>1, <3>3, <5>1
        <5> QED
          BY <3>1, <4>1, <4>2, <5>1, <5>2 DEF OneProposal, ProposalsShow
      <4>3. CASE v = w /\ objects'[w].phase = ""
        <5>1. u # w
          BY <3>2, <4>3
        <5>2. objects[u].name = objects'[w].name
          BY <1>3, <3>1, <3>3, <4>3
        <5> QED
          BY <1>3, <4>1, <4>3, <5>1, <5>2
      <4> QED
        BY <2>1, <3>3, <4>2, <4>3
    <3> QED
      BY <3>2, <3>3
  <2>3. NobodyHasOneYet'
    BY <1>1, <1>3 DEF OneProposal, NobodyHasOneYet, handler
  <2> QED
    BY <2>2, <2>3 DEF OneProposal, ProposalsShow
<1>4. CASE Create
  <2> DEFINE n == Len(objects) + 1
  <2>1. /\ objects' \in Seq(Object) /\ Len(objects') = n
        /\ \A v \in DOMAIN objects : objects'[v] = objects[v]
        /\ objects'[n].proposal = None
        /\ \A v \in LiveUids : objects[v].name # objects'[n].name
        /\ stream' = Append(stream, [uid |-> n, object |-> objects'[n]])
    BY <1>4, CreateChanges
  <2>2. Len(objects) \in Nat /\ DOMAIN objects = 1 .. Len(objects) /\ DOMAIN objects' = 1 .. n
    BY <2>1, LenProperties DEF Typed, TypeOK
  <2>3. DOMAIN objects' = DOMAIN objects \cup {n}
    BY <2>2
  <2> HIDE DEF n
  <2> QED
    BY <1>3, <2>1, <2>3
<1>5. CASE \E u \in LiveUids : Edit(u) \/ Delete(u)
  <2>1. PICK u \in LiveUids : Edit(u) \/ Delete(u)
    BY <1>5
  <2>2. /\ DOMAIN objects' = DOMAIN objects /\ u \in DOMAIN objects
        /\ \A v \in DOMAIN objects : /\ objects'[v].name = objects[v].name
                                     /\ objects'[v].phase = objects[v].phase
                                     /\ objects'[v].proposal = objects[v].proposal
                                     /\ objects'[v].live => objects[v].live
        /\ stream' = Append(stream, [uid |-> u, object |-> objects'[u]])
    BY <2>1, ChangeChanges
  <2>3. \A v \in LiveUids : v # u => objects[v].name # objects'[u].name
    BY <2>2, OnlyLive
  <2> QED
    BY <1>3, <2>2, <2>3
<1>6. CASE ChangePolicies
  BY <1>2, <1>6 DEF ChangePolicies
<1> QED
  BY <1>4, <1>5, <1>6 DEF Users

\* Decoding leaves the requests alone, and an analysis that begins finds no
\* proposal on a request of its name.
LEMMA BeginsKeepProposals ==
  ASSUME Typed, OneProposal, Ignore \/ BeginAnalysis \/ BeginApproved
  PROVE  OneProposal'
<1>1. Decode /\ UNCHANGED objects /\ processed \subseteq processed'
  BY IgnoreMoves, BeginAnalysisMoves, BeginApprovedMoves
<1>2. \A v, p : Ahead(v, p)' => Ahead(v, p)
  BY <1>1, AheadDecoded
<1>3. ProposalsShow'
  BY <1>1, <1>2 DEF OneProposal, ProposalsShow, Begun
<1>4. CASE Ignore \/ BeginApproved
  <2>1. ~Working'
    BY <1>4, IgnoreMoves, BeginApprovedMoves
    DEF Working, BeginApproved, Send, Start
  <2> QED
    BY <1>3, <2>1 DEF OneProposal, NobodyHasOneYet
<1>5. CASE BeginAnalysis
  <2>1. /\ Head(stream).object.phase = "" /\ cr' = Head(stream)
        /\ <<Head(stream).object.name, "analyze">> \notin processed
        /\ processed' = processed \cup {<<Head(stream).object.name, "analyze">>}
    BY <1>5, BeginAnalysisMoves
  <2>2. /\ Ahead(Head(stream).uid, "") /\ Head(stream).uid \in DOMAIN objects
        /\ Head(stream).object.name = objects[Head(stream).uid].name
    BY <1>1, <2>1, DecodedWasAhead, DecodeTyped
  <2>3. ASSUME NEW u \in DOMAIN objects, objects[u].live,
               objects[u].name = Head(stream).object.name
        PROVE  objects[u].proposal = None
    <3>1. ~Begun(u, "analyze")
      BY <2>1, <2>3 DEF Begun
    <3> QED
      BY <2>2, <2>3, <3>1 DEF OneProposal, ProposalsShow
  <2> QED
    BY <1>1, <1>3, <2>1, <2>3 DEF OneProposal, NobodyHasOneYet
<1> QED
  BY <1>4, <1>5

\* What comes of an analysis is still about the name nobody else bears.
LEMMA AnswersKeepProposals ==
  ASSUME Typed, OneProposal, AnalysisFails \/ Analyzed \/ Consult \/ RunSucceeds \/ RunFails
  PROVE  OneProposal'
<1>1. UNCHANGED <<objects, stream, processed>> /\ cr'.object.name = cr.object.name
  BY AnalysisMoves, RunMoves
<1>2. ProposalsShow'
  BY <1>1, AheadStays DEF OneProposal, ProposalsShow, Begun
<1>3. Working' => Working
  <2>1. CASE AnalysisFails \/ Analyzed \/ Consult
    BY <2>1, AnalysisMoves DEF Working
  <2>2. CASE RunSucceeds \/ RunFails
    <3>1. pc = "run" /\ pc' = "patch" /\ status'.proposal = Carried
      BY <2>2 DEF RunSucceeds, RunFails, Send
    <3> QED
      BY <3>1 DEF Working, Carried
  <2> QED
    BY <2>1, <2>2
<1> QED
  BY <1>1, <1>2, <1>3 DEF OneProposal, NobodyHasOneYet

LEMMA PatchKeepsProposals ==
  ASSUME Typed, OneProposal, PatchLands
  PROVE  OneProposal'
<1>1. PICK w \in LiveUids :
         /\ objects[w].name = cr.object.name
         /\ DOMAIN objects' = DOMAIN objects /\ w \in DOMAIN objects
         /\ \A v \in DOMAIN objects : /\ objects'[v].name = objects[v].name
                                      /\ objects'[v].live = objects[v].live
                                      /\ v # w => objects'[v] = objects[v]
         /\ objects'[w].phase = status.phase /\ status.phase \in Phases \ {""}
         /\ objects'[w].proposal \in {objects[w].proposal, status.proposal}
         /\ stream' = Append(stream, [uid |-> w, object |-> objects'[w]])
  BY PatchChanges
<1>2. pc = "patch" /\ pc' = "idle" /\ UNCHANGED processed
  BY PatchEmits
<1>3. \A v : Ahead(v, "")' => Ahead(v, "")
  BY <1>1, AheadNotified DEF Typed
<1>4. ASSUME NEW u \in DOMAIN objects', objects'[u].proposal # None
      PROVE  /\ objects'[u].phase # ""
             /\ objects'[u].live /\ ~Begun(u, "analyze")' =>
                  \A v \in DOMAIN objects' :
                    objects'[v].name = objects'[u].name => ~Ahead(v, "")'
  <2>1. objects'[u].phase # ""
    BY <1>1, <1>4 DEF OneProposal, ProposalsShow
  <2>2. CASE objects[u].proposal # None
    <3> SUFFICES ASSUME objects'[u].live, ~Begun(u, "analyze")',
                        NEW v \in DOMAIN objects', objects'[v].name = objects'[u].name
                 PROVE  ~Ahead(v, "")'
      BY <2>1
    <3>1. objects[u].live /\ objects[v].name = objects[u].name
      BY <1>1
    <3>2. ~Begun(u, "analyze")
      BY <1>1, <1>2 DEF Begun
    <3>3. ~Ahead(v, "")
      BY <1>1, <2>2, <3>1, <3>2 DEF OneProposal, ProposalsShow
    <3> QED
      BY <1>3, <3>3
  <2>3. CASE objects[u].proposal = None
    <3>1. u = w /\ status.proposal # None
      BY <1>1, <1>4, <2>3
    <3>2. <<cr.object.name, "analyze">> \in processed
      BY <1>2, <3>1 DEF OneProposal, NobodyHasOneYet, Working
    <3>3. Begun(u, "analyze")'
      BY <1>1, <1>2, <3>1, <3>2 DEF Begun
    <3> QED
      BY <2>1, <3>3
  <2> QED
    BY <2>2, <2>3
<1>5. ~Working'
  BY <1>2 DEF Working
<1> QED
  BY <1>4, <1>5 DEF OneProposal, ProposalsShow, NobodyHasOneYet

LEMMA RestartKeepsProposals ==
  ASSUME Typed, OneLive, OneProposal, Restart
  PROVE  OneProposal'
<1>1. pc' = "idle" /\ UNCHANGED objects
  BY RestartMoves
<1>2. ASSUME NEW u \in DOMAIN objects, objects[u].proposal # None, objects[u].live,
             NEW v \in DOMAIN objects, objects[v].name = objects[u].name
      PROVE  ~Ahead(v, "")'
  <2>1. objects[u].phase # ""
    BY <1>2 DEF OneProposal, ProposalsShow
  <2>2. Ahead(v, "")' => v \in LiveUids /\ objects[v].phase = ""
    BY AheadListed DEF LiveUids
  <2> QED
    BY <1>2, <2>1, <2>2, OnlyLive DEF LiveUids
<1>3. ProposalsShow'
  BY <1>1, <1>2 DEF OneProposal, ProposalsShow
<1> QED
  BY <1>1, <1>3 DEF OneProposal, NobodyHasOneYet, Working

\* A request that has a proposal is never sent another.
LEMMA OneProposalKept ==
  Typed /\ History /\ OneProposal /\ [Next]_vars => OneProposal'
<1> SUFFICES ASSUME Typed, History, OneProposal, [Next]_vars PROVE OneProposal'
  OBVIOUS
<1>1. CASE PatchFails
  <2>1. pc' = "idle" /\ UNCHANGED <<objects, stream, processed>>
    BY <1>1, PatchFailsMoves
  <2> QED
    BY <2>1, AheadStays DEF OneProposal, ProposalsShow, NobodyHasOneYet, Begun, Working
<1>2. CASE UNCHANGED vars
  <2>1. UNCHANGED <<objects, stream, processed, pc, cr, todo, status>>
    BY <1>2 DEF vars, handler
  <2> QED
    BY <2>1, AheadStays DEF OneProposal, ProposalsShow, NobodyHasOneYet, Begun, Working
<1> QED
  BY <1>1, <1>2, UsersKeepProposals, BeginsKeepProposals, AnswersKeepProposals,
     PatchKeepsProposals, RestartKeepsProposals
  DEF History, Next, OperatorStep

------------------------------------------------------------------------------
(* The ceiling. *)

LEMMA RankTyped == ASSUME NEW risk PROVE Rank(risk) \in Int
BY DEF Rank

\* Only what an allow rule covers runs above the ceiling of a proposal.
LEMMA CeilingKept ==
  Typed /\ AutoRunsStayBelowCeiling /\ [Next]_vars => AutoRunsStayBelowCeiling'
<1> SUFFICES ASSUME Typed, AutoRunsStayBelowCeiling, [Next]_vars
             PROVE  AutoRunsStayBelowCeiling'
  OBVIOUS
<1>1. CASE Consult
  <2> DEFINE action == EffectiveAction(cr.object)
  <2>1. PICK labels \in NamespaceLabels :
          \E decision \in {"unread", Overlay(cr.object.spec, action, labels)} :
            IF \/ decision \in {"deny", "requires-approval"}
               \/ /\ decision # "allow" /\ cr.object.spec.pinned = None
                  /\ ~CanAutoApply(cr.object.spec, action)
              THEN Send("AwaitingApproval", cr.object.proposal)
              ELSE Start(action, "auto", decision, labels) /\ UNCHANGED status
    BY <1>1 DEF Consult
  <2>2. cr' = cr
    BY <1>1 DEF Consult
  <2> HIDE DEF action
  <2>3. CASE Send("AwaitingApproval", cr.object.proposal)
    BY <2>3 DEF Send, AutoRunsStayBelowCeiling
  <2>4. ASSUME NEW decision, Start(action, "auto", decision, labels),
               \/ decision = "allow" \/ cr.object.spec.pinned # None
               \/ CanAutoApply(cr.object.spec, action)
        PROVE  AutoRunsStayBelowCeiling'
    <3>1. todo'.action = action /\ todo'.decision = decision
      BY <2>4 DEF Start
    <3>2. CanAutoApply(cr.object.spec, action)
            => Rank(RiskOf(action)) <= Rank(cr.object.spec.ceiling)
      BY DEF CanAutoApply
    <3>3. /\ Rank(RiskOf(action)) \in Int /\ Rank(cr.object.spec.ceiling) \in Int
      <4>1. action \in CatalogActions /\ cr.object.spec.ceiling \in Risks
        BY <1>1 DEF action, Consult, Typed, Holding, Event, Object, Spec_
      <4> QED
        BY <4>1, RankTyped
    <3> QED
      BY <2>2, <2>4, <3>1, <3>2, <3>3 DEF AutoRunsStayBelowCeiling
  <2> QED
    BY <2>1, <2>3, <2>4
<1>2. CASE BeginApproved
  BY <1>2, BeginApprovedMoves DEF AutoRunsStayBelowCeiling
<1>3. CASE UNCHANGED <<pc, cr, todo>>
  BY <1>3 DEF AutoRunsStayBelowCeiling
<1>4. CASE pc' # "run"
  BY <1>4 DEF AutoRunsStayBelowCeiling
<1>5. CASE AnalysisFails \/ Analyzed
  BY <1>4, <1>5 DEF AnalysisFails, Analyzed, Send
<1> QED
  BY <1>1, <1>2, <1>3, <1>4, <1>5, UsersEmit, IgnoreMoves, BeginAnalysisMoves, RunMoves,
     PatchEmits, PatchFailsMoves, RestartMoves
  DEF Next, OperatorStep, vars, handler

------------------------------------------------------------------------------
(* The theorems. *)

LEMMA InitInv == Init => OperatorInv
<1> SUFFICES ASSUME Init PROVE OperatorInv
  OBVIOUS
<1>1. objects = <<>> /\ DOMAIN objects = {} /\ stream = <<>> /\ DOMAIN stream = {}
  BY DEF Init
<1>2. /\ pc = "idle" /\ ran = [u \in Uids |-> 0] /\ touched = {}
  BY DEF Init
<1>3. History
  BY <1>1, <1>2
  DEF History, OneLive, UnbornUntouched, PhasesAppear, AnalyzedBeforeWaiting
<1>4. /\ OneOfTwo /\ TouchedAreSpent /\ FreshIsCurrent /\ OneProposal
      /\ AutoRunsStayBelowCeiling
  BY <1>1, <1>2 DEF OneOfTwo, TouchedAreSpent, FreshIsCurrent, OneProposal, ProposalsShow,
                    NobodyHasOneYet, Working, AutoRunsStayBelowCeiling
<1> QED
  BY <1>3, <1>4, InitTyped DEF OperatorInv

LEMMA InvKept == OperatorInv /\ [Next]_vars => OperatorInv'
<1> SUFFICES ASSUME OperatorInv, [Next]_vars PROVE OperatorInv'
  OBVIOUS
<1>1. /\ Typed /\ History /\ OneOfTwo /\ TouchedAreSpent /\ FreshIsCurrent
      /\ OneProposal /\ AutoRunsStayBelowCeiling
  BY DEF OperatorInv
<1>2. History'
  <2>1. CASE UNCHANGED vars
    BY <1>1, <2>1, HistoryStays DEF vars, History, UnbornUntouched
  <2> QED
    BY <1>1, <2>1, UsersKeepHistory, BeginsKeepHistory, RunsKeepHistory, PatchKeepsHistory,
       RestartKeepsHistory DEF Next, OperatorStep
<1> QED
  BY <1>1, <1>2, NextTyped, OneOfTwoKept, TouchedAreSpentKept, FreshIsCurrentKept,
     OneProposalKept, CeilingKept
  DEF OperatorInv

LEMMA Inductive == Spec => []OperatorInv
BY InitInv, InvKept, PTL DEF Spec

\* The workload of a request is touched at most once in the life of an operator:
\* `processed` and the order of the stream together suffice, although the patch
\* that should record the run may be lost and the name may be reused.
THEOREM TouchedOncePerLife == Spec => OncePerOperatorLife
<1>1. OperatorInv /\ [Next]_vars => [\A u \in touched : ran'[u] = ran[u]]_vars
  <2> SUFFICES ASSUME OperatorInv, Next, NEW u \in touched PROVE ran'[u] = ran[u]
    OBVIOUS
  <2>1. Typed /\ u \in Uids /\ Spent(u)
    BY DEF OperatorInv, TouchedAreSpent, Typed, TypeOK
  <2>2. pc = "run" => cr.uid # u
    BY <2>1 DEF Spent
  <2>3. CASE Restart \/ RunSucceeds \/ RunFails
    BY <2>1, <2>2, <2>3, RestartMoves, RunMoves
  <2>4. CASE ~Restart /\ ~RunSucceeds /\ ~RunFails
    BY <2>1, <2>4, UsersEmit, IgnoreMoves, BeginAnalysisMoves, BeginApprovedMoves,
       AnalysisMoves, PatchEmits, PatchFailsMoves DEF Next, OperatorStep
  <2> QED
    BY <2>3, <2>4
<1> QED
  BY <1>1, Inductive, PTL DEF Spec, OncePerOperatorLife

\* No request that has a proposal is sent another (patchStatus).
THEOREM NoMixedProposals == Spec => []ProposalsAreNotMixed
<1>1. OperatorInv => ProposalsAreNotMixed
  BY DEF OperatorInv, OneProposal, NobodyHasOneYet, Working, ProposalsAreNotMixed, LiveUids
<1> QED
  BY <1>1, Inductive, PTL

\* What runs automatically above spec.maxAutoRisk of its request was allowed by
\* a policy (applyUnderAutoRemediate).
THEOREM CeilingIsKept == Spec => []AutoRunsStayBelowCeiling
<1>1. OperatorInv => AutoRunsStayBelowCeiling
  BY DEF OperatorInv
<1> QED
  BY <1>1, Inductive, PTL

\* What runs automatically, after a look at the policies, was neither denied nor
\* kept for an approval by any of them that covers the namespace as it was read,
\* unless the whitelist of the request overrode a deny (consultApprovalPolicies,
\* EvaluatePolicies).
THEOREM PoliciesBind == Spec => PoliciesAreHonored
<1> DEFINE Honored ==
      pc = "consult" /\ pc' = "run" /\ todo'.decision # "unread" =>
        LET voted == Voted(policies, todo'.labels, todo'.action)
        IN  \/ voted \subseteq {"allow"}
            \/ "deny" \in voted /\ todo'.action \in cr.object.spec.allowed
<1>1. ASSUME Consult, pc' = "run", todo'.decision # "unread" PROVE Honored
  <2> DEFINE action == EffectiveAction(cr.object)
             spec == cr.object.spec
  <2>1. PICK labels \in NamespaceLabels :
          \E decision \in {"unread", Overlay(spec, action, labels)} :
            /\ decision \notin {"deny", "requires-approval"}
            /\ todo'.action = action /\ todo'.decision = decision /\ todo'.labels = labels
    BY <1>1 DEF Consult, Send, Start
  <2> HIDE DEF action
  <2>2. /\ todo'.action = action /\ todo'.labels = labels
        /\ Overlay(spec, action, labels) \notin {"deny", "requires-approval"}
    BY <1>1, <2>1
  <2> DEFINE voted == Voted(policies, labels, action)
  <2>3. voted \subseteq {"deny", "requires-approval", "allow"}
    BY DEF Voted, Decisions
  <2>4. \/ voted \subseteq {"allow"}
        \/ "deny" \in voted /\ action \in spec.allowed
    <3>1. Overlay(spec, action, labels) =
            IF EvaluatePolicies(policies, labels, action) = "deny" /\ action \in spec.allowed
              THEN "none" ELSE EvaluatePolicies(policies, labels, action)
      BY DEF Overlay
    <3>2. EvaluatePolicies(policies, labels, action) =
            IF "deny" \in voted THEN "deny"
            ELSE IF "requires-approval" \in voted THEN "requires-approval"
            ELSE IF "allow" \in voted THEN "allow" ELSE "none"
      BY DEF EvaluatePolicies
    <3> HIDE DEF voted
    <3> QED
      BY <2>2, <2>3, <3>1, <3>2
  <2> QED
    BY <2>2, <2>4
<1>2. Typed /\ [Next]_vars => [Honored]_vars
  BY <1>1, UsersEmit, IgnoreMoves, BeginAnalysisMoves, BeginApprovedMoves, RunMoves,
     PatchEmits, PatchFailsMoves, RestartMoves
  DEF Next, OperatorStep, AnalysisFails, Analyzed, Send, handler
<1> QED
  BY <1>2, AlwaysTyped, PTL DEF Spec, PoliciesAreHonored

------------------------------------------------------------------------------
(* The lifecycle of a request with a name of its own. *)

Touched(u) == IF Counts(u) THEN ran[u] ELSE 0

phaseMap == [u \in Uids |-> Shown(u)]
effectsMap == [u \in Uids |-> Touched(u)]

\* What may happen to one request, as its watcher sees it.
SubmitSeen(u) == Shown(u) = "absent" /\ Shown(u)' = "Pending" /\ Touched(u)' = Touched(u)

AnswerSeen(u) ==
  /\ Shown(u) = "Pending" /\ Touched(u)' = Touched(u)
  /\ Shown(u)' \in Lifecycle!Finished \cup {"AwaitingApproval"}

SettleSeen(u) ==
  /\ Shown(u) = "AwaitingApproval" /\ Touched(u)' = Touched(u)
  /\ Shown(u)' \in {"Remediated", "Failed"}

ActSeen(u) ==
  /\ Shown(u) \in {"Pending", "AwaitingApproval"} /\ Shown(u)' = Shown(u)
  /\ Touched(u)' = Touched(u) + 1

StaysSeen(u) == Shown(u)' = Shown(u) /\ Touched(u)' = Touched(u)

\* A step of one request alone is a step of the lifecycle.
LEMMA SeenMaps ==
  ASSUME NEW w \in Uids, \A u \in Uids \ {w} : StaysSeen(u),
         \/ SubmitSeen(w) \/ AnswerSeen(w) \/ SettleSeen(w) \/ ActSeen(w) \/ StaysSeen(w)
  PROVE  [Lifecycle!Next]_<<phaseMap, effectsMap>>
<1>1. /\ phaseMap' = [phaseMap EXCEPT ![w] = Shown(w)']
      /\ effectsMap' = [effectsMap EXCEPT ![w] = Touched(w)']
      /\ phaseMap[w] = Shown(w) /\ effectsMap[w] = Touched(w)
  <2>1. \A u \in Uids \ {w} : Shown(u)' = Shown(u) /\ Touched(u)' = Touched(u)
    BY DEF StaysSeen
  <2> QED
    BY <2>1 DEF phaseMap, effectsMap
<1>2. Touched(w)' = Touched(w) => UNCHANGED effectsMap
  BY <1>1 DEF effectsMap
<1>3. Shown(w)' = Shown(w) => UNCHANGED phaseMap
  BY <1>1 DEF phaseMap
<1>4. CASE SubmitSeen(w)
  BY <1>1, <1>2, <1>4 DEF SubmitSeen, Lifecycle!Next, Lifecycle!Submit, phaseMap, effectsMap, Touched
<1>5. CASE AnswerSeen(w)
  BY <1>1, <1>2, <1>5
  DEF AnswerSeen, Lifecycle!Next, Lifecycle!Answer, Lifecycle!Finished, phaseMap, effectsMap,
      Touched
<1>6. CASE SettleSeen(w)
  BY <1>1, <1>2, <1>6
  DEF SettleSeen, Lifecycle!Next, Lifecycle!Settle, phaseMap, effectsMap, Touched
<1>7. CASE ActSeen(w)
  BY <1>1, <1>3, <1>7
  DEF ActSeen, Lifecycle!Next, Lifecycle!Act, phaseMap, effectsMap, Touched
<1>8. CASE StaysSeen(w)
  BY <1>2, <1>3, <1>8 DEF StaysSeen
<1> QED
  BY <1>4, <1>5, <1>6, <1>7, <1>8

LEMMA Made ==
  ASSUME objects \in Seq(Object), Len(objects) <= MaxObjects
  PROVE  /\ DOMAIN objects \subseteq Uids
         /\ DOMAIN objects = 1 .. Len(objects) /\ Len(objects) \in Nat
BY BoundsAssumption DEF Uids

LEMMA CountsAs ==
  ASSUME Typed, NEW u \in Uids
  PROVE  Counts(u) <=> u \in DOMAIN objects /\ Fresh(u)
BY DEF Typed, TypeOK, Counts, Uids

\* A request that is left alone shows what it showed.
LEMMA StaysAsItIs ==
  ASSUME Typed, Typed', NEW u \in Uids,
         \A v \in DOMAIN objects : objects'[v].name = objects[v].name,
         u \in DOMAIN objects <=> u \in DOMAIN objects',
         u \in DOMAIN objects => objects'[u].phase = objects[u].phase
  PROVE  /\ Counts(u)' <=> Counts(u)
         /\ Shown(u)' = Shown(u)
<1>1. u \in DOMAIN objects => (Fresh(u)' <=> Fresh(u))
  BY FreshStays
<1>2. Counts(u) <=> u \in DOMAIN objects /\ Fresh(u)
  BY CountsAs
<1>3. Counts(u)' <=> u \in DOMAIN objects' /\ Fresh(u)'
  <2>1. Len(objects') \in Nat /\ DOMAIN objects' = 1 .. Len(objects') /\ u \in Nat \ {0}
    BY DEF Typed, TypeOK, Uids
  <2> QED
    BY <2>1 DEF Counts
<1>4. Counts(u)' <=> Counts(u)
  BY <1>1, <1>2, <1>3
<1> QED
  BY <1>2, <1>4 DEF Shown

LEMMA UsersRefine ==
  ASSUME OperatorInv, Typed', Users
  PROVE  [Lifecycle!Next]_<<phaseMap, effectsMap>>
<1>1. Typed /\ UNCHANGED ran
  BY UsersEmit DEF OperatorInv
<1>2. CASE UNCHANGED objects
  BY <1>2, <1>1 DEF phaseMap, effectsMap, Shown, Touched, Counts, Fresh
<1>3. ASSUME NEW w \in DOMAIN objects', Emits(w),
             w \in DOMAIN objects => objects'[w].phase = objects[w].phase,
             w \notin DOMAIN objects => objects'[w].phase = ""
      PROVE  [Lifecycle!Next]_<<phaseMap, effectsMap>>
  <2>1. /\ DOMAIN objects' = DOMAIN objects \cup {w}
        /\ \A v \in DOMAIN objects : /\ objects'[v].name = objects[v].name
                                     /\ v # w => objects'[v].phase = objects[v].phase
    BY <1>3 DEF Emits
  <2>2. w \in Uids
    BY BoundsAssumption DEF Typed, TypeOK, Uids
  <2>3. \A u \in Uids \ {w} : StaysSeen(u)
    BY <1>1, <2>1, StaysAsItIs DEF StaysSeen, Touched
  <2>4. CASE w \in DOMAIN objects
    <3>1. StaysSeen(w)
      BY <1>1, <1>3, <2>1, <2>2, <2>4, StaysAsItIs DEF StaysSeen, Touched
    <3> QED
      BY <2>2, <2>3, <3>1, SeenMaps
  <2>5. CASE w \notin DOMAIN objects
    <3>1. Shown(w) = "absent" /\ Touched(w) = 0
      BY <1>1, <2>2, <2>5, CountsAs DEF Shown, Touched
    <3>2. Shown(w)' \in {"absent", "Pending"}
      BY <1>3, <2>5 DEF Shown
    <3>3. Touched(w)' = 0
      BY <1>1, <2>2, <2>5 DEF Touched, OperatorInv, History, UnbornUntouched
    <3>4. SubmitSeen(w) \/ StaysSeen(w)
      BY <3>1, <3>2, <3>3 DEF SubmitSeen, StaysSeen
    <3> QED
      BY <2>2, <2>3, <3>4, SeenMaps
  <2> QED
    BY <2>4, <2>5
<1> QED
  BY <1>1, <1>2, <1>3, UsersEmit

\* A remediation is run for a request that is not finished.
LEMMA RunRefines ==
  ASSUME OperatorInv, pc = "run", UNCHANGED objects, NEW w \in Uids, w = cr.uid,
         \A v \in Uids : ran'[v] = ran[v] \/ (v = w /\ ran'[v] = ran[v] + 1)
  PROVE  [Lifecycle!Next]_<<phaseMap, effectsMap>>
<1>1. \A u \in Uids : (Counts(u)' <=> Counts(u)) /\ Shown(u)' = Shown(u)
  BY DEF Counts, Shown, Fresh
<1>2. \A u \in Uids \ {w} : StaysSeen(u)
  BY <1>1 DEF StaysSeen, Touched
<1>3. ActSeen(w) \/ StaysSeen(w)
  <2>1. CASE ~Counts(w) \/ ran'[w] = ran[w]
    BY <1>1, <2>1 DEF StaysSeen, Touched
  <2>2. CASE Counts(w) /\ ran'[w] = ran[w] + 1
    <3>1. w \in DOMAIN objects /\ Fresh(w) /\ Typed
      BY <2>2, CountsAs DEF OperatorInv
    <3>2. objects[w].phase = cr.object.phase
      BY <3>1 DEF OperatorInv, FreshIsCurrent
    <3>3. Analysis(w) \/ Approval(w)
      BY DEF OperatorInv, OneOfTwo
    <3>4. objects[w].phase \in {"", "AwaitingApproval"}
      BY <3>2, <3>3 DEF Analysis, Approval
    <3>5. Shown(w) \in {"Pending", "AwaitingApproval"}
      BY <2>2, <3>4 DEF Shown
    <3> QED
      BY <1>1, <2>2, <3>5 DEF ActSeen, Touched
  <2> QED
    BY <2>1, <2>2
<1> QED
  BY <1>2, <1>3, SeenMaps

\* A patch reaches the request it was meant for, and only advances it, or a
\* request of a reused name.
LEMMA PatchRefines ==
  ASSUME OperatorInv, Typed', PatchLands
  PROVE  [Lifecycle!Next]_<<phaseMap, effectsMap>>
<1>1. Typed /\ pc = "patch" /\ UNCHANGED ran
  BY PatchEmits DEF OperatorInv
<1>2. PICK w \in LiveUids : /\ Emits(w) /\ w \in DOMAIN objects
                            /\ objects[w].name = cr.object.name
                            /\ DOMAIN objects' = DOMAIN objects
                            /\ objects'[w].phase = status.phase
                            /\ status.phase # ""
  BY <1>1, PatchEmits
<1>3. \A v \in DOMAIN objects : /\ objects'[v].name = objects[v].name
                                /\ v # w => objects'[v].phase = objects[v].phase
  BY <1>2 DEF Emits
<1>4. w \in Uids
  BY <1>1, <1>2, Made DEF Typed, TypeOK
<1>5. \A u \in Uids \ {w} : StaysSeen(u)
  BY <1>1, <1>2, <1>3, StaysAsItIs DEF StaysSeen, Touched
<1>6. Fresh(w)' <=> Fresh(w)
  BY <1>1, <1>2, <1>3, FreshStays
<1>7. Counts(w) => Counts(w)'
  <2>1. /\ DOMAIN objects = 1 .. Len(objects) /\ Len(objects) \in Nat
        /\ DOMAIN objects' = 1 .. Len(objects') /\ Len(objects') \in Nat
    BY <1>1 DEF Typed, TypeOK
  <2>2. w \in 1 .. Len(objects')
    BY <1>2, <2>1, Zenon
  <2>3. w <= Len(objects')
    BY <2>1, <2>2
  <2> QED
    BY <1>6, <2>3 DEF Counts
<1>8. Counts(w)' <=> Counts(w)
  <2>1. Counts(w) <=> w \in DOMAIN objects /\ Fresh(w)
    BY <1>1, <1>4, CountsAs
  <2>2. Counts(w)' => Fresh(w)'
    BY DEF Counts
  <2> QED
    BY <1>2, <1>6, <1>7, <2>1, <2>2
<1>9. AnswerSeen(w) \/ SettleSeen(w) \/ StaysSeen(w)
  <2>1. CASE ~Counts(w)
    BY <1>8, <2>1 DEF StaysSeen, Shown, Touched
  <2>2. CASE Counts(w)
    <3>1. cr.uid = w
      <4>1. /\ cr.uid \in DOMAIN objects /\ cr.object.name = objects[cr.uid].name
            /\ Fresh(w) /\ OneLive
        BY <1>1, <1>4, <2>2, InHand, CountsAs DEF OperatorInv, History
      <4>2. objects[w].name = objects[cr.uid].name
        BY <1>2, <4>1
      <4> QED
        BY <1>1, <4>1, <4>2, FreshIsMeant
    <3>2. objects[w].phase = cr.object.phase
      BY <1>1, <1>2, <1>4, <2>2, <3>1, CountsAs DEF OperatorInv, FreshIsCurrent
    <3>3. Analysis(w) \/ Approval(w)
      BY <1>1, <1>4, <3>1 DEF OperatorInv, OneOfTwo
    <3>4. status.phase \in Phases \ {""}
      BY <1>1, <1>2 DEF Typed, Holding, Patch
    <3>5. /\ Shown(w)' = status.phase /\ Touched(w)' = Touched(w)
          /\ Shown(w) = IF objects[w].phase = "" THEN "Pending" ELSE objects[w].phase
      BY <1>1, <1>2, <1>8, <2>2 DEF Shown, Touched
    <3>6. CASE Analysis(w)
      BY <3>2, <3>4, <3>5, <3>6 DEF Analysis, AnswerSeen, Lifecycle!Finished, Phases
    <3>7. CASE Approval(w)
      BY <1>1, <3>2, <3>5, <3>7 DEF Approval, SettleSeen
    <3> QED
      BY <3>3, <3>6, <3>7
  <2> QED
    BY <2>1, <2>2
<1> QED
  BY <1>4, <1>5, <1>9, SeenMaps

LEMMA StepRefines ==
  OperatorInv /\ Typed' /\ [Next]_vars => [Lifecycle!Next]_<<phaseMap, effectsMap>>
<1> SUFFICES ASSUME OperatorInv, Typed', [Next]_vars
             PROVE  [Lifecycle!Next]_<<phaseMap, effectsMap>>
  OBVIOUS
<1>1. Typed
  BY DEF OperatorInv
<1>2. CASE UNCHANGED <<objects, ran>>
  BY <1>2 DEF phaseMap, effectsMap, Shown, Touched, Counts, Fresh
<1>3. CASE RunSucceeds \/ RunFails \/ (Restart /\ ran' # ran)
  <2>1. pc = "run" /\ UNCHANGED objects
    BY <1>1, <1>3, RunMoves DEF Restart
  <2>2. PICK w \in Uids : w = cr.uid
    BY <1>1, <2>1, InHand
  <2>3. \A v \in Uids : ran'[v] = ran[v] \/ (v = w /\ ran'[v] = ran[v] + 1)
    BY <1>1, <1>3, <2>2, RunMoves, RestartMoves
  <2> QED
    BY <2>1, <2>2, <2>3, RunRefines
<1>4. CASE Restart /\ ran' = ran
  BY <1>2, <1>4 DEF Restart
<1>5. CASE Ignore \/ BeginAnalysis \/ BeginApproved \/ AnalysisFails \/ Analyzed \/ Consult
           \/ PatchFails
  BY <1>1, <1>2, <1>5, IgnoreMoves, BeginAnalysisMoves, BeginApprovedMoves, AnalysisMoves,
     PatchFailsMoves
<1>6. CASE UNCHANGED vars
  BY <1>2, <1>6 DEF vars
<1> QED
  BY <1>3, <1>4, <1>5, <1>6, UsersRefine, PatchRefines DEF Next, OperatorStep

\* What the phase of a request with a name of its own promises is kept by the
\* operator, whatever patches are lost and however often it is restarted: every
\* step is a step of RequestLifecycle or none (deploy/README.md, "CR phases").
THEOREM KeepsLifecycle == Spec => Lifecycle_Spec
<1>1. Init => Lifecycle!Init
  <2> SUFFICES ASSUME Init PROVE Lifecycle!Init
    OBVIOUS
  <2>1. \A u \in Uids : ~Counts(u)
    BY DEF Init, Counts, Uids
  <2> QED
    BY <2>1 DEF Lifecycle!Init, Shown
<1>2. OperatorInv /\ OperatorInv' /\ [Next]_vars
        => [Lifecycle!Next]_<<[u \in Uids |-> Shown(u)],
                              [u \in Uids |-> IF Counts(u) THEN ran[u] ELSE 0]>>
  BY StepRefines DEF OperatorInv, phaseMap, effectsMap, Touched
<1> QED
  BY <1>1, <1>2, Inductive, PTL DEF Spec, Lifecycle_Spec, Lifecycle!Spec

\* A policy that is added never makes EvaluatePolicies less strict than a deny or
\* a demand for an approval that was there, whatever the others say and in which
\* order they are listed.
THEOREM MorePoliciesNeverLoosen ==
  ASSUME NEW some, NEW all, \A i \in DOMAIN some : \E j \in DOMAIN all : all[j] = some[i],
         NEW labels, NEW action
  PROVE  /\ EvaluatePolicies(some, labels, action) = "deny"
              => EvaluatePolicies(all, labels, action) = "deny"
         /\ EvaluatePolicies(some, labels, action) = "requires-approval"
              => EvaluatePolicies(all, labels, action) \in {"deny", "requires-approval"}
<1>1. ASSUME NEW d \in Voted(some, labels, action) PROVE d \in Voted(all, labels, action)
  <2>1. d \in Decisions /\ \E i \in DOMAIN some :
          /\ ScopeMatches(some[i].scope, labels)
          /\ \E k \in DOMAIN some[i].rules :
               RuleApplies(some[i].rules[k], action) /\ some[i].rules[k].decision = d
    BY DEF Voted
  <2>2. PICK i \in DOMAIN some :
          /\ ScopeMatches(some[i].scope, labels)
          /\ \E k \in DOMAIN some[i].rules :
               RuleApplies(some[i].rules[k], action) /\ some[i].rules[k].decision = d
    BY <2>1
  <2>3. PICK j \in DOMAIN all : all[j] = some[i]
    OBVIOUS
  <2> QED
    BY <2>1, <2>2, <2>3 DEF Voted
<1> QED
  BY <1>1 DEF EvaluatePolicies

\* What consultApprovalPolicies answers has no such order: a deny that the
\* whitelist of the request overrides takes along the demand for an approval of
\* every other policy, which alone would have stopped the action.
THEOREM WhitelistLiftsApprovals ==
  ASSUME NEW spec, NEW labels, NEW action, action \in spec.allowed,
         "requires-approval" \in Voted(policies, labels, action)
  PROVE  IF "deny" \in Voted(policies, labels, action)
           THEN Overlay(spec, action, labels) = "none"
           ELSE Overlay(spec, action, labels) = "requires-approval"
BY DEF Overlay, EvaluatePolicies

=============================================================================
