------------------------------ MODULE Operator ------------------------------
(***************************************************************************)
(* The operator (controller/operator.go): a single goroutine that decodes  *)
(* the stream of `kubectl get --watch`, reconciles one request at a time   *)
(* and shells out to the poddebugger CLI, while users create, edit, delete *)
(* and re-create requests and admins change the approval policies.         *)
(*                                                                         *)
(* What the operator decides on is the object it decoded, however long the *)
(* stream made it wait; what it writes is a merge patch addressed by name; *)
(* what it remembers is a map in memory, lost when it restarts.            *)
(***************************************************************************)
EXTENDS Policy, Sequences, FiniteSets, SequencesExt

CONSTANTS
  Names,        \* namespace/name of the requests
  Specs,        \* the specs users write
  PolicySets,   \* the lists of policies admins install
  Labels,       \* the labels of the target namespace
  Proposable,   \* the catalog actions the Remediator may propose
  MaxObjects,   \* bound: requests ever created
  MaxEdits,     \* bound: edits, deletions and policy changes
  MaxRestarts,  \* bound: restarts of the operator
  MaxFaults,    \* bound: status patches that fail
  None

Modes == {"SuggestOnly", "ApproveRequired", "AutoRemediate"}

Spec_ == [mode : Modes, pinned : CatalogActions \cup {None}, ceiling : Risks,
          allowed : SUBSET CatalogActions, approved : BOOLEAN]

ASSUME SpecsAssumption == Specs \subseteq Spec_
ASSUME ProposalAssumption == Proposable \subseteq CatalogActions
ASSUME BoundsAssumption == {MaxObjects, MaxEdits, MaxRestarts, MaxFaults} \subseteq Nat
ASSUME OperatorNone == None \notin CatalogActions \cup {"none"}

VARIABLES
  objects,    \* the API server: every request ever created, by uid
  policies,   \* the installed policies
  stream,     \* events kubectl has printed and the operator has not decoded
  processed,  \* the map of the running operator
  pc,         \* where reconcile is
  cr,         \* the decoded event it works on
  todo,       \* the action about to run, and what the decision rests on
  status,     \* the patch about to be sent
  ran,        \* history: remediations run for each request
  touched,    \* history: requests the running operator has run one for
  restarts, faults, edits

handler == <<pc, cr, todo, status>>
vars == <<objects, policies, stream, processed, handler, ran, touched, restarts,
          faults, edits>>

Uids == 1 .. MaxObjects

Phases == {"", "Complete", "AwaitingApproval", "Remediated", "Failed"}

\* A proposal that is absent (None) or that carries no validated action ("none").
Proposal == [action : Proposable \cup {"none"}]

Object == [name : Names, live : BOOLEAN, spec : Spec_, phase : Phases,
           proposal : Proposal \cup {None}]

Event == [uid : Uids, object : Object]

\* A namespace that cannot be read counts as unlabeled.
NamespaceLabels == {Labels, {}}

\* The labels are those the policies were matched with.
Todo == [action : CatalogActions, by : {"approval", "auto"},
         decision : Decisions \cup {"none", "unread"}, labels : NamespaceLabels]

\* A proposal of None leaves the field of the object alone (omitempty).
Patch == [phase : Phases \ {""}, proposal : Proposal \cup {None}]

------------------------------------------------------------------------------
(* The stream: kubectl prints the object after every change, and the last   *)
(* state of a deleted one.                                                  *)

EventOf(objs, u) == [uid |-> u, object |-> objs[u]]

Notify(u) == stream' = Append(stream, EventOf(objects', u))

LiveUids == {u \in DOMAIN objects : objects[u].live}

Create ==
  /\ Len(objects) < MaxObjects
  /\ \E n \in Names \ {objects[u].name : u \in LiveUids}, s \in Specs :
       objects' = Append(objects, [name |-> n, live |-> TRUE, spec |-> s,
                                   phase |-> "", proposal |-> None])
  /\ Notify(Len(objects'))
  /\ UNCHANGED <<policies, processed, handler, ran, touched, restarts,
                 faults, edits>>

Edit(u) ==
  /\ edits < MaxEdits /\ edits' = edits + 1
  /\ \E s \in Specs \ {objects[u].spec} : objects' = [objects EXCEPT ![u].spec = s]
  /\ Notify(u)
  /\ UNCHANGED <<policies, processed, handler, ran, touched, restarts, faults>>

Delete(u) ==
  /\ edits < MaxEdits /\ edits' = edits + 1
  /\ objects' = [objects EXCEPT ![u].live = FALSE]
  /\ Notify(u)
  /\ UNCHANGED <<policies, processed, handler, ran, touched, restarts, faults>>

ChangePolicies ==
  /\ edits < MaxEdits /\ edits' = edits + 1
  /\ policies' \in PolicySets \ {policies}
  /\ UNCHANGED <<objects, stream, processed, handler, ran, touched, restarts, faults>>

Users == Create \/ ChangePolicies \/ \E u \in LiveUids : Edit(u) \/ Delete(u)

------------------------------------------------------------------------------
(* What a request asks for. *)

\* Mutant of EffectiveAction: a proposal of "none" passes for an action.
EffectiveActionLoose(object) ==
  IF object.spec.pinned # None THEN object.spec.pinned
  ELSE IF object.proposal = None THEN None ELSE object.proposal.action

\* The pinned action wins over the proposal; None when there is neither.
EffectiveAction(object) ==
  IF object.spec.pinned # None THEN object.spec.pinned
  ELSE IF object.proposal = None \/ object.proposal = [action |-> "none"] THEN None
  ELSE object.proposal.action

Permitted(spec, action) == spec.allowed = {} \/ action \in spec.allowed

\* Mutant of CanAutoApply: the ceiling is not looked at.
CanAutoApplyLoose(spec, action) == Permitted(spec, action)

\* canAutoApply: the ceiling and the whitelist hold for a proposal.
CanAutoApply(spec, action) ==
  Rank(RiskOf(action)) <= Rank(spec.ceiling) /\ Permitted(spec, action)

------------------------------------------------------------------------------
(* reconcile *)

Send(phase, proposal) ==
  /\ pc' = "patch"
  /\ status' = [phase |-> phase, proposal |-> proposal]
  /\ todo' = None

Start(action, by, decision, labels) ==
  /\ pc' = "run"
  /\ todo' = [action |-> action, by |-> by, decision |-> decision, labels |-> labels]

\* Mutant of NeedsAnalysis: the phase the request shows is not looked at.
NeedsAnalysisAgain(e) == <<e.object.name, "analyze">> \notin processed

NeedsAnalysis(e) ==
  e.object.phase = "" /\ <<e.object.name, "analyze">> \notin processed

\* Mutant of NeedsRemediation: what was started is not remembered.
NeedsRemediationAgain(e) ==
  e.object.phase = "AwaitingApproval" /\ e.object.spec.approved

NeedsRemediation(e) ==
  /\ e.object.phase = "AwaitingApproval" /\ e.object.spec.approved
  /\ <<e.object.name, "remediate">> \notin processed

Decode ==
  /\ pc = "idle" /\ stream # <<>>
  /\ stream' = Tail(stream)

Ignore ==
  /\ Decode
  /\ ~NeedsAnalysis(Head(stream)) /\ ~NeedsRemediation(Head(stream))
  /\ UNCHANGED <<objects, policies, processed, handler, ran, touched, restarts,
                 faults, edits>>

BeginAnalysis ==
  /\ Decode
  /\ NeedsAnalysis(Head(stream))
  /\ processed' = processed \cup {<<Head(stream).object.name, "analyze">>}
  /\ pc' = "analyze"
  /\ cr' = Head(stream)
  /\ UNCHANGED <<objects, policies, todo, status, ran, touched, restarts,
                 faults, edits>>

\* Mutant of BeginApproved: a request without an action is only logged.
BeginApprovedSilently ==
  /\ Decode
  /\ NeedsRemediation(Head(stream)) /\ ~NeedsAnalysis(Head(stream))
  /\ processed' = processed \cup {<<Head(stream).object.name, "remediate">>}
  /\ LET action == EffectiveAction(Head(stream).object)
     IN  IF action = None
           THEN UNCHANGED handler
           ELSE /\ cr' = Head(stream)
                /\ Start(action, "approval", "unread", {}) /\ UNCHANGED status
  /\ UNCHANGED <<objects, policies, ran, touched, restarts, faults, edits>>

\* An approved request runs its action whatever its mode, its whitelist and the
\* policies say; without an action it fails.
BeginApproved ==
  /\ Decode
  /\ NeedsRemediation(Head(stream)) /\ ~NeedsAnalysis(Head(stream))
  /\ processed' = processed \cup {<<Head(stream).object.name, "remediate">>}
  /\ cr' = Head(stream)
  /\ LET action == EffectiveAction(cr'.object)
     IN  IF action = None
           THEN Send("Failed", None)
           ELSE Start(action, "approval", "unread", {}) /\ UNCHANGED status
  /\ UNCHANGED <<objects, policies, ran, touched, restarts, faults, edits>>

------------------------------------------------------------------------------
(* analyzeAndMaybeRemediate, applyUnderAutoRemediate *)

\* Mutant of AnalysisFails: the error is logged and nothing is written.
AnalysisFailsSilently ==
  /\ pc = "analyze"
  /\ pc' = "idle" /\ cr' = None
  /\ UNCHANGED <<objects, policies, stream, processed, todo, status, ran, touched, restarts,
                 faults, edits>>

\* The CLI failed, timed out, or printed no JSON.
AnalysisFails ==
  /\ pc = "analyze"
  /\ Send("Failed", None)
  /\ UNCHANGED <<objects, policies, stream, processed, cr, ran, touched, restarts,
                 faults, edits>>

\* The proposal is only asked for when it may be applied; from here on it is
\* part of the object the operator holds.
Analyzed ==
  /\ pc = "analyze"
  /\ \E p \in IF cr.object.spec.mode = "SuggestOnly" THEN {None}
              ELSE Proposal \cup {None} :
       LET object == [cr.object EXCEPT !.proposal = p]
           action == EffectiveAction(object)
       IN  /\ cr' = [cr EXCEPT !.object = object]
           /\ \/ object.spec.mode = "SuggestOnly" /\ Send("Complete", p)
              \/ object.spec.mode = "ApproveRequired" /\ Send("AwaitingApproval", p)
              \/ /\ object.spec.mode = "AutoRemediate"
                 /\ IF action = None \/
                       (object.spec.pinned # None /\ ~Permitted(object.spec, action))
                      THEN Send("AwaitingApproval", p)
                      ELSE pc' = "consult" /\ UNCHANGED <<todo, status>>
  /\ UNCHANGED <<objects, policies, stream, processed, ran, touched, restarts,
                 faults, edits>>

\* consultApprovalPolicies: the whitelist of the request overrides a deny.
Overlay(spec, action, labels) ==
  LET decision == EvaluatePolicies(policies, labels, action)
  IN  IF decision = "deny" /\ action \in spec.allowed THEN "none" ELSE decision

\* Policies that cannot be read decide nothing.
Consult ==
  /\ pc = "consult"
  /\ \E labels \in NamespaceLabels :
       LET action == EffectiveAction(cr.object)
           spec   == cr.object.spec
       IN  \E decision \in {"unread", Overlay(spec, action, labels)} :
             IF \/ decision \in {"deny", "requires-approval"}
                \/ /\ decision # "allow" /\ spec.pinned = None
                   /\ ~CanAutoApply(spec, action)
               THEN Send("AwaitingApproval", cr.object.proposal)
               ELSE Start(action, "auto", decision, labels) /\ UNCHANGED status
  /\ UNCHANGED <<objects, policies, stream, processed, cr, ran, touched, restarts,
                 faults, edits>>

------------------------------------------------------------------------------
(* RunRemediation and patchStatus *)

\* The proposal travels with the answer to an analysis only.
Carried == IF todo.by = "auto" THEN cr.object.proposal ELSE None

Touch ==
  /\ ran' = [ran EXCEPT ![cr.uid] = @ + 1]
  /\ touched' = touched \cup {cr.uid}

RunSucceeds ==
  /\ pc = "run"
  /\ Touch
  /\ Send("Remediated", Carried)
  /\ UNCHANGED <<objects, policies, stream, processed, cr, restarts, faults, edits>>

\* The CLI refused or failed, or was killed by the timeout after it had run the
\* action: the operator cannot tell.
RunFails ==
  /\ pc = "run"
  /\ Touch \/ UNCHANGED <<ran, touched>>
  /\ Send("Failed", Carried)
  /\ UNCHANGED <<objects, policies, stream, processed, cr, restarts, faults, edits>>

Done == pc' = "idle" /\ cr' = None /\ todo' = None /\ status' = None

\* The field is replaced: a merge patch would mix the parameters of two proposals,
\* if ever one reached a request that has one (ProposalsAreNotMixed).
Merge(object, patch) ==
  [object EXCEPT !.phase = patch.phase,
                 !.proposal = IF patch.proposal = None THEN @ ELSE patch.proposal]

\* The patch reaches whichever request carries the name now.
PatchLands ==
  /\ pc = "patch"
  /\ \E u \in LiveUids :
       /\ objects[u].name = cr.object.name
       /\ objects' = [objects EXCEPT ![u] = Merge(@, status)]
       /\ Notify(u)
  /\ Done
  /\ UNCHANGED <<policies, processed, ran, touched, restarts, faults, edits>>

\* No such request any more, or the API server refuses: logged and forgotten.
PatchFails ==
  /\ pc = "patch"
  /\ IF \E u \in LiveUids : objects[u].name = cr.object.name
       THEN faults < MaxFaults /\ faults' = faults + 1
       ELSE UNCHANGED faults
  /\ Done
  /\ UNCHANGED <<objects, policies, stream, processed, ran, touched, restarts, edits>>

\* The operator dies at any point, or leaves because the watch has ended; its
\* Deployment starts another one, which begins with a listing.  The CLI it was
\* waiting for may have run the action.
Restart ==
  /\ restarts < MaxRestarts /\ restarts' = restarts + 1
  /\ processed' = {} /\ touched' = {}
  /\ pc' = "idle" /\ cr' = None /\ todo' = None /\ status' = None
  /\ stream' \in SetToSeqs({EventOf(objects, u) : u \in LiveUids})
  /\ \/ ran' = ran
     \/ pc = "run" /\ ran' = [ran EXCEPT ![cr.uid] = @ + 1]
  /\ UNCHANGED <<objects, policies, faults, edits>>

------------------------------------------------------------------------------
Init ==
  /\ objects = <<>>
  /\ policies \in PolicySets
  /\ stream = <<>>
  /\ processed = {}
  /\ pc = "idle" /\ cr = None /\ todo = None /\ status = None
  /\ ran = [u \in Uids |-> 0] /\ touched = {}
  /\ restarts = 0 /\ faults = 0 /\ edits = 0

OperatorStep ==
  \/ Ignore \/ BeginAnalysis \/ BeginApproved \/ AnalysisFails \/ Analyzed
  \/ Consult \/ RunSucceeds \/ RunFails \/ PatchLands \/ PatchFails

Next == Users \/ OperatorStep \/ Restart

\* Every command the operator runs has a timeout, so that it always goes on.
Spec == Init /\ [][Next]_vars /\ WF_vars(OperatorStep)
------------------------------------------------------------------------------
(* Properties. *)

TypeOK ==
  /\ objects \in Seq(Object) /\ Len(objects) <= MaxObjects
  /\ policies \in PolicySets
  /\ \A i \in DOMAIN stream : stream[i] \in Event
  /\ processed \subseteq Names \X {"analyze", "remediate"}
  /\ pc \in {"idle", "analyze", "consult", "run", "patch"}
  /\ cr \in Event \cup {None}
  /\ todo \in Todo \cup {None}
  /\ status \in Patch \cup {None}
  /\ ran \in [Uids -> Nat] /\ touched \subseteq Uids
  /\ restarts \in 0 .. MaxRestarts /\ faults \in 0 .. MaxFaults /\ edits \in 0 .. MaxEdits

\* However often the watch re-emits a request, whatever patches are lost and
\* whoever re-creates it under the same name, its workload is touched at most
\* once in the life of an operator.
OncePerOperatorLife ==
  [][\A u \in touched : ran'[u] = ran[u]]_vars

\* An automatic run of a proposal above spec.maxAutoRisk rests on an allow rule
\* that was in force in the namespace, or in any namespace, when it was asked.
AutoRunsStayBelowCeiling ==
  pc = "run" /\ todo.by = "auto" /\ cr.object.spec.pinned = None
    /\ Rank(RiskOf(todo.action)) > Rank(cr.object.spec.ceiling)
  => todo.decision = "allow"

\* "If anyone declared this action gated, honor the gate" (policy.go:128): nothing
\* runs automatically while a policy demands an approval of the action in the
\* namespace as the operator read it, or denies it, however many others allow it.
\* The one exception is a deny that spec.allowedActions overrides: it lifts what
\* all the other policies demand as well.  Policies nobody could read bind nobody.
PoliciesAreHonored ==
  [][pc = "consult" /\ pc' = "run" /\ todo'.decision # "unread" =>
       LET voted == Voted(policies, todo'.labels, todo'.action)
       IN  \/ voted \subseteq {"allow"}
           \/ "deny" \in voted /\ todo'.action \in cr.object.spec.allowed]_vars

\* A merge patch writes a proposal field by field, so that the parameters of an
\* old one would survive under the action of a new one: no request that has a
\* proposal is ever sent another, by a restarted operator or by a patch meant for
\* a predecessor of the same name.
ProposalsAreNotMixed ==
  pc = "patch" /\ status.proposal # None =>
    \A u \in LiveUids :
      objects[u].name = cr.object.name => objects[u].proposal = None

\* A request whose name no earlier request had.
Fresh(u) == \A v \in 1 .. u - 1 : objects[v].name # objects[u].name

Counts(u) == u <= Len(objects) /\ Fresh(u)

\* The phase of a request only advances, and nothing is run for a request that
\* is finished, whatever events are late, patches lost or operators restarted
\* (RequestLifecycle).  Of requests that reuse a name this is not so: they
\* receive the patches meant for their predecessor.
Shown(u) == IF ~Counts(u) THEN "absent"
            ELSE IF objects[u].phase = "" THEN "Pending" ELSE objects[u].phase

Lifecycle == INSTANCE RequestLifecycle
  WITH phase <- [u \in Uids |-> Shown(u)],
       effects <- [u \in Uids |-> IF Counts(u) THEN ran[u] ELSE 0]

Lifecycle_Spec == Lifecycle!Spec

\* A request whose name is new is answered, whatever happens to the operator,
\* as long as it is not deleted and the API server takes the patches.
Gone(u) == ~objects[u].live \/ faults > 0

Unanswered(u) == u <= Len(objects) /\ objects[u].phase = "" /\ ~Gone(u)

FreshRequestIsAnswered ==
  \A u \in Uids : (Counts(u) /\ Unanswered(u)) ~> ~Unanswered(u)

\* An approved request is carried out or fails, unless the approval is
\* withdrawn: the approval is never lost in the stream, by a restart or by
\* another request that is being worked on.
Approved(u) ==
  /\ Counts(u) /\ ~Gone(u)
  /\ objects[u].phase = "AwaitingApproval" /\ objects[u].spec.approved

ApprovalIsCarriedOut == \A u \in Uids : Approved(u) ~> ~Approved(u)
=============================================================================
