----------------------------- MODULE Approvals -----------------------------
(***************************************************************************)
(* The approval gate (agent/poddebugger/approvals.py): several runs of the *)
(* CLI, each with a gate of its own over a snapshot of one rules file, and *)
(* the `approvals add` and `approvals remove` commands that rewrite the    *)
(* same file.  Nothing locks it, and a save truncates it before it writes. *)
(*                                                                         *)
(* A run has one target and asks, for that target, about remediations,     *)
(* probes and scripts; what it asks is executed as soon as the gate agrees.*)
(***************************************************************************)
EXTENDS Naturals, Sequences, SequencesExt

CONSTANTS
  Runs,        \* CLI runs
  Flags,       \* what a run can be started with
  Asks,        \* what a run may ask about: kind and action
  AdminRules,  \* the rules users add by hand
  MaxEdits,    \* bound: approvals add / remove commands
  MaxAnswers,  \* bound: prompts answered in one run
  Empty,       \* a rules file that a save has truncated
  Garbled,     \* one that two saves have written over each other
  None

Rule == [kind : STRING, action : STRING, platform : STRING, namespace : STRING,
         name : STRING, decision : {"allow", "deny"},
         expires : {"never", "today", "malformed"}]

Descriptors == [kind : STRING, action : STRING, platform : STRING,
                namespace : STRING, name : STRING]

ASSUME FlagsAssumption ==
  Flags \subseteq
    [yes : BOOLEAN, mode : {"session", "persistent", "off"}, tty : BOOLEAN,
     target : [platform : STRING, namespace : STRING, name : STRING]]

ASSUME AsksAssumption == Asks \subseteq [kind : STRING, action : STRING]

\* A pod is resolved to its namespace, a container has none (resolve).
ASSUME TargetsAssumption ==
  /\ \A f \in Flags : /\ f.target.platform # "" /\ f.target.name # ""
                      /\ f.target.namespace = "" <=> f.target.platform = "podman"
  /\ \A ask \in Asks : ask.kind # "" /\ ask.action # ""

ASSUME RulesAssumption == AdminRules \subseteq Rule

ASSUME BoundsAssumption == MaxEdits \in Nat /\ MaxAnswers \in Nat

ASSUME NoneAssumption == None \notin Descriptors \cup Rule

VARIABLES
  file,      \* the rules file: a list of rules, Empty or Garbled
  pc,        \* where each run is
  flags,     \* how it was started
  rules,     \* the rules of its gate
  session,   \* the session approvals of its gate
  asked,     \* the descriptor it is asking about
  current,   \* history: has nobody else written the file since it was read or saved
  editor,    \* the approvals command that is running
  midnight,  \* has the day ended on which the rules expire
  answers,   \* prompts answered
  always,    \* history: what the human of the run said "always" or "persist" to
  intended,  \* history: the hand-written rules that are meant to be in place
  bound,     \* history: the denies it started under
  stale,     \* history: was the file ever rewritten from an old view of it
  edits

gate == <<pc, flags, rules, session, asked, current, answers, always, bound>>
vars == <<file, gate, editor, midnight, intended, stale, edits>>

------------------------------------------------------------------------------
(* Rules. *)

\* load_rules refuses an empty file and one that is not JSON.
Readable == file \notin {Empty, Garbled}

Descriptor(r, ask) ==
  [kind |-> ask.kind, action |-> ask.action,
   platform |-> flags[r].target.platform, namespace |-> flags[r].target.namespace,
   name |-> flags[r].target.name]

\* An empty field is a wildcard.
RuleMatches(rule, d) == \A field \in DOMAIN d : rule[field] \in {"", d[field]}

\* A rule is in force up to the day it names; one with a typo never is.
RuleExpired(rule) ==
  rule.expires = "malformed" \/ (rule.expires = "today" /\ midnight)

Active(rs, d) ==
  {rs[i] : i \in {j \in DOMAIN rs : RuleMatches(rs[j], d) /\ ~RuleExpired(rs[j])}}

Says(rs, d, decision) == \E rule \in Active(rs, d) : rule.decision = decision

\* Mutant of Match: the first kind of rule that comes to mind is the allow.
MatchAllowFirst(rs, d) ==
  IF Says(rs, d, "allow") THEN "allow"
  ELSE IF Says(rs, d, "deny") THEN "deny" ELSE "none"

\* deny is the last word.
Match(rs, d) ==
  IF Says(rs, d, "deny") THEN "deny"
  ELSE IF Says(rs, d, "allow") THEN "allow" ELSE "none"

\* Mutant of RuleFor: the name of the target is left open.
RuleForAnyName(d) ==
  [kind |-> d.kind, action |-> d.action, platform |-> d.platform,
   namespace |-> d.namespace, name |-> "", decision |-> "allow", expires |-> "never"]

\* Mutant of RuleFor: the decision is saved as it was given.
RuleAsDecided(d) ==
  [kind |-> d.kind, action |-> d.action, platform |-> d.platform,
   namespace |-> d.namespace, name |-> d.name, decision |-> "persistent",
   expires |-> "never"]

\* The rule a [P]ersist answer saves; a target without a namespace leaves the
\* field out, which is a wildcard.
RuleFor(d) ==
  [kind |-> d.kind, action |-> d.action, platform |-> d.platform,
   namespace |-> d.namespace, name |-> d.name, decision |-> "allow",
   expires |-> "never"]

------------------------------------------------------------------------------
(* A run: make_gate, then requests. *)

Consults(r) == ~flags[r].yes /\ flags[r].mode # "off"

\* Mutant of Load: a file that cannot be read counts as empty.
LoadLeniently(r) ==
  /\ pc' = [pc EXCEPT ![r] = "ready"]
  /\ rules' = [rules EXCEPT ![r] = IF Consults(r) /\ Readable THEN file ELSE <<>>]

\* A file that cannot be read ends the run with ApprovalDenied.
Load(r) ==
  IF Consults(r) /\ ~Readable
    THEN pc' = [pc EXCEPT ![r] = "ended"] /\ UNCHANGED rules
    ELSE /\ pc' = [pc EXCEPT ![r] = "ready"]
         /\ rules' = [rules EXCEPT ![r] = IF Consults(r) THEN file ELSE <<>>]

Denies(rs) == {rule \in rs : rule.decision = "deny" /\ rule.expires = "never"}

Start(r) ==
  /\ pc[r] = "new"
  /\ Load(r)
  /\ current' = [current EXCEPT ![r] = Consults(r)]
  /\ bound' = [bound EXCEPT ![r] = IF Consults(r) THEN Denies(intended) ELSE {}]
  /\ UNCHANGED <<file, flags, session, asked, editor, midnight, answers,
                 always, intended, stale, edits>>

Ask(r) ==
  /\ pc[r] = "ready"
  /\ \E ask \in Asks : asked' = [asked EXCEPT ![r] = Descriptor(r, ask)]
  /\ pc' = [pc EXCEPT ![r] = "asked"]
  /\ UNCHANGED <<file, flags, rules, session, current, editor, midnight,
                 answers, always, bound, intended, stale, edits>>

\* What the gate says without asking anyone: --yes agrees to everything, a
\* session approval is looked up before the rules, and without a terminal what
\* no rule settles is denied.
Settled(r) ==
  IF flags[r].yes THEN "allow"
  ELSE IF asked[r] \in session[r] THEN "allow"
  ELSE IF Match(rules[r], asked[r]) # "none" THEN Match(rules[r], asked[r])
  ELSE IF flags[r].tty THEN "prompt" ELSE "deny"

Agree(r) == pc' = [pc EXCEPT ![r] = "go"] /\ UNCHANGED asked

Close(r) == /\ pc' = [pc EXCEPT ![r] = "ready"]
            /\ asked' = [asked EXCEPT ![r] = None]

Permit(r) ==
  /\ pc[r] = "asked" /\ Settled(r) = "allow"
  /\ Agree(r)
  /\ UNCHANGED <<file, flags, rules, session, current, editor, midnight,
                 answers, always, bound, intended, stale, edits>>

\* The action, once the gate has agreed to it.
Execute(r) ==
  /\ pc[r] = "go"
  /\ Close(r)
  /\ UNCHANGED <<file, flags, rules, session, current, editor, midnight,
                 answers, always, bound, intended, stale, edits>>

Refuse(r) ==
  /\ \/ pc[r] = "asked" /\ Settled(r) = "deny"
     \/ pc[r] = "prompt" /\ answers[r] < MaxAnswers
  /\ answers' = [answers EXCEPT ![r] = IF pc[r] = "prompt" THEN @ + 1 ELSE @]
  /\ Close(r)
  /\ UNCHANGED <<file, flags, rules, session, current, editor, midnight,
                 always, bound, intended, stale, edits>>

Prompt(r) ==
  /\ pc[r] = "asked" /\ Settled(r) = "prompt"
  /\ pc' = [pc EXCEPT ![r] = "prompt"]
  /\ UNCHANGED <<file, flags, rules, session, asked, current, editor, midnight,
                 answers, always, bound, intended, stale, edits>>

Answer(r) ==
  /\ pc[r] = "prompt" /\ answers[r] < MaxAnswers
  /\ answers' = [answers EXCEPT ![r] = @ + 1]

\* Mutant of AnswerOnce: a single yes is remembered like an "always".
AnswerOnceForAll(r) ==
  /\ Answer(r)
  /\ session' = [session EXCEPT ![r] = @ \cup {asked[r]}]
  /\ Agree(r)
  /\ UNCHANGED <<file, flags, rules, current, editor, midnight, always,
                 bound, intended, stale, edits>>

AnswerOnce(r) ==
  /\ Answer(r)
  /\ Agree(r)
  /\ UNCHANGED <<file, flags, rules, session, current, editor, midnight,
                 always, bound, intended, stale, edits>>

\* With --approvals off there is no RulesGate to remember it.
AnswerSession(r) ==
  /\ Answer(r)
  /\ session' = [session EXCEPT ![r] = @ \cup {d \in {asked[r]} : Consults(r)}]
  /\ always' = [always EXCEPT ![r] = @ \cup {asked[r]}]
  /\ Agree(r)
  /\ UNCHANGED <<file, flags, rules, current, editor, midnight, bound,
                 intended, stale, edits>>

\* Offered in persistent mode only.  The rule is saved before the action runs.
AnswerPersist(r) ==
  /\ Answer(r)
  /\ flags[r].mode = "persistent"
  /\ rules' = [rules EXCEPT ![r] = Append(@, RuleFor(asked[r]))]
  /\ always' = [always EXCEPT ![r] = @ \cup {asked[r]}]
  /\ pc' = [pc EXCEPT ![r] = "save"]
  /\ UNCHANGED <<file, flags, session, asked, current, editor, midnight,
                 bound, intended, stale, edits>>

------------------------------------------------------------------------------
(* save_rules: the file is truncated, then written. *)

\* What the file holds after a write: what was written, unless another command
\* has written since it was truncated and the end of its text stays.
Written(content) == IF file = Empty THEN {content} ELSE {content, Garbled}

Truncate(r) ==
  /\ pc[r] = "save"
  /\ file' = Empty
  /\ pc' = [pc EXCEPT ![r] = "write"]
  /\ UNCHANGED <<flags, rules, session, asked, current, editor, midnight,
                 answers, always, bound, intended, stale, edits>>

\* The whole list of the run goes out: its snapshot of the file and its own rule.
Write(r) ==
  /\ pc[r] = "write"
  /\ file' \in Written(rules[r])
  /\ current' = [p \in Runs |-> p = r]
  /\ editor' = [editor EXCEPT !.current = FALSE]
  /\ stale' = (stale \/ ~current[r])
  /\ Agree(r)
  /\ UNCHANGED <<flags, rules, session, midnight, answers, always, bound, intended,
                 edits>>

\* Ctrl-C, or an error in the save: the run is over, the file as it is.
Kill(r) ==
  /\ pc[r] \notin {"new", "ended"}
  /\ pc' = [pc EXCEPT ![r] = "ended"]
  /\ asked' = [asked EXCEPT ![r] = None]
  /\ rules' = [rules EXCEPT ![r] = <<>>]
  /\ session' = [session EXCEPT ![r] = {}]
  /\ bound' = [bound EXCEPT ![r] = {}]
  /\ current' = [current EXCEPT ![r] = FALSE]
  /\ UNCHANGED <<file, flags, editor, midnight, answers, always, intended, stale,
                 edits>>

------------------------------------------------------------------------------
(* approvals add, list and remove. *)

NoEditor == [pc |-> "idle", rules |-> <<>>, current |-> FALSE, rule |-> None, index |-> 0]

Editor == editor.pc = "idle" /\ edits < MaxEdits /\ edits' = edits + 1 /\ Readable

EditorOnly == UNCHANGED <<file, gate, midnight, intended, stale>>

Add ==
  /\ Editor
  /\ \E rule \in AdminRules \ intended :
       editor' = [pc |-> "save-add", rules |-> Append(file, rule), current |-> TRUE,
                  rule |-> rule, index |-> 0]
  /\ EditorOnly

\* The user reads the list and notes the number of the rule to take back.
List ==
  /\ Editor
  /\ \E i \in DOMAIN file :
       editor' = [pc |-> "listed", rules |-> <<>>, current |-> FALSE, rule |-> file[i],
                  index |-> i]
  /\ EditorOnly

\* The number is looked up in the file as it is when the command runs.
RemoveRule ==
  /\ editor.pc = "listed" /\ Readable
  /\ IF editor.index \in DOMAIN file
       THEN /\ editor' = [pc |-> "save-remove", rules |-> RemoveAt(file, editor.index),
                          current |-> TRUE, rule |-> editor.rule, index |-> 0]
            /\ stale' = (stale \/ file[editor.index] # editor.rule)
       ELSE editor' = NoEditor /\ UNCHANGED stale
  /\ UNCHANGED <<file, gate, midnight, intended, edits>>

EditorTruncate ==
  /\ editor.pc \in {"save-add", "save-remove"}
  /\ file' = Empty
  /\ editor' = [editor EXCEPT !.pc = IF @ = "save-add" THEN "add" ELSE "remove"]
  /\ UNCHANGED <<gate, midnight, intended, stale, edits>>

EditorWrite ==
  /\ editor.pc \in {"add", "remove"}
  /\ file' \in Written(editor.rules)
  /\ current' = [p \in Runs |-> FALSE]
  /\ stale' = (stale \/ ~editor.current)
  /\ intended' = IF editor.pc = "add" THEN intended \cup {editor.rule}
                 ELSE intended \ {editor.rule}
  /\ editor' = NoEditor
  /\ UNCHANGED <<pc, flags, rules, session, asked, answers, always, bound, midnight,
                 edits>>

EditorKill ==
  /\ editor.pc \in {"add", "remove"}
  /\ editor' = NoEditor
  /\ UNCHANGED <<file, gate, midnight, intended, stale, edits>>

Midnight ==
  /\ ~midnight /\ midnight' = TRUE
  /\ UNCHANGED <<file, gate, editor, intended, stale, edits>>

------------------------------------------------------------------------------
Init ==
  /\ file = <<>>
  /\ pc = [r \in Runs |-> "new"]
  /\ flags \in [Runs -> Flags]
  /\ rules = [r \in Runs |-> <<>>]
  /\ session = [r \in Runs |-> {}]
  /\ asked = [r \in Runs |-> None]
  /\ current = [r \in Runs |-> FALSE]
  /\ editor = NoEditor
  /\ midnight = FALSE
  /\ answers = [r \in Runs |-> 0]
  /\ always = [r \in Runs |-> {}]
  /\ intended = {}
  /\ bound = [r \in Runs |-> {}]
  /\ stale = FALSE
  /\ edits = 0

RunStep(r) ==
  \/ Start(r) \/ Ask(r) \/ Permit(r) \/ Execute(r) \/ Refuse(r) \/ Prompt(r)
  \/ AnswerOnce(r) \/ AnswerSession(r) \/ AnswerPersist(r)
  \/ Truncate(r) \/ Write(r) \/ Kill(r)

EditorStep == Add \/ List \/ RemoveRule \/ EditorTruncate \/ EditorWrite
              \/ EditorKill

Next == (\E r \in Runs : RunStep(r)) \/ EditorStep \/ Midnight

Spec == Init /\ [][Next]_vars
------------------------------------------------------------------------------
(* Properties. *)

Phases == {"new", "ready", "asked", "prompt", "save", "write", "go", "ended"}

EditorPhases == {"idle", "listed", "save-add", "add", "save-remove", "remove"}

TypeOK ==
  /\ file \in Seq(Rule) \cup {Empty, Garbled}
  /\ pc \in [Runs -> Phases]
  /\ flags \in [Runs -> Flags]
  /\ rules \in [Runs -> Seq(Rule)]
  /\ asked \in [Runs -> Descriptors \cup {None}]
  /\ session \in [Runs -> SUBSET Descriptors]
  /\ always \in [Runs -> SUBSET Descriptors]
  /\ editor \in [pc : EditorPhases, rules : Seq(Rule), current : BOOLEAN,
                 rule : Rule \cup {None}, index : Nat]
  /\ midnight \in BOOLEAN
  /\ answers \in [Runs -> 0 .. MaxAnswers]
  /\ intended \subseteq Rule
  /\ edits \in 0 .. MaxEdits

\* A run that consults rules never executes what a rule in force in its gate
\* denies, whatever it was allowed earlier: the session approvals that are
\* looked up first, and the rules it saves itself, never reach past a deny.
DenyIsTheLastWord ==
  \A r \in Runs : pc[r] = "go" /\ Consults(r) => ~Says(rules[r], asked[r], "deny")

\* What is executed without a prompt was agreed to before: by --yes, by an
\* "always" or "persist" of the same run for the same action, or by an allow
\* rule that is in force.  One "yes" is good for one action.
EveryEffectHasConsent ==
  [][\A r \in Runs : pc[r] = "asked" /\ pc'[r] = "go" =>
       \/ flags[r].yes
       \/ asked[r] \in always[r]
       \/ Says(rules[r], asked[r], "allow")]_vars

\* No allow rule of the file covers more than what somebody agreed to for good:
\* every target and action it matches was named by a rule written by hand or by
\* an answer at a prompt.
Known == UNION {{Descriptor(r, ask) : ask \in Asks} : r \in Runs}

Agreed(d) == \/ \E rule \in AdminRules : rule.decision = "allow" /\ RuleMatches(rule, d)
             \/ \E r \in Runs : d \in always[r]

SavedRulesCoverOnlyConsent ==
  Readable =>
    \A i \in DOMAIN file : file[i].decision = "allow" =>
      \A d \in Known : RuleMatches(file[i], d) => Agreed(d)

\* A deny that somebody added and nobody took back binds every run that starts
\* afterwards, through crashes and half-written files, as long as nobody rewrote
\* the file from an old view of it.
Binds(r) ==
  pc[r] = "go" => \A rule \in bound[r] : ~RuleMatches(rule, asked[r])

DenyBindsLaterRuns == stale \/ \A r \in Runs : Binds(r)
=============================================================================
