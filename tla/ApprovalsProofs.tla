-------------------------- MODULE ApprovalsProofs --------------------------
(***************************************************************************)
(* For every number of runs and edits, whatever is asked and whatever      *)
(* rules are written by hand: the variables of Approvals keep their types, *)
(* and a deny is the last word.                                            *)
(*                                                                         *)
(* A gate looks up its session approvals before its rules, and appends to  *)
(* the rules as it goes.  The invariant says that neither reaches past a   *)
(* deny: what a session has approved, and what a prompt was asked about,   *)
(* is denied by no rule of the gate.                                       *)
(***************************************************************************)
EXTENDS Approvals, SequenceTheorems, TLAPS

\* What a run holds while it is doing something.
Busy == {"asked", "prompt", "save", "write", "go"}

Held ==
  /\ \A r \in Runs : pc[r] \in Busy => asked[r] \in Descriptors
  /\ editor.pc \in {"listed", "save-add", "add", "save-remove", "remove"} =>
       editor.rule \in Rule

TypeInv == TypeOK /\ Held

\* Does a rule of the list deny d, before or after the day is over?
Denied(rs, d, over) ==
  \E i \in DOMAIN rs :
    /\ RuleMatches(rs[i], d) /\ rs[i].decision = "deny"
    /\ ~(rs[i].expires = "malformed" \/ (rs[i].expires = "today" /\ over))

\* A request that has got past the rules.
Past == {"prompt", "save", "write", "go"}

SessionsRespectDenies ==
  \A r \in Runs : \A d \in session[r] : ~Denied(rules[r], d, midnight)

RequestsRespectDenies ==
  \A r \in Runs :
    pc[r] \in Past /\ Consults(r) => ~Denied(rules[r], asked[r], midnight)

NewRunsAreEmpty == \A r \in Runs : pc[r] = "new" => session[r] = {}

OnlyGatesRemember == \A r \in Runs : session[r] # {} => Consults(r)

DenyInv ==
  /\ SessionsRespectDenies
  /\ RequestsRespectDenies
  /\ NewRunsAreEmpty
  /\ OnlyGatesRemember

------------------------------------------------------------------------------
(* Rules. *)

\* A persisted answer is an allow rule (RuleFor).
LEMMA RuleForIsAllow ==
  ASSUME NEW d \in Descriptors
  PROVE  RuleFor(d) \in Rule /\ RuleFor(d).decision = "allow"
BY DEF RuleFor, Rule, Descriptors

\* What _match finds is what the list denies.
LEMMA SaysIsDenied ==
  ASSUME NEW rs, NEW d
  PROVE  Says(rs, d, "deny") <=> Denied(rs, d, midnight)
BY DEF Says, Active, RuleExpired, Denied

\* An empty list denies nothing.
LEMMA NothingDenied == \A d, over : ~Denied(<<>>, d, over)
BY DEF Denied

\* Appending an allow rule denies nothing that was not denied (_add_rule).
LEMMA AllowDeniesNothing ==
  ASSUME NEW rs \in Seq(Rule), NEW rule \in Rule, rule.decision = "allow",
         NEW d, NEW over, Denied(Append(rs, rule), d, over)
  PROVE  Denied(rs, d, over)
<1>1. PICK i \in DOMAIN Append(rs, rule) :
        /\ RuleMatches(Append(rs, rule)[i], d) /\ Append(rs, rule)[i].decision = "deny"
        /\ ~(\/ Append(rs, rule)[i].expires = "malformed"
             \/ Append(rs, rule)[i].expires = "today" /\ over)
  BY DEF Denied
<1>2. Append(rs, rule)[i] = IF i = Len(rs) + 1 THEN rule ELSE rs[i]
  BY <1>1
<1>3. i \in DOMAIN rs
  BY <1>1, <1>2
<1> QED
  BY <1>1, <1>2, <1>3 DEF Denied

\* The end of the day takes denies out of force and puts none in.
LEMMA MidnightDeniesNothing ==
  ASSUME NEW rs, NEW d, Denied(rs, d, TRUE)
  PROVE  Denied(rs, d, FALSE)
BY DEF Denied

------------------------------------------------------------------------------
(* Types. *)

LEMMA DescriptorTyped ==
  ASSUME TypeInv, NEW r \in Runs, NEW ask \in Asks
  PROVE  Descriptor(r, ask) \in Descriptors
<1>1. flags[r] \in Flags
  BY DEF TypeInv, TypeOK
<1> QED
  BY <1>1, FlagsAssumption, AsksAssumption DEF Descriptor, Descriptors

\* A run step changes what its run holds and, in a save, the file.
LEMMA RunStepTyped ==
  ASSUME TypeInv, NEW r \in Runs, RunStep(r)
  PROVE  TypeInv'
<1> USE DEF TypeInv, TypeOK, Held, Phases, Busy
<1>1. CASE Start(r)
  <2>1. rules' \in [Runs -> Seq(Rule)]
    <3>1. CASE Consults(r) /\ ~Readable
      BY <1>1, <3>1 DEF Start, Load
    <3>2. CASE ~(Consults(r) /\ ~Readable)
      <4>1. (IF Consults(r) THEN file ELSE <<>>) \in Seq(Rule)
        BY <3>2 DEF Readable
      <4> QED
        BY <1>1, <3>2, <4>1 DEF Start, Load
    <3> QED
      BY <3>1, <3>2
  <2>2. pc' \in [Runs -> Phases] /\ pc'[r] \notin Busy
    BY <1>1 DEF Start, Load
  <2>3. \A q \in Runs : q # r => pc'[q] = pc[q]
    BY <1>1 DEF Start, Load
  <2> QED
    BY <1>1, <2>1, <2>2, <2>3 DEF Start
<1>2. CASE Ask(r)
  BY <1>2, DescriptorTyped DEF Ask
<1>3. CASE Permit(r)
  BY <1>3 DEF Permit, Agree
<1>4. CASE Execute(r)
  BY <1>4 DEF Execute, Close
<1>5. CASE Refuse(r)
  BY <1>5, BoundsAssumption DEF Refuse, Close
<1>6. CASE Prompt(r)
  BY <1>6 DEF Prompt
<1>7. CASE AnswerOnce(r)
  BY <1>7, BoundsAssumption DEF AnswerOnce, Answer, Agree
<1>8. CASE AnswerSession(r)
  BY <1>8, BoundsAssumption DEF AnswerSession, Answer, Agree
<1>9. CASE AnswerPersist(r)
  BY <1>9, BoundsAssumption, RuleForIsAllow DEF AnswerPersist, Answer
<1>10. CASE Truncate(r)
  BY <1>10 DEF Truncate
<1>11. CASE Write(r)
  <2>1. file' \in Seq(Rule) \cup {Empty, Garbled}
    BY <1>11 DEF Write, Written
  <2>2. /\ editor' \in [pc : EditorPhases, rules : Seq(Rule), current : BOOLEAN,
                       rule : Rule \cup {None}, index : Nat]
        /\ editor'.pc = editor.pc /\ editor'.rule = editor.rule
    BY <1>11 DEF Write
  <2>3. /\ pc' \in [Runs -> Phases] /\ asked' = asked
        /\ \A q \in Runs : pc'[q] \in Busy => pc[q] \in Busy
    BY <1>11 DEF Write, Agree
  <2> QED
    BY <1>11, <2>1, <2>2, <2>3 DEF Write
<1>12. CASE Kill(r)
  BY <1>12 DEF Kill
<1> QED
  BY <1>1, <1>2, <1>3, <1>4, <1>5, <1>6, <1>7, <1>8, <1>9, <1>10, <1>11, <1>12 DEF RunStep

\* An edit is a list of rules, as it was read and changed.
LEMMA EditorStepTyped ==
  ASSUME TypeInv, EditorStep \/ Midnight
  PROVE  TypeInv'
<1> USE DEF TypeInv, TypeOK, Held, EditorPhases, NoEditor, gate
<1>1. CASE Add
  BY <1>1, BoundsAssumption, RulesAssumption DEF Add, Editor, EditorOnly, Readable
<1>2. CASE List
  <2>1. file \in Seq(Rule) /\ edits' \in 0 .. MaxEdits
    BY <1>2, BoundsAssumption DEF List, Editor, Readable
  <2>2. PICK i \in DOMAIN file :
          editor' = [pc |-> "listed", rules |-> <<>>, current |-> FALSE,
                     rule |-> file[i], index |-> i]
    BY <1>2 DEF List
  <2>3. i \in Nat /\ file[i] \in Rule
    BY <2>1
  <2>4. /\ editor' \in [pc : EditorPhases, rules : Seq(Rule), current : BOOLEAN,
                       rule : Rule \cup {None}, index : Nat]
        /\ editor'.rule \in Rule
    BY <2>2, <2>3
  <2>5. UNCHANGED <<file, pc, flags, rules, asked, session, always, midnight, answers,
                  intended>>
    BY <1>2 DEF List, EditorOnly
  <2> QED
    BY <2>1, <2>4, <2>5
<1>3. CASE RemoveRule
  <2>1. file \in Seq(Rule)
    BY <1>3 DEF RemoveRule, Readable
  <2>2. editor.index \in DOMAIN file => RemoveAt(file, editor.index) \in Seq(Rule)
    BY <2>1 DEF RemoveAt
  <2>3. /\ editor' \in [pc : EditorPhases, rules : Seq(Rule), current : BOOLEAN,
                       rule : Rule \cup {None}, index : Nat]
        /\ editor'.pc = "idle" \/ editor'.rule \in Rule
    <3>1. CASE editor.index \in DOMAIN file
      <4>1. editor' = [pc |-> "save-remove", rules |-> RemoveAt(file, editor.index),
                       current |-> TRUE, rule |-> editor.rule, index |-> 0]
        BY <1>3, <3>1 DEF RemoveRule
      <4>2. RemoveAt(file, editor.index) \in Seq(Rule)
        BY <2>2, <3>1
      <4>3. editor.pc = "listed"
        BY <1>3 DEF RemoveRule
      <4> QED
        BY <4>1, <4>2, <4>3
    <3>2. CASE editor.index \notin DOMAIN file
      <4>1. editor' = NoEditor
        BY <1>3, <3>2 DEF RemoveRule
      <4> QED
        BY <4>1
    <3> QED
      BY <3>1, <3>2
  <2> QED
    BY <1>3, <2>3 DEF RemoveRule
<1>4. CASE EditorTruncate
  BY <1>4 DEF EditorTruncate
<1>5. CASE EditorWrite
  BY <1>5 DEF EditorWrite, Written
<1>6. CASE EditorKill
  BY <1>6 DEF EditorKill
<1>7. CASE Midnight
  BY <1>7 DEF Midnight
<1> QED
  BY <1>1, <1>2, <1>3, <1>4, <1>5, <1>6, <1>7 DEF EditorStep

\* A gate, its rules, its session and the file keep their types.
THEOREM TypeInvariance == Spec => []TypeInv
<1>1. Init => TypeInv
  <2> SUFFICES ASSUME Init PROVE TypeInv
    OBVIOUS
  <2>1. /\ editor \in [pc : EditorPhases, rules : Seq(Rule), current : BOOLEAN,
                      rule : Rule \cup {None}, index : Nat]
        /\ editor.pc = "idle"
    BY DEF Init, NoEditor, EditorPhases
  <2>2. file \in Seq(Rule) /\ rules \in [Runs -> Seq(Rule)]
    BY DEF Init
  <2>3. answers \in [Runs -> 0 .. MaxAnswers] /\ edits \in 0 .. MaxEdits
    BY BoundsAssumption DEF Init
  <2>4. /\ pc \in [Runs -> Phases] /\ flags \in [Runs -> Flags]
        /\ asked \in [Runs -> Descriptors \cup {None}]
        /\ session \in [Runs -> SUBSET Descriptors]
        /\ always \in [Runs -> SUBSET Descriptors]
        /\ midnight \in BOOLEAN /\ intended \subseteq Rule
        /\ \A r \in Runs : pc[r] \notin Busy
    BY DEF Init, Phases, Busy
  <2> QED
    BY <2>1, <2>2, <2>3, <2>4 DEF TypeInv, TypeOK, Held
<1>2. TypeInv /\ [Next]_vars => TypeInv'
  <2> SUFFICES ASSUME TypeInv, [Next]_vars PROVE TypeInv'
    OBVIOUS
  <2>1. CASE UNCHANGED vars
    BY <2>1 DEF vars, gate, TypeInv, TypeOK, Held
  <2>2. CASE \E r \in Runs : RunStep(r)
    BY <2>2, RunStepTyped
  <2>3. CASE EditorStep \/ Midnight
    BY <2>3, EditorStepTyped
  <2> QED
    BY <2>1, <2>2, <2>3 DEF Next
<1> QED
  BY <1>1, <1>2, PTL DEF Spec

\* The type invariant the runs check.
THEOREM TypeCorrect == Spec => []TypeOK
<1>1. TypeInv => TypeOK
  BY DEF TypeInv
<1> QED
  BY <1>1, TypeInvariance, PTL

------------------------------------------------------------------------------
(* Denies. *)

\* A run that consults rules executes nothing that a rule in force in its gate
\* denies: RulesGate.request, with its session looked up first.
THEOREM DenyIsLast == Spec => []DenyIsTheLastWord
<1>1. Init => DenyInv
  <2>1. Init => SessionsRespectDenies /\ RequestsRespectDenies /\ NewRunsAreEmpty
                /\ OnlyGatesRemember
    BY DEF Init, SessionsRespectDenies, RequestsRespectDenies, NewRunsAreEmpty,
           OnlyGatesRemember, Past
  <2> QED
    BY <2>1 DEF DenyInv
<1>2. DenyInv /\ TypeInv /\ TypeInv' /\ [Next]_vars => DenyInv'
  <2> SUFFICES ASSUME DenyInv, TypeInv, TypeInv', [Next]_vars
               PROVE  DenyInv'
    OBVIOUS
  <2> USE DEF DenyInv, SessionsRespectDenies, RequestsRespectDenies, NewRunsAreEmpty,
              OnlyGatesRemember, Past, Consults
  <2>1. CASE UNCHANGED vars
    BY <2>1 DEF vars, gate
  <2>2. ASSUME NEW r \in Runs, RunStep(r) PROVE DenyInv'
    <3>1. CASE Start(r)
      BY <2>2, <3>1 DEF Start, Load, TypeInv, TypeOK
    <3>2. CASE Ask(r)
      BY <2>2, <3>2 DEF Ask, TypeInv, TypeOK
    <3>3. CASE Permit(r)
      <4>1. Consults(r) => ~Denied(rules[r], asked[r], midnight)
        <5> SUFFICES ASSUME Consults(r) PROVE ~Denied(rules[r], asked[r], midnight)
          OBVIOUS
        <5>1. asked[r] \in session[r] \/ Match(rules[r], asked[r]) = "allow"
          BY <3>3 DEF Permit, Settled
        <5>2. Match(rules[r], asked[r]) = "allow" => ~Says(rules[r], asked[r], "deny")
          BY DEF Match
        <5> QED
          BY <5>1, <5>2, SaysIsDenied
      <4> QED
        BY <2>2, <3>3, <4>1 DEF Permit, Agree, TypeInv, TypeOK
    <3>4. CASE Execute(r)
      BY <2>2, <3>4 DEF Execute, Close, TypeInv, TypeOK
    <3>5. CASE Refuse(r)
      BY <2>2, <3>5 DEF Refuse, Close, TypeInv, TypeOK
    <3>6. CASE Prompt(r)
      <4>1. Consults(r) => ~Denied(rules[r], asked[r], midnight)
        <5>1. Match(rules[r], asked[r]) = "none"
          BY <3>6 DEF Prompt, Settled, Match
        <5>2. ~Says(rules[r], asked[r], "deny")
          BY <5>1 DEF Match
        <5> QED
          BY <5>2, SaysIsDenied
      <4> QED
        BY <2>2, <3>6, <4>1 DEF Prompt, TypeInv, TypeOK
    <3>7. CASE AnswerOnce(r)
      BY <2>2, <3>7 DEF AnswerOnce, Answer, Agree, TypeInv, TypeOK
    <3>8. CASE AnswerSession(r)
      BY <2>2, <3>8 DEF AnswerSession, Answer, Agree, TypeInv, TypeOK
    <3>9. CASE AnswerPersist(r)
      <4>1. asked[r] \in Descriptors /\ rules[r] \in Seq(Rule)
        BY <3>9 DEF AnswerPersist, Answer, TypeInv, TypeOK, Held, Busy
      <4>2. \A d : Denied(rules'[r], d, midnight) => Denied(rules[r], d, midnight)
        BY <3>9, <4>1, RuleForIsAllow, AllowDeniesNothing
        DEF AnswerPersist, TypeInv, TypeOK
      <4> QED
        BY <2>2, <3>9, <4>2 DEF AnswerPersist, Answer, TypeInv, TypeOK
    <3>10. CASE Truncate(r)
      BY <2>2, <3>10 DEF Truncate, TypeInv, TypeOK
    <3>11. CASE Write(r)
      BY <2>2, <3>11 DEF Write, Agree, TypeInv, TypeOK
    <3>12. CASE Kill(r)
      BY <2>2, <3>12 DEF Kill, TypeInv, TypeOK
    <3> QED
      BY <2>2, <3>1, <3>2, <3>3, <3>4, <3>5, <3>6, <3>7, <3>8, <3>9, <3>10, <3>11,
         <3>12 DEF RunStep
  <2>3. CASE EditorStep
    <3>1. UNCHANGED <<pc, flags, rules, session, asked, midnight>>
      BY <2>3 DEF EditorStep, Add, List, RemoveRule, EditorTruncate, EditorWrite,
                  EditorKill, EditorOnly, gate
    <3> QED
      BY <3>1
  <2>4. CASE Midnight
    <3>1. /\ UNCHANGED <<pc, flags, rules, session, asked>>
          /\ midnight = FALSE /\ midnight' = TRUE
      BY <2>4 DEF Midnight, gate, TypeInv, TypeOK
    <3>2. \A rs, d : Denied(rs, d, midnight') => Denied(rs, d, midnight)
      BY <3>1, MidnightDeniesNothing
    <3> QED
      BY <3>1, <3>2
  <2> QED
    BY <2>1, <2>2, <2>3, <2>4 DEF Next
<1>3. DenyInv => DenyIsTheLastWord
  BY SaysIsDenied
  DEF DenyInv, RequestsRespectDenies, DenyIsTheLastWord, Past
<1> QED
  BY <1>1, <1>2, <1>3, TypeInvariance, PTL DEF Spec

------------------------------------------------------------------------------
(* Consent. *)

\* What a session approves without asking, its human has said "always" to.
SessionsAreAgreed == \A r \in Runs : session[r] \subseteq always[r]

LEMMA RunStepConsents ==
  ASSUME TypeInv, SessionsAreAgreed, NEW r \in Runs, RunStep(r)
  PROVE  SessionsAreAgreed'
<1> USE DEF SessionsAreAgreed, TypeInv, TypeOK
<1>1. CASE UNCHANGED <<session, always>>
  BY <1>1
<1>2. CASE AnswerSession(r)
  BY <1>2 DEF AnswerSession
<1>3. CASE AnswerPersist(r)
  BY <1>3 DEF AnswerPersist
<1>4. CASE Kill(r)
  BY <1>4 DEF Kill
<1> QED
  BY <1>1, <1>2, <1>3, <1>4
  DEF RunStep, Start, Ask, Permit, Execute, Refuse, Prompt, AnswerOnce, Truncate, Write

LEMMA ConsentStep ==
  ASSUME TypeInv, SessionsAreAgreed, [Next]_vars
  PROVE  SessionsAreAgreed'
<1>1. CASE \E r \in Runs : RunStep(r)
  BY <1>1, RunStepConsents
<1>2. CASE EditorStep \/ Midnight \/ UNCHANGED vars
  <2>1. UNCHANGED <<session, always>>
    BY <1>2 DEF EditorStep, Add, List, RemoveRule, EditorTruncate, EditorWrite,
                EditorKill, EditorOnly, Midnight, vars, gate
  <2> QED
    BY <2>1 DEF SessionsAreAgreed
<1> QED
  BY <1>1, <1>2 DEF Next

\* Nothing runs without --yes, an allow rule, or a human who was asked for it or
\* said "always" to it: the only step past the gate without a prompt is Permit.
THEOREM EffectsHaveConsent == Spec => EveryEffectHasConsent
<1>1. Init => SessionsAreAgreed
  BY DEF Init, SessionsAreAgreed
<1>2. TypeInv /\ SessionsAreAgreed /\ [Next]_vars => SessionsAreAgreed'
  BY ConsentStep
<1>3. TypeInv /\ SessionsAreAgreed /\ [Next]_vars =>
        [\A r \in Runs : pc[r] = "asked" /\ pc'[r] = "go" =>
            \/ flags[r].yes
            \/ asked[r] \in always[r]
            \/ Says(rules[r], asked[r], "allow")]_vars
  <2> SUFFICES ASSUME TypeInv, SessionsAreAgreed, Next, NEW r \in Runs,
                      pc[r] = "asked", pc'[r] = "go"
               PROVE  \/ flags[r].yes
                      \/ asked[r] \in always[r]
                      \/ Says(rules[r], asked[r], "allow")
    OBVIOUS
  <2>1. PICK q \in Runs : RunStep(q)
    <3>1. EditorStep \/ Midnight => pc' = pc
      BY DEF EditorStep, Add, List, RemoveRule, EditorTruncate, EditorWrite,
             EditorKill, EditorOnly, Midnight, gate
    <3> QED
      BY <3>1 DEF Next
  <2>2. Permit(r)
    <3>1. q = r
      BY <2>1 DEF RunStep, Start, Load, Ask, Permit, Execute, Refuse, Prompt, AnswerOnce,
                  AnswerSession, AnswerPersist, Answer, Agree, Close, Truncate, Write,
                  Kill, TypeInv, TypeOK
    <3> QED
      BY <2>1, <3>1
      DEF RunStep, Start, Load, Ask, Execute, Refuse, Prompt, AnswerOnce, AnswerSession,
          AnswerPersist, Answer, Agree, Close, Truncate, Write, Kill, TypeInv, TypeOK
  <2>3. Settled(r) = "allow"
    BY <2>2 DEF Permit
  <2>4. Match(rules[r], asked[r]) = "allow" => Says(rules[r], asked[r], "allow")
    BY DEF Match
  <2> QED
    BY <2>3, <2>4 DEF Settled, SessionsAreAgreed
<1> QED
  BY <1>1, <1>2, <1>3, TypeInvariance, PTL DEF Spec, EveryEffectHasConsent

------------------------------------------------------------------------------
(* What the file covers. *)

\* What may be asked about and nobody has agreed to for good.
Open == {d \in Known : ~Agreed(d)}

\* No allow rule of the list matches anything in D.
Spares(rs, D) ==
  \A i \in DOMAIN rs : rs[i].decision = "allow" => \A d \in D : ~RuleMatches(rs[i], d)

\* The file, the gates and the command all spare what is open: each of them is
\* what the file will hold next.
CoverInv ==
  /\ Readable => Spares(file, Open)
  /\ \A r \in Runs : Spares(rules[r], Open)
  /\ Spares(editor.rules, Open)
  /\ \A r \in Runs : pc[r] \in Busy => asked[r] \in Known

LEMMA NothingSpares == \A D : Spares(<<>>, D)
BY DEF Spares

LEMMA SparesLess ==
  ASSUME NEW D, NEW E, E \subseteq D
  PROVE  \A rs : Spares(rs, D) => Spares(rs, E)
BY DEF Spares

LEMMA AppendSpares ==
  ASSUME NEW rs \in Seq(Rule), NEW D, Spares(rs, D), NEW rule \in Rule,
         rule.decision = "allow" => \A d \in D : ~RuleMatches(rule, d)
  PROVE  Spares(Append(rs, rule), D)
<1> SUFFICES ASSUME NEW i \in DOMAIN Append(rs, rule),
                    Append(rs, rule)[i].decision = "allow", NEW d \in D
             PROVE  ~RuleMatches(Append(rs, rule)[i], d)
  BY DEF Spares
<1>1. Append(rs, rule)[i] = rule \/ (i \in DOMAIN rs /\ Append(rs, rule)[i] = rs[i])
  OBVIOUS
<1> QED
  BY <1>1 DEF Spares

LEMMA RemovedFrom ==
  ASSUME NEW rs \in Seq(Rule), NEW n \in DOMAIN rs
  PROVE  /\ RemoveAt(rs, n) \in Seq(Rule)
         /\ \A i \in DOMAIN RemoveAt(rs, n) :
              \E j \in DOMAIN rs : RemoveAt(rs, n)[i] = rs[j]
         /\ \A j \in DOMAIN rs \ {n} :
              \E i \in DOMAIN RemoveAt(rs, n) : RemoveAt(rs, n)[i] = rs[j]
<1> DEFINE left == SubSeq(rs, 1, n - 1)
           right == SubSeq(rs, n + 1, Len(rs))
<1>1. /\ left \in Seq(Rule) /\ Len(left) = n - 1 /\ n \in 1 .. Len(rs) /\ Len(rs) \in Nat
      /\ right \in Seq(Rule) /\ Len(right) = Len(rs) - n
      /\ \A i \in 1 .. n - 1 : left[i] = rs[i]
      /\ \A i \in 1 .. Len(rs) - n : right[i] = rs[n + i]
  OBVIOUS
<1>2. RemoveAt(rs, n) = left \o right
  BY DEF RemoveAt
<1> HIDE DEF left, right
<1> DEFINE all == left \o right
<1>3. /\ all \in Seq(Rule) /\ Len(all) = Len(rs) - 1
      /\ \A i \in 1 .. Len(all) : all[i] = IF i <= n - 1 THEN left[i] ELSE right[i - (n - 1)]
  <2>1. /\ all \in Seq(Rule) /\ Len(all) = Len(left) + Len(right)
        /\ \A i \in 1 .. Len(left) + Len(right) :
             all[i] = IF i <= Len(left) THEN left[i] ELSE right[i - Len(left)]
    BY <1>1, ConcatProperties
  <2>2. Len(left) + Len(right) = Len(rs) - 1
    BY <1>1
  <2> QED
    BY <1>1, <2>1, <2>2
<1> HIDE DEF all
<1>4. /\ n \in 1 .. Len(rs) /\ Len(rs) \in Nat /\ Len(all) = Len(rs) - 1
      /\ DOMAIN all = 1 .. Len(rs) - 1 /\ DOMAIN rs = 1 .. Len(rs)
  BY <1>1, <1>3
<1>5. /\ \A i \in 1 .. n - 1 : i \in DOMAIN all /\ i \in DOMAIN rs
      /\ \A i \in n .. Len(rs) - 1 : i \in DOMAIN all /\ i + 1 \in DOMAIN rs
      /\ \A i \in DOMAIN all : i \in 1 .. n - 1 \/ i \in n .. Len(rs) - 1
  BY <1>4
<1>6. \A i \in 1 .. n - 1 : all[i] = rs[i]
  <2> SUFFICES ASSUME NEW i \in 1 .. n - 1 PROVE all[i] = rs[i]
    OBVIOUS
  <2>1. i \in 1 .. Len(all) /\ i <= n - 1
    BY <1>4
  <2>2. all[i] = left[i]
    BY <1>3, <2>1
  <2> QED
    BY <1>1, <2>2
<1>7. \A i \in n .. Len(rs) - 1 : all[i] = rs[i + 1]
  <2> SUFFICES ASSUME NEW i \in n .. Len(rs) - 1 PROVE all[i] = rs[i + 1]
    OBVIOUS
  <2>1. /\ i \in 1 .. Len(all) /\ ~(i <= n - 1) /\ i - (n - 1) \in 1 .. Len(rs) - n
        /\ n + (i - (n - 1)) = i + 1
    BY <1>4
  <2>2. all[i] = right[i - (n - 1)]
    BY <1>3, <2>1
  <2>3. right[i - (n - 1)] = rs[n + (i - (n - 1))]
    BY <1>1, <2>1
  <2> QED
    BY <2>1, <2>2, <2>3
<1>8. ASSUME NEW i \in DOMAIN all PROVE \E j \in DOMAIN rs : all[i] = rs[j]
  BY <1>5, <1>6, <1>7
<1>9. ASSUME NEW j \in DOMAIN rs \ {n} PROVE \E i \in DOMAIN all : all[i] = rs[j]
  <2>1. j \in 1 .. n - 1 \/ (j - 1 \in n .. Len(rs) - 1 /\ (j - 1) + 1 = j)
    BY <1>4
  <2>2. CASE j \in 1 .. n - 1
    BY <1>5, <1>6, <2>2
  <2>3. CASE j - 1 \in n .. Len(rs) - 1 /\ (j - 1) + 1 = j
    <3>1. all[j - 1] = rs[j] /\ j - 1 \in DOMAIN all
      BY <1>5, <1>7, <2>3
    <3> QED
      BY <3>1
  <2> QED
    BY <2>1, <2>2, <2>3
<1> QED
  BY <1>2, <1>3, <1>8, <1>9 DEF all

\* What is asked about a target that was resolved.
Resolved(d) ==
  /\ d.kind # "" /\ d.action # "" /\ d.platform # "" /\ d.name # ""
  /\ d.namespace = "" <=> d.platform = "podman"

LEMMA KnownTyped ==
  ASSUME TypeInv
  PROVE  \A d \in Known : d \in Descriptors /\ Resolved(d)
<1>1. ASSUME NEW r \in Runs, NEW ask \in Asks
      PROVE  Descriptor(r, ask) \in Descriptors /\ Resolved(Descriptor(r, ask))
  <2>1. flags[r] \in Flags
    BY DEF TypeInv, TypeOK
  <2>2. Resolved(Descriptor(r, ask))
    BY <2>1, TargetsAssumption DEF Descriptor, Resolved
  <2> QED
    BY <2>2, DescriptorTyped
<1>2. \A d \in Known : \E r \in Runs, ask \in Asks : d = Descriptor(r, ask)
  BY DEF Known
<1> QED
  BY <1>1, <1>2

\* Two known targets that agree on the platform both have a namespace or none.
LEMMA PersistCovers ==
  ASSUME TypeInv, NEW a \in Known, NEW d \in Known, RuleMatches(RuleFor(a), d)
  PROVE  a = d
<1>1. a \in Descriptors /\ d \in Descriptors /\ Resolved(a) /\ Resolved(d)
  BY KnownTyped
<1>2. DOMAIN d = {"kind", "action", "platform", "namespace", "name"}
  BY <1>1 DEF Descriptors
<1>3. /\ a.kind \in {"", d.kind} /\ a.action \in {"", d.action}
      /\ a.platform \in {"", d.platform} /\ a.namespace \in {"", d.namespace}
      /\ a.name \in {"", d.name}
  BY <1>2 DEF RuleMatches, RuleFor
<1>4. /\ a.kind = d.kind /\ a.action = d.action /\ a.platform = d.platform
      /\ a.namespace = d.namespace /\ a.name = d.name
  BY <1>1, <1>3 DEF Resolved
<1> QED
  BY <1>1, <1>4 DEF Descriptors

\* What is agreed to stays agreed to; targets stay what they are.
LEMMA OpenShrinks ==
  ASSUME TypeInv, UNCHANGED flags, \A r \in Runs : always[r] \subseteq always'[r]
  PROVE  Known' = Known /\ Open' \subseteq Open
<1>1. Known' = Known
  BY DEF Known, Descriptor
<1>2. \A d : Agreed(d) => Agreed(d)'
  BY DEF Agreed
<1> QED
  BY <1>1, <1>2 DEF Open

LEMMA RunKeepsCover ==
  ASSUME TypeInv, CoverInv, NEW r \in Runs, RunStep(r)
  PROVE  CoverInv'
<1>1. /\ UNCHANGED flags /\ \A q \in Runs : always[q] \subseteq always'[q]
  BY DEF RunStep, Start, Ask, Permit, Execute, Refuse, Prompt, AnswerOnce, AnswerSession,
         AnswerPersist, Truncate, Write, Kill, TypeInv, TypeOK
<1>2. Known' = Known /\ \A rs : Spares(rs, Open) => Spares(rs, Open')
  BY <1>1, OpenShrinks, SparesLess
<1>3. /\ rules \in [Runs -> Seq(Rule)] /\ pc \in [Runs -> Phases]
      /\ asked \in [Runs -> Descriptors \cup {None}]
  BY DEF TypeInv, TypeOK
<1>4. \A q \in Runs : pc'[q] \in Busy => asked'[q] \in Known
  <2>1. CASE Ask(r)
    BY <1>3, <2>1 DEF Ask, CoverInv, Known, Busy
  <2>2. CASE ~Ask(r)
    BY <1>3, <2>2
    DEF RunStep, Start, Load, Permit, Execute, Refuse, Prompt, AnswerOnce, AnswerSession,
        AnswerPersist, Answer, Agree, Close, Truncate, Write, Kill, CoverInv, Busy
  <2> QED
    BY <2>1, <2>2
<1>5. \A q \in Runs : Spares(rules'[q], Open')
  <2>1. CASE UNCHANGED rules
    BY <1>2, <2>1 DEF CoverInv
  <2>2. CASE \/ rules' = [rules EXCEPT ![r] = <<>>]
             \/ Readable /\ rules' = [rules EXCEPT ![r] = file]
    BY <1>2, <1>3, <2>2, NothingSpares DEF CoverInv
  <2>3. CASE AnswerPersist(r)
    <3>1. /\ rules' = [rules EXCEPT ![r] = Append(rules[r], RuleFor(asked[r]))]
          /\ always' = [always EXCEPT ![r] = @ \cup {asked[r]}] /\ pc[r] \in Busy
      BY <2>3 DEF AnswerPersist, Answer, Busy
    <3>2. asked[r] \in Known /\ RuleFor(asked[r]) \in Rule
      BY <3>1, KnownTyped, RuleForIsAllow DEF CoverInv
    <3>3. asked[r] \notin Open'
      <4>1. asked[r] \in always'[r]
        BY <3>1 DEF TypeInv, TypeOK
      <4> QED
        BY <4>1 DEF Open, Agreed
    <3>4. \A d \in Open' : ~RuleMatches(RuleFor(asked[r]), d)
      <4>1. Open' \subseteq Known
        BY <1>2 DEF Open
      <4> QED
        BY <3>2, <3>3, <4>1, PersistCovers
    <3>5. Spares(rules[r], Open') /\ rules[r] \in Seq(Rule)
      BY <1>2, <1>3 DEF CoverInv
    <3>6. Spares(Append(rules[r], RuleFor(asked[r])), Open')
      BY <3>2, <3>4, <3>5, AppendSpares
    <3>7. \A q \in Runs : q # r => rules'[q] = rules[q]
      BY <1>3, <3>1
    <3> QED
      BY <1>2, <1>3, <3>1, <3>6, <3>7 DEF CoverInv
  <2> QED
    BY <2>1, <2>2, <2>3
    DEF RunStep, Start, Load, Ask, Permit, Execute, Refuse, Prompt, AnswerOnce,
        AnswerSession, Truncate, Write, Kill
<1>6. Readable' => Spares(file', Open')
  <2>1. CASE UNCHANGED file
    BY <1>2, <2>1 DEF CoverInv, Readable
  <2>2. CASE Truncate(r)
    BY <2>2 DEF Truncate, Readable
  <2>3. CASE Write(r)
    <3>1. file' = rules[r] \/ file' = Garbled
      BY <2>3 DEF Write, Written
    <3> QED
      BY <1>2, <3>1 DEF CoverInv, Readable
  <2> QED
    BY <2>1, <2>2, <2>3
    DEF RunStep, Start, Ask, Permit, Execute, Refuse, Prompt, AnswerOnce, AnswerSession,
        AnswerPersist, Kill
<1>7. editor'.rules = editor.rules
  BY DEF RunStep, Start, Ask, Permit, Execute, Refuse, Prompt, AnswerOnce, AnswerSession,
         AnswerPersist, Truncate, Write, Kill, TypeInv, TypeOK
<1> QED
  BY <1>2, <1>4, <1>5, <1>6, <1>7 DEF CoverInv

LEMMA EditorKeepsCover ==
  ASSUME TypeInv, CoverInv, EditorStep \/ Midnight \/ UNCHANGED vars
  PROVE  CoverInv'
<1>1. UNCHANGED <<pc, flags, rules, asked, always>>
  BY DEF EditorStep, Add, List, RemoveRule, EditorTruncate, EditorWrite, EditorKill,
         EditorOnly, Midnight, vars, gate
<1>2. Known' = Known /\ Open' = Open
  BY <1>1 DEF Known, Descriptor, Open, Agreed
<1>3. Readable' => Spares(file', Open)
  <2>1. CASE UNCHANGED file
    BY <2>1 DEF CoverInv, Readable
  <2>2. CASE EditorTruncate
    BY <2>2 DEF EditorTruncate, Readable
  <2>3. CASE EditorWrite
    <3>1. file' = editor.rules \/ file' = Garbled
      BY <2>3 DEF EditorWrite, Written
    <3> QED
      BY <3>1 DEF CoverInv, Readable
  <2> QED
    BY <2>1, <2>2, <2>3
    DEF EditorStep, Add, List, RemoveRule, EditorKill, EditorOnly, Midnight, vars
<1>4. Spares(editor'.rules, Open)
  <2>1. CASE Add
    <3>1. file \in Seq(Rule) /\ Spares(file, Open)
      BY <2>1 DEF Add, Editor, Readable, TypeInv, TypeOK, CoverInv
    <3>2. PICK rule \in AdminRules : editor'.rules = Append(file, rule)
      BY <2>1 DEF Add
    <3>3. rule.decision = "allow" => \A d \in Open : ~RuleMatches(rule, d)
      BY DEF Open, Agreed
    <3> QED
      BY <3>1, <3>2, <3>3, RulesAssumption, AppendSpares
  <2>2. CASE RemoveRule
    <3>1. file \in Seq(Rule) /\ Spares(file, Open)
      BY <2>2 DEF RemoveRule, Readable, TypeInv, TypeOK, CoverInv
    <3>2. \/ editor'.rules = <<>>
          \/ editor.index \in DOMAIN file /\ editor'.rules = RemoveAt(file, editor.index)
      BY <2>2 DEF RemoveRule, NoEditor
    <3>3. editor.index \in DOMAIN file => Spares(RemoveAt(file, editor.index), Open)
      BY <3>1, RemovedFrom DEF Spares
    <3> QED
      BY <3>2, <3>3, NothingSpares
  <2>3. CASE editor'.rules \in {<<>>, editor.rules}
    BY <2>3, NothingSpares DEF CoverInv
  <2>4. CASE List \/ EditorTruncate \/ EditorWrite \/ EditorKill \/ Midnight
             \/ UNCHANGED editor
    BY <2>3, <2>4 DEF List, EditorTruncate, EditorWrite, EditorKill, Midnight, NoEditor,
                      TypeInv, TypeOK
  <2> QED
    BY <2>1, <2>2, <2>4 DEF EditorStep, vars
<1> QED
  BY <1>1, <1>2, <1>3, <1>4 DEF CoverInv

\* No allow rule of the file reaches further than what somebody agreed to for
\* good: a persisted answer names its target in full (_add_rule,
\* _target_from_ref), and the runs and commands that rewrite the file write
\* what they read from it.
THEOREM FileCoversConsent == Spec => []SavedRulesCoverOnlyConsent
<1>1. Init => CoverInv
  BY NothingSpares DEF Init, CoverInv, NoEditor, Busy
<1>2. TypeInv /\ CoverInv /\ [Next]_vars => CoverInv'
  BY RunKeepsCover, EditorKeepsCover DEF Next
<1>3. CoverInv => SavedRulesCoverOnlyConsent
  BY DEF CoverInv, SavedRulesCoverOnlyConsent, Spares, Open
<1> QED
  BY <1>1, <1>2, <1>3, TypeInvariance, PTL DEF Spec

------------------------------------------------------------------------------
(* Which denies bind. *)

Keeps(rs, S) == \A rule \in S : \E i \in DOMAIN rs : rs[i] = rule

HistoryTyped ==
  /\ stale \in BOOLEAN /\ current \in [Runs -> BOOLEAN]
  /\ bound \in [Runs -> SUBSET Denies(Rule)]
  /\ \A r \in Runs : bound[r] # {} => Consults(r)

\* As long as nobody has rewritten the file from an old view of it, whoever may
\* write it next without doing so keeps every deny that is meant to be in place,
\* and every gate keeps the denies it was started under.
DeniesKept ==
  /\ Readable => Keeps(file, Denies(intended))
  /\ \A r \in Runs : pc[r] # "ended" =>
       /\ current[r] => Keeps(rules[r], Denies(intended))
       /\ Keeps(rules[r], bound[r])
  /\ editor.current /\ editor.pc \in {"save-add", "add"} =>
       Keeps(editor.rules, Denies(intended \cup {editor.rule}))
  /\ editor.current /\ editor.pc \in {"save-remove", "remove"} =>
       Keeps(editor.rules, Denies(intended \ {editor.rule}))

BoundInv == HistoryTyped /\ (~stale => DeniesKept)

LEMMA AppendKeeps ==
  ASSUME NEW rs \in Seq(Rule), NEW rule \in Rule
  PROVE  /\ \A S : Keeps(rs, S) => Keeps(Append(rs, rule), S)
         /\ \A S : Keeps(rs, Denies(S)) => Keeps(Append(rs, rule), Denies(S \cup {rule}))
<1>1. /\ \A i \in DOMAIN rs : i \in DOMAIN Append(rs, rule) /\ Append(rs, rule)[i] = rs[i]
      /\ \E i \in DOMAIN Append(rs, rule) : Append(rs, rule)[i] = rule
  <2>1. /\ Len(rs) + 1 \in DOMAIN Append(rs, rule) /\ Append(rs, rule)[Len(rs) + 1] = rule
        /\ \A i \in DOMAIN rs : i \in DOMAIN Append(rs, rule) /\ Append(rs, rule)[i] = rs[i]
    OBVIOUS
  <2> QED
    BY <2>1
<1>2. \A S : Keeps(rs, S) => Keeps(Append(rs, rule), S)
  BY <1>1 DEF Keeps
<1>3. \A S : Denies(S \cup {rule}) \subseteq Denies(S) \cup {rule}
  BY DEF Denies
<1> QED
  BY <1>1, <1>2, <1>3 DEF Keeps

\* Taking a rule out loses no other.
LEMMA RemoveKeeps ==
  ASSUME NEW rs \in Seq(Rule), NEW n \in DOMAIN rs, NEW S, Keeps(rs, Denies(S))
  PROVE  Keeps(RemoveAt(rs, n), Denies(S \ {rs[n]}))
<1> SUFFICES ASSUME NEW rule \in Denies(S \ {rs[n]})
             PROVE  \E i \in DOMAIN RemoveAt(rs, n) : RemoveAt(rs, n)[i] = rule
  BY DEF Keeps
<1>1. rule \in Denies(S) /\ rule # rs[n]
  BY DEF Denies
<1>2. PICK j \in DOMAIN rs : rs[j] = rule
  BY <1>1 DEF Keeps
<1>3. j \in DOMAIN rs \ {n}
  BY <1>1, <1>2
<1> QED
  BY <1>2, <1>3, RemovedFrom

LEMMA RunHistoryTyped ==
  ASSUME TypeInv, HistoryTyped, NEW r \in Runs, RunStep(r)
  PROVE  HistoryTyped'
<1>1. /\ stale' \in BOOLEAN /\ current' \in [Runs -> BOOLEAN] /\ UNCHANGED <<flags, intended>>
  BY DEF RunStep, Start, Ask, Permit, Execute, Refuse, Prompt, AnswerOnce, AnswerSession,
         AnswerPersist, Truncate, Write, Kill, HistoryTyped, Consults
<1>2. \/ UNCHANGED bound
      \/ bound' = [bound EXCEPT ![r] = {}]
      \/ Consults(r) /\ bound' = [bound EXCEPT ![r] = Denies(intended)]
  BY DEF RunStep, Start, Ask, Permit, Execute, Refuse, Prompt, AnswerOnce, AnswerSession,
         AnswerPersist, Truncate, Write, Kill
<1>3. Denies(intended) \subseteq Denies(Rule)
  BY DEF Denies, TypeInv, TypeOK
<1>4. \A q \in Runs : Consults(q)' <=> Consults(q)
  BY <1>1 DEF Consults
<1> QED
  BY <1>1, <1>2, <1>3, <1>4 DEF HistoryTyped

LEMMA RunKeepsDenies ==
  ASSUME TypeInv, BoundInv, NEW r \in Runs, RunStep(r), ~stale'
  PROVE  DeniesKept'
<1>1. ~stale /\ DeniesKept /\ UNCHANGED intended
  <2>1. /\ UNCHANGED stale \/ stale' = (stale \/ ~current[r])
        /\ UNCHANGED intended
    BY DEF RunStep, Start, Ask, Permit, Execute, Refuse, Prompt, AnswerOnce,
           AnswerSession, AnswerPersist, Truncate, Write, Kill
  <2>2. ~stale
    BY <2>1, Zenon
  <2> QED
    BY <2>1, <2>2 DEF BoundInv
<1>2. /\ rules \in [Runs -> Seq(Rule)] /\ pc \in [Runs -> Phases]
      /\ asked \in [Runs -> Descriptors \cup {None}]
      /\ current \in [Runs -> BOOLEAN] /\ bound \in [Runs -> SUBSET Denies(Rule)]
  BY DEF TypeInv, TypeOK, BoundInv, HistoryTyped
<1>3. /\ editor'.rules = editor.rules /\ editor'.pc = editor.pc
      /\ editor'.rule = editor.rule /\ (editor'.current => editor.current)
  BY DEF RunStep, Start, Ask, Permit, Execute, Refuse, Prompt, AnswerOnce, AnswerSession,
         AnswerPersist, Truncate, Write, Kill, TypeInv, TypeOK
<1>4. Readable' => Keeps(file', Denies(intended))
  <2>1. CASE UNCHANGED file
    BY <1>1, <2>1 DEF DeniesKept, Readable
  <2>2. CASE Truncate(r)
    BY <2>2 DEF Truncate, Readable
  <2>3. CASE Write(r)
    <3>1. file' = rules[r] \/ file' = Garbled
      BY <2>3 DEF Write, Written
    <3>2. current[r] /\ pc[r] # "ended"
      BY <2>3 DEF Write
    <3> QED
      BY <1>1, <3>1, <3>2 DEF DeniesKept, Readable
  <2> QED
    BY <2>1, <2>2, <2>3
    DEF RunStep, Start, Ask, Permit, Execute, Refuse, Prompt, AnswerOnce, AnswerSession,
        AnswerPersist, Kill
<1>5. ASSUME NEW q \in Runs, pc'[q] # "ended"
      PROVE  /\ current'[q] => Keeps(rules'[q], Denies(intended))
             /\ Keeps(rules'[q], bound'[q])
  <2>1. CASE pc[q] # "ended" /\ (current'[q] => current[q]) /\ rules'[q] = rules[q]
             /\ bound'[q] = bound[q]
    BY <1>1, <2>1 DEF DeniesKept
  <2>2. CASE Start(r)
    <3>1. CASE q = r
      <4>1. CASE Consults(r)
        <5>1. Readable /\ rules'[q] = file /\ bound'[q] = Denies(intended)
          BY <1>2, <1>5, <2>2, <3>1, <4>1 DEF Start, Load
        <5> QED
          BY <1>1, <5>1 DEF DeniesKept
      <4>2. CASE ~Consults(r)
        <5>1. bound'[q] = {} /\ ~current'[q]
          BY <1>2, <2>2, <3>1, <4>2 DEF Start, Consults
        <5> QED
          BY <5>1 DEF Keeps
      <4> QED
        BY <4>1, <4>2
    <3>2. CASE q # r
      BY <1>2, <1>5, <2>1, <2>2, <3>2 DEF Start, Load
    <3> QED
      BY <3>1, <3>2
  <2>3. CASE AnswerPersist(r)
    <3>1. CASE q = r
      <4>1. /\ rules'[q] = Append(rules[q], RuleFor(asked[q])) /\ pc[q] = "prompt"
            /\ current'[q] = current[q] /\ bound'[q] = bound[q]
        BY <1>2, <2>3, <3>1 DEF AnswerPersist, Answer
      <4>2. RuleFor(asked[q]) \in Rule /\ rules[q] \in Seq(Rule)
        BY <1>2, <4>1, RuleForIsAllow DEF TypeInv, Held, Busy
      <4>3. /\ current[q] => Keeps(rules[q], Denies(intended))
            /\ Keeps(rules[q], bound[q])
        BY <1>1, <4>1 DEF DeniesKept
      <4> QED
        BY <4>1, <4>2, <4>3, AppendKeeps
    <3>2. CASE q # r
      BY <1>2, <1>5, <2>1, <2>3, <3>2 DEF AnswerPersist
    <3> QED
      BY <3>1, <3>2
  <2>4. CASE Write(r)
    <3>1. current'[q] => q = r
      BY <2>4 DEF Write
    <3>2. current[r] /\ pc[r] = "write" /\ UNCHANGED <<rules, bound>>
      BY <2>4 DEF Write
    <3>3. pc[q] # "ended"
      BY <1>2, <1>5, <2>4 DEF Write, Agree
    <3> QED
      BY <2>1, <3>1, <3>2, <3>3
  <2>5. CASE Kill(r)
    <3>1. q # r
      BY <1>2, <1>5, <2>5 DEF Kill
    <3> QED
      BY <1>2, <1>5, <2>1, <2>5, <3>1 DEF Kill
  <2>6. CASE Ask(r) \/ Permit(r) \/ Execute(r) \/ Refuse(r) \/ Prompt(r) \/ AnswerOnce(r)
             \/ AnswerSession(r) \/ Truncate(r)
    <3>1. UNCHANGED <<rules, bound, current>>
      BY <2>6 DEF Ask, Permit, Execute, Refuse, Prompt, AnswerOnce, AnswerSession, Truncate
    <3>2. pc[q] # "ended"
      BY <1>2, <1>5, <2>6 DEF Ask, Permit, Execute, Refuse, Prompt, AnswerOnce,
         AnswerSession, Answer, Agree, Close, Truncate
    <3> QED
      BY <2>1, <3>1, <3>2
  <2> QED
    BY <2>2, <2>3, <2>4, <2>5, <2>6 DEF RunStep
<1> QED
  BY <1>1, <1>3, <1>4, <1>5 DEF DeniesKept

LEMMA EditorKeepsDenies ==
  ASSUME TypeInv, BoundInv, EditorStep \/ Midnight \/ UNCHANGED vars, ~stale'
  PROVE  DeniesKept'
<1>1. ~stale /\ DeniesKept /\ UNCHANGED <<pc, rules, bound>>
  <2>1. /\ \/ UNCHANGED stale
           \/ stale' = (stale \/ ~editor.current)
           \/ stale' = (stale \/ file[editor.index] # editor.rule)
        /\ UNCHANGED <<pc, rules, bound>>
    BY DEF EditorStep, Add, List, RemoveRule, EditorTruncate, EditorWrite, EditorKill,
           EditorOnly, Midnight, vars, gate
  <2>2. ~stale
    BY <2>1, Zenon
  <2> QED
    BY <2>1, <2>2 DEF BoundInv
<1>2. editor \in [pc : EditorPhases, rules : Seq(Rule), current : BOOLEAN,
                  rule : Rule \cup {None}, index : Nat]
  BY DEF TypeInv, TypeOK
<1>3. CASE UNCHANGED <<file, current, intended, editor>>
  BY <1>1, <1>3 DEF DeniesKept, Readable
<1>4. ASSUME UNCHANGED <<current, intended>>
      PROVE  \A r \in Runs : pc'[r] # "ended" =>
               /\ current'[r] => Keeps(rules'[r], Denies(intended'))
               /\ Keeps(rules'[r], bound'[r])
  BY <1>1, <1>4 DEF DeniesKept
<1>5. CASE Add
  <2>1. UNCHANGED <<file, current, intended>>
    BY <1>5 DEF Add, EditorOnly, gate
  <2>2. file \in Seq(Rule) /\ Keeps(file, Denies(intended)) /\ Readable'
    BY <1>1, <1>5, <2>1 DEF Add, Editor, Readable, TypeInv, TypeOK, DeniesKept
  <2>3. PICK rule \in AdminRules :
          editor' = [pc |-> "save-add", rules |-> Append(file, rule), current |-> TRUE,
                     rule |-> rule, index |-> 0]
    BY <1>5 DEF Add
  <2>4. Keeps(Append(file, rule), Denies(intended \cup {rule}))
    BY <2>2, RulesAssumption, AppendKeeps
  <2>5. /\ editor'.pc = "save-add" /\ editor'.rules = Append(file, rule)
        /\ editor'.rule = rule
    BY <2>3
  <2> QED
    BY <1>4, <2>1, <2>2, <2>4, <2>5 DEF DeniesKept
<1>6. CASE RemoveRule
  <2>1. UNCHANGED <<file, current, intended>>
    BY <1>6 DEF RemoveRule, gate
  <2>2. file \in Seq(Rule) /\ Keeps(file, Denies(intended)) /\ Readable'
    BY <1>1, <1>6, <2>1 DEF RemoveRule, Readable, TypeInv, TypeOK, DeniesKept
  <2>3. CASE editor.index \in DOMAIN file
    <3>1. /\ editor' = [pc |-> "save-remove", rules |-> RemoveAt(file, editor.index),
                        current |-> TRUE, rule |-> editor.rule, index |-> 0]
          /\ file[editor.index] = editor.rule
      BY <1>6, <2>3 DEF RemoveRule
    <3>2. Keeps(RemoveAt(file, editor.index), Denies(intended \ {editor.rule}))
      BY <2>2, <2>3, <3>1, RemoveKeeps
    <3>3. /\ editor'.pc = "save-remove" /\ editor'.rules = RemoveAt(file, editor.index)
          /\ editor'.rule = editor.rule
      BY <3>1
    <3> QED
      BY <1>4, <2>1, <2>2, <3>2, <3>3 DEF DeniesKept
  <2>4. CASE editor.index \notin DOMAIN file
    <3>1. editor'.pc = "idle"
      BY <1>6, <2>4 DEF RemoveRule, NoEditor
    <3> QED
      BY <1>4, <2>1, <2>2, <3>1 DEF DeniesKept
  <2> QED
    BY <2>3, <2>4
<1>7. CASE EditorTruncate
  <2>1. /\ UNCHANGED <<current, intended>> /\ ~Readable'
        /\ editor' = [editor EXCEPT !.pc = IF @ = "save-add" THEN "add" ELSE "remove"]
        /\ editor.pc \in {"save-add", "save-remove"}
    BY <1>7 DEF EditorTruncate, gate, Readable
  <2>2. /\ editor'.rules = editor.rules /\ editor'.rule = editor.rule
        /\ editor'.current = editor.current
        /\ editor'.pc \in {"save-add", "add"} => editor.pc \in {"save-add", "add"}
        /\ editor'.pc \in {"save-remove", "remove"} => editor.pc \in {"save-remove", "remove"}
    BY <1>2, <2>1
  <2> QED
    BY <1>1, <1>4, <2>1, <2>2 DEF DeniesKept
<1>8. CASE EditorWrite
  <2>1. /\ editor.current /\ editor'.pc = "idle" /\ \A r \in Runs : ~current'[r]
        /\ file' = editor.rules \/ file' = Garbled
        /\ editor.pc \in {"add", "remove"}
        /\ intended' = IF editor.pc = "add" THEN intended \cup {editor.rule}
                       ELSE intended \ {editor.rule}
    BY <1>8 DEF EditorWrite, NoEditor, Written
  <2>2. Readable' => Keeps(file', Denies(intended'))
    BY <1>1, <2>1 DEF DeniesKept, Readable
  <2> QED
    BY <1>1, <2>1, <2>2 DEF DeniesKept
<1>9. CASE List \/ EditorKill
  <2>1. UNCHANGED <<file, current, intended>>
    BY <1>9 DEF List, EditorKill, EditorOnly, gate
  <2>2. editor'.pc \in {"idle", "listed"}
    BY <1>9 DEF List, EditorKill, NoEditor
  <2> QED
    BY <1>1, <1>4, <2>1, <2>2 DEF DeniesKept, Readable
<1>10. CASE Midnight \/ UNCHANGED vars
  BY <1>3, <1>10 DEF Midnight, vars, gate
<1> QED
  BY <1>5, <1>6, <1>7, <1>8, <1>9, <1>10 DEF EditorStep

LEMMA EditorHistoryTyped ==
  ASSUME TypeInv, HistoryTyped, EditorStep \/ Midnight \/ UNCHANGED vars
  PROVE  HistoryTyped'
<1>1. UNCHANGED <<flags, bound>>
  BY DEF EditorStep, Add, List, RemoveRule, EditorTruncate, EditorWrite, EditorKill,
         EditorOnly, Midnight, vars, gate
<1>2. stale' \in BOOLEAN /\ current' \in [Runs -> BOOLEAN]
  BY DEF EditorStep, Add, List, RemoveRule, EditorTruncate, EditorWrite, EditorKill,
         EditorOnly, Midnight, vars, gate, HistoryTyped
<1> QED
  BY <1>1, <1>2 DEF HistoryTyped, Consults

\* As long as nobody rewrites the file from an old view of it, a deny that was
\* added and not taken back binds every run that starts afterwards: a half
\* written file stops the run (load_rules), a whole one holds the deny, and the
\* gate keeps it to the end (RulesGate.request).
THEOREM DeniesBind == Spec => []DenyBindsLaterRuns
<1>1. Init => BoundInv
  <2> SUFFICES ASSUME Init PROVE BoundInv
    OBVIOUS
  <2>1. /\ \A S : S = {} => Keeps(<<>>, Denies(S)) /\ Keeps(<<>>, S)
    BY DEF Keeps, Denies
  <2>2. /\ file = <<>> /\ intended = {} /\ editor.pc = "idle"
        /\ rules = [r \in Runs |-> <<>>] /\ bound = [r \in Runs |-> {}]
        /\ current = [r \in Runs |-> FALSE] /\ stale = FALSE
    BY DEF Init, NoEditor
  <2>3. HistoryTyped
    BY <2>2 DEF HistoryTyped
  <2>4. DeniesKept
    BY <2>1, <2>2 DEF DeniesKept
  <2> QED
    BY <2>3, <2>4 DEF BoundInv
<1>2. TypeInv /\ BoundInv /\ [Next]_vars => BoundInv'
  <2> SUFFICES ASSUME TypeInv, BoundInv, [Next]_vars PROVE BoundInv'
    OBVIOUS
  <2>1. CASE \E r \in Runs : RunStep(r)
    BY <2>1, RunHistoryTyped, RunKeepsDenies DEF BoundInv
  <2>2. CASE EditorStep \/ Midnight \/ UNCHANGED vars
    BY <2>2, EditorHistoryTyped, EditorKeepsDenies DEF BoundInv
  <2> QED
    BY <2>1, <2>2 DEF Next
<1>3. BoundInv /\ DenyIsTheLastWord => DenyBindsLaterRuns
  <2> SUFFICES ASSUME BoundInv, DenyIsTheLastWord, ~stale, NEW r \in Runs, pc[r] = "go",
                      NEW rule \in bound[r], RuleMatches(rule, asked[r])
               PROVE  FALSE
    BY DEF DenyBindsLaterRuns, Binds
  <2>1. /\ Consults(r) /\ Keeps(rules[r], bound[r])
        /\ rule.decision = "deny" /\ rule.expires = "never"
    BY DEF BoundInv, HistoryTyped, DeniesKept, Denies
  <2>2. PICK i \in DOMAIN rules[r] : rules[r][i] = rule
    BY <2>1 DEF Keeps
  <2>3. Says(rules[r], asked[r], "deny")
    BY <2>1, <2>2 DEF Says, Active, RuleExpired
  <2> QED
    BY <2>1, <2>3 DEF DenyIsTheLastWord
<1> QED
  BY <1>1, <1>2, <1>3, TypeInvariance, DenyIsLast, PTL DEF Spec
=============================================================================
