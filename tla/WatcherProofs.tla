--------------------------- MODULE WatcherProofs ---------------------------
(***************************************************************************)
(* For every set of targets, capacity and cooldown: analyses of a target   *)
(* are a cooldown apart, no crash is dropped for the sake of another       *)
(* target, and every crash that is found is taken up, in its turn.         *)
(*                                                                         *)
(* The debouncer knows keys and a clock, the properties speak of targets.  *)
(* The invariant ties the two: what is left of the cooldown of a key and   *)
(* the time since the last analysis of its target make up one cooldown.    *)
(* And it says where a crash that is owed may be: in the channel, in the   *)
(* hand of the goroutine or, once the program is told to stop, dropped     *)
(* behind all the others.                                                  *)
(***************************************************************************)
EXTENDS Watcher, TLAPS

\* What the goroutine is sending, what the loop is owed, and what the debouncer
\* knows.
SendingFound == reader = "sending" <=> found # None

Ledger ==
  /\ \A i \in 1 .. Len(channel) : owed[i] = channel[i]
  /\ \/ found = None /\ Len(owed) = Len(channel)
     \/ Len(owed) = Len(channel) + 1
        /\ \/ found # None /\ found = owed[Len(owed)]
           \/ found = None /\ signalled /\ reader = "closed"

Complementary == \A t \in Targets : rest[Key(t)] + age[t] = Cooldown

LoopInv == TypeOK /\ SendingFound /\ Ledger /\ Complementary

\* No two targets share a key (CrashEvent.Key).
LEMMA KeysDiffer ==
  ASSUME NEW t \in Targets, NEW u \in Targets, Key(t) = Key(u)
  PROVE  t = u
<1>1. /\ t = [namespace |-> t.namespace, name |-> t.name]
      /\ u = [namespace |-> u.namespace, name |-> u.name]
  BY TargetsAssumption
<1>2. t.name = u.name /\ t.namespace = u.namespace
  BY DEF Key
<1> QED
  BY <1>1, <1>2

\* One tick takes from the rest what it gives to the age.
LEMMA ClockStep ==
  ASSUME NEW n \in 0 .. Cooldown, NEW m \in 0 .. Cooldown, n + m = Cooldown
  PROVE  /\ Less(n) \in 0 .. Cooldown /\ More(m) \in 0 .. Cooldown
         /\ Less(n) + More(m) = Cooldown
BY NumbersAssumption DEF Less, More

------------------------------------------------------------------------------
(* Types. *)

\* What is watched, and what may be printed, hangs on the platform alone.
LEMMA SamePlatform ==
  ASSUME UNCHANGED platform
  PROVE  Watched' = Watched /\ Printable' = Printable
BY DEF Watched, Printable, States

LEMMA ReaderTyped ==
  ASSUME TypeOK, SendingFound, Reader
  PROVE  TypeOK'
<1>1. UNCHANGED <<platform, runtime, pc, event, rest, age, signalled>>
  BY DEF Reader, ReadNothing, ReadCrash, ReadGarbage, Send, Close, ReaderOnly
<1>2. Watched' = Watched /\ Printable' = Printable
  BY <1>1, SamePlatform
<1>3. ASSUME printed # <<>>
      PROVE  /\ Tail(printed) \in Seq(Printable)
             /\ Len(Tail(printed)) <= MaxPrinted
             /\ Head(printed) # None => Head(printed).target \in Watched
  <2>1. printed \in Seq(Printable) /\ Len(printed) <= MaxPrinted
    BY DEF TypeOK
  <2>2. Head(printed) \in Printable
    BY <1>3, <2>1
  <2> QED
    BY <1>3, <2>1, <2>2, NumbersAssumption DEF Printable
<1>4. CASE ReadNothing
  BY <1>1, <1>2, <1>3, <1>4 DEF ReadNothing, TypeOK
<1>5. CASE ReadCrash
  BY <1>1, <1>2, <1>3, <1>5 DEF ReadCrash, TypeOK
<1>6. CASE ReadGarbage
  BY <1>1, <1>2, <1>3, <1>6 DEF ReadGarbage, TypeOK
<1>7. CASE Send
  <2>1. found \in Watched
    BY <1>7 DEF Send, TypeOK, SendingFound
  <2> QED
    BY <1>1, <1>2, <1>7, <2>1, NumbersAssumption DEF Send, TypeOK
<1>8. CASE Close
  BY <1>1, <1>2, <1>8 DEF Close, TypeOK
<1> QED
  BY <1>4, <1>5, <1>6, <1>7, <1>8 DEF Reader

LEMMA MainTyped ==
  ASSUME TypeOK, Ledger, Main
  PROVE  TypeOK'
<1>1. UNCHANGED <<platform, printed, runtime, reader, found, signalled>>
  BY DEF Main, Skip, Analyze, AnalysisEnds, Stop, MainOnly
<1>2. Watched' = Watched /\ Printable' = Printable
  BY <1>1, SamePlatform
<1>3. ASSUME Take
      PROVE  /\ event' \in Watched
             /\ channel' \in Seq(Watched) /\ Len(channel') <= Capacity
             /\ owed' \in Seq(Watched)
  <2>1. channel \in Seq(Watched) /\ channel # <<>> /\ Len(channel) <= Capacity
    BY <1>3 DEF Take, TypeOK
  <2>2. owed \in Seq(Watched) /\ owed # <<>>
    <3>1. Len(channel) \in Nat \ {0} /\ owed \in Seq(Watched)
      BY <2>1 DEF TypeOK
    <3>2. Len(owed) >= Len(channel)
      BY <3>1 DEF Ledger
    <3> QED
      BY <3>1, <3>2
  <2> QED
    BY <1>3, <2>1, <2>2, NumbersAssumption DEF Take
<1>4. CASE Skip
  BY <1>1, <1>2, <1>3, <1>4 DEF Skip, Take, TypeOK
<1>5. CASE Analyze
  <2>1. rest' \in [Keys -> 0 .. Cooldown] /\ age' \in [Targets -> 0 .. Cooldown]
    <3>1. 0 \in 0 .. Cooldown /\ Cooldown \in 0 .. Cooldown
      BY NumbersAssumption
    <3>2. /\ rest' = [rest EXCEPT ![Key(event')] = Cooldown]
          /\ age' = [age EXCEPT ![event'] = 0]
      BY <1>5 DEF Analyze
    <3> QED
      BY <3>1, <3>2 DEF TypeOK
  <2> QED
    BY <1>1, <1>2, <1>3, <1>5, <2>1 DEF Analyze, TypeOK
<1>6. CASE AnalysisEnds
  BY <1>1, <1>2, <1>6 DEF AnalysisEnds, TypeOK
<1>7. CASE Stop
  BY <1>1, <1>2, <1>7 DEF Stop, TypeOK
<1> QED
  BY <1>4, <1>5, <1>6, <1>7 DEF Main

LEMMA WorldTyped ==
  ASSUME TypeOK, World
  PROVE  TypeOK'
<1>1. UNCHANGED <<platform, reader, found, channel, pc, event, rest, age, owed>>
  BY DEF World, RuntimePrints, RuntimeExits, Signal
<1>2. Watched' = Watched /\ Printable' = Printable
  BY <1>1, SamePlatform
<1>3. printed' \in Seq(Printable) /\ Len(printed') <= MaxPrinted
  <2>1. CASE RuntimePrints
    <3>1. PICK o \in Printable : printed' = Append(printed, o)
      BY <2>1 DEF RuntimePrints
    <3> QED
      BY <2>1, <3>1, NumbersAssumption DEF RuntimePrints, TypeOK
  <2>2. CASE UNCHANGED printed
    BY <2>2 DEF TypeOK
  <2> QED
    BY <2>1, <2>2 DEF World, RuntimeExits, Signal
<1>4. runtime' \in {"running", "exited"} /\ signalled' \in BOOLEAN
  BY DEF World, RuntimePrints, RuntimeExits, Signal, TypeOK
<1> QED
  BY <1>1, <1>2, <1>3, <1>4 DEF TypeOK

LEMMA TickTyped ==
  ASSUME TypeOK, Tick
  PROVE  TypeOK'
<1>1. UNCHANGED <<platform, printed, runtime, reader, found, channel, pc, event,
                  owed, signalled>>
  BY DEF Tick
<1>2. Watched' = Watched /\ Printable' = Printable
  BY <1>1, SamePlatform
<1>3. rest' \in [Keys -> 0 .. Cooldown] /\ age' \in [Targets -> 0 .. Cooldown]
  BY NumbersAssumption DEF Tick, TypeOK, Less, More
<1> QED
  BY <1>1, <1>2, <1>3 DEF TypeOK

------------------------------------------------------------------------------
(* The invariant. *)

LEMMA ReaderStep ==
  ASSUME LoopInv, pc # "stopped", Reader
  PROVE  LoopInv'
<1>1. TypeOK'
  BY ReaderTyped DEF LoopInv
<1>2. UNCHANGED <<pc, rest, age>>
  BY DEF Reader, ReadNothing, ReadCrash, ReadGarbage, Send, Close, ReaderOnly
<1>3. SendingFound'
  <2>1. CASE ReadCrash
    <3>1. Head(printed).target \in Watched
      BY <2>1 DEF ReadCrash, LoopInv, TypeOK, Printable
    <3>2. found' # None /\ reader' = "sending"
      BY <2>1, <3>1, NoneAssumption DEF ReadCrash, Watched
    <3> QED
      BY <3>2 DEF SendingFound
  <2>2. CASE ReadNothing \/ ReadGarbage \/ Send \/ Close
    BY <2>2 DEF ReadNothing, ReadGarbage, Send, Close, LoopInv, SendingFound
  <2> QED
    BY <2>1, <2>2 DEF Reader
<1>4. Ledger'
  <2>1. channel \in Seq(Watched) /\ owed \in Seq(Watched)
        /\ Len(channel) \in Nat /\ Len(owed) \in Nat /\ signalled' = signalled
    BY DEF LoopInv, TypeOK, Reader, ReadNothing, ReadCrash, ReadGarbage, Send, Close, ReaderOnly
  <2>2. CASE ReadCrash
    <3>1. found = None /\ found' # None /\ reader # "closed"
      BY <1>3, <2>2 DEF ReadCrash, LoopInv, SendingFound
    <3>2. Len(owed) = Len(channel) /\ channel' = channel /\ owed' = Append(owed, found')
      BY <2>2, <3>1 DEF ReadCrash, LoopInv, Ledger
    <3>3. Len(owed') = Len(channel') + 1 /\ \A i \in 1 .. Len(owed) : owed'[i] = owed[i]
      BY <2>1, <3>2
    <3> QED
      BY <2>1, <3>1, <3>2, <3>3 DEF LoopInv, Ledger
  <2>3. CASE ReadNothing \/ ReadGarbage
    BY <2>1, <2>3 DEF ReadNothing, ReadGarbage, LoopInv, Ledger
  <2>4. CASE Close
    BY <2>1, <2>4 DEF Close, LoopInv, Ledger, SendingFound
  <2>5. CASE Send
    <3>1. found # None /\ found' = None /\ owed' = owed /\ channel' = Append(channel, found)
      BY <2>5 DEF Send, LoopInv, SendingFound
    <3>2. Len(owed) = Len(channel) + 1 /\ owed[Len(channel) + 1] = found
      BY <2>1, <3>1 DEF LoopInv, Ledger
    <3>3. /\ Len(channel') = Len(channel) + 1 /\ channel'[Len(channel) + 1] = found
          /\ \A i \in 1 .. Len(channel) : channel'[i] = channel[i]
      BY <2>1, <3>1
    <3> QED
      BY <2>1, <3>1, <3>2, <3>3 DEF LoopInv, Ledger
  <2> QED
    BY <2>2, <2>3, <2>4, <2>5 DEF Reader
<1>5. Complementary'
  BY <1>2 DEF LoopInv, Complementary
<1> QED
  BY <1>1, <1>3, <1>4, <1>5 DEF LoopInv

LEMMA MainStep ==
  ASSUME LoopInv, Main
  PROVE  LoopInv'
<1>1. TypeOK'
  BY MainTyped DEF LoopInv
<1>2. UNCHANGED <<printed, reader, found, signalled>>
  BY DEF Main, Skip, Analyze, AnalysisEnds, Stop, MainOnly
<1>3. SendingFound'
  BY <1>2 DEF LoopInv, SendingFound
<1>4. Ledger'
  <2>1. channel \in Seq(Watched) /\ owed \in Seq(Watched)
        /\ Len(channel) \in Nat /\ Len(owed) \in Nat
    BY DEF LoopInv, TypeOK
  <2>2. CASE Take
    <3>1. Len(channel) > 0 /\ Len(owed) >= Len(channel)
      BY <2>1, <2>2 DEF Take, LoopInv, Ledger
    <3>2. /\ Len(channel') = Len(channel) - 1 /\ Len(owed') = Len(owed) - 1
          /\ \A i \in 1 .. Len(channel') : channel'[i] = channel[i + 1]
          /\ \A i \in 1 .. Len(owed') : owed'[i] = owed[i + 1]
      BY <2>1, <2>2, <3>1 DEF Take
    <3>3. ASSUME NEW i \in 1 .. Len(channel') PROVE owed'[i] = channel'[i]
      <4>1. i + 1 \in 1 .. Len(channel) /\ i \in 1 .. Len(owed')
        BY <2>1, <3>1, <3>2
      <4>2. owed[i + 1] = channel[i + 1]
        BY <4>1 DEF LoopInv, Ledger
      <4> QED
        BY <3>2, <4>1, <4>2
    <3>4. found # None => Len(owed') > 0 /\ owed'[Len(owed')] = owed[Len(owed)]
      BY <2>1, <3>1, <3>2 DEF LoopInv, Ledger
    <3> QED
      BY <1>2, <2>1, <3>1, <3>2, <3>3, <3>4 DEF LoopInv, Ledger
  <2>3. CASE UNCHANGED <<channel, owed>>
    BY <1>2, <2>3 DEF LoopInv, Ledger
  <2> QED
    BY <2>2, <2>3 DEF Main, Skip, Analyze, AnalysisEnds, Stop
<1>5. Complementary'
  <2>1. CASE UNCHANGED <<rest, age>>
    BY <2>1 DEF LoopInv, Complementary
  <2>2. CASE Analyze
    <3>1. event' \in Targets
      BY <2>2 DEF Analyze, Take, LoopInv, TypeOK, Watched
    <3> SUFFICES ASSUME NEW t \in Targets PROVE rest'[Key(t)] + age'[t] = Cooldown
      BY DEF Complementary
    <3>2. Key(t) \in Keys /\ Key(event') \in Keys
      BY <3>1 DEF Keys
    <3>3. CASE t = event'
      BY <2>2, <3>1, <3>2, <3>3, NumbersAssumption DEF Analyze, LoopInv, TypeOK
    <3>4. CASE t # event'
      <4>1. Key(t) # Key(event')
        BY <3>1, <3>4, KeysDiffer
      <4>2. rest'[Key(t)] = rest[Key(t)] /\ age'[t] = age[t]
        BY <2>2, <3>1, <3>2, <3>4, <4>1 DEF Analyze, LoopInv, TypeOK
      <4> QED
        BY <4>2 DEF LoopInv, Complementary
    <3> QED
      BY <3>3, <3>4
  <2> QED
    BY <2>1, <2>2 DEF Main, Skip, AnalysisEnds, Stop
<1> QED
  BY <1>1, <1>3, <1>4, <1>5 DEF LoopInv

LEMMA WorldStep ==
  ASSUME LoopInv, pc # "stopped", World
  PROVE  LoopInv'
<1>1. TypeOK'
  BY WorldTyped DEF LoopInv
<1>2. UNCHANGED <<reader, found, channel, owed, pc, rest, age>> /\ (signalled => signalled')
  BY DEF World, RuntimePrints, RuntimeExits, Signal
<1> QED
  BY <1>1, <1>2 DEF LoopInv, SendingFound, Ledger, Complementary

LEMMA TickStep ==
  ASSUME LoopInv, Tick
  PROVE  LoopInv'
<1>1. TypeOK'
  BY TickTyped DEF LoopInv
<1>2. UNCHANGED <<reader, found, channel, owed, pc, signalled>>
  BY DEF Tick
<1>3. ASSUME NEW t \in Targets PROVE rest'[Key(t)] + age'[t] = Cooldown
  <2>1. Key(t) \in Keys
    BY DEF Keys
  <2>2. rest[Key(t)] \in 0 .. Cooldown /\ age[t] \in 0 .. Cooldown
        /\ rest[Key(t)] + age[t] = Cooldown
    BY <2>1 DEF LoopInv, TypeOK, Complementary
  <2>3. rest'[Key(t)] = Less(rest[Key(t)]) /\ age'[t] = More(age[t])
    BY <2>1 DEF Tick
  <2> QED
    BY <2>2, <2>3, ClockStep
<1> QED
  BY <1>1, <1>2, <1>3 DEF LoopInv, SendingFound, Ledger, Complementary

\* The invariant of the watcher.
THEOREM Invariance == Spec => []LoopInv
<1>1. Init => LoopInv
  <2> SUFFICES ASSUME Init PROVE LoopInv
    OBVIOUS
  <2>1. TypeOK
    <3>1. 0 \in 0 .. Cooldown /\ Cooldown \in 0 .. Cooldown
      BY NumbersAssumption
    <3>2. rest \in [Keys -> 0 .. Cooldown] /\ age \in [Targets -> 0 .. Cooldown]
      BY <3>1 DEF Init
    <3>3. printed \in Seq(Printable) /\ Len(printed) <= MaxPrinted
      BY NumbersAssumption DEF Init
    <3>4. channel \in Seq(Watched) /\ Len(channel) <= Capacity /\ owed \in Seq(Watched)
      BY NumbersAssumption DEF Init
    <3> QED
      BY <3>2, <3>3, <3>4 DEF Init, TypeOK
  <2>2. Complementary
    <3> SUFFICES ASSUME NEW t \in Targets PROVE rest[Key(t)] + age[t] = Cooldown
      BY DEF Complementary
    <3>1. Key(t) \in Keys
      BY DEF Keys
    <3>2. rest[Key(t)] = 0 /\ age[t] = Cooldown
      BY <3>1 DEF Init
    <3> QED
      BY <3>2, NumbersAssumption
  <2> QED
    BY <2>1, <2>2 DEF Init, LoopInv, SendingFound, Ledger
<1>2. LoopInv /\ [Next]_vars => LoopInv'
  <2> SUFFICES ASSUME LoopInv, [Next]_vars PROVE LoopInv'
    OBVIOUS
  <2>1. CASE UNCHANGED vars
    <3>1. Watched' = Watched /\ Printable' = Printable
      BY <2>1, SamePlatform DEF vars
    <3> QED
      BY <2>1, <3>1 DEF vars, LoopInv, TypeOK, SendingFound, Ledger, Complementary
  <2>2. CASE Next
    BY <2>2, ReaderStep, MainStep, WorldStep, TickStep DEF Next
  <2> QED
    BY <2>1, <2>2
<1> QED
  BY <1>1, <1>2, PTL DEF Spec

------------------------------------------------------------------------------
(* What follows. *)

\* The pipe, the channel, the debouncer and the loop keep their types, and the
\* channel its capacity.
THEOREM TypeCorrect == Spec => []TypeOK
<1>1. LoopInv => TypeOK
  BY DEF LoopInv
<1> QED
  BY <1>1, Invariance, PTL

\* The crashes that were found are taken up in the order they were found, and all
\* of them before a program returns that nobody told to stop (main, Watch).
THEOREM EveryFoundCrash == Spec => FoundCrashesAreTaken
<1>1. LoopInv /\ [Next]_vars =>
        [/\ Len(channel') < Len(channel) => event' = Head(owed)
         /\ pc' = "stopped" /\ ~signalled' => owed' = <<>>]_vars
  <2> SUFFICES ASSUME LoopInv, Next, vars' # vars
               PROVE  /\ Len(channel') < Len(channel) => event' = Head(owed)
                      /\ pc' = "stopped" /\ ~signalled' => owed' = <<>>
    OBVIOUS
  <2>1. channel \in Seq(Watched) /\ owed \in Seq(Watched)
    BY DEF LoopInv, TypeOK
  <2>2. ASSUME Len(channel') < Len(channel)
        PROVE  event' = Head(owed)
    <3>1. Len(channel) \in Nat /\ (Send => Len(channel') = Len(channel) + 1)
      BY <2>1 DEF Send
    <3>2. channel' # channel /\ ~Send
      BY <2>2, <3>1
    <3>3. Take
      BY <3>2 DEF Next, Reader, ReadNothing, ReadCrash, ReadGarbage, Close, Main, Skip,
                  Analyze, AnalysisEnds, Stop, World, RuntimePrints, RuntimeExits, Signal, Tick
    <3>4. 1 \in 1 .. Len(channel) /\ Head(channel) = channel[1] /\ event' = Head(channel)
      BY <2>1, <3>3 DEF Take
    <3>5. owed[1] = channel[1] /\ Len(owed) >= 1
      BY <2>1, <3>4 DEF LoopInv, Ledger
    <3> QED
      BY <2>1, <3>4, <3>5
  <2>3. ASSUME pc' = "stopped", ~signalled'
        PROVE  owed' = <<>>
    <3>1. CASE Stop
      <4>1. reader = "closed" /\ channel = <<>> /\ ~signalled /\ owed' = owed
        BY <2>3, <3>1 DEF Stop, MainOnly
      <4>2. found = None /\ Len(channel) = 0
        BY <4>1 DEF LoopInv, SendingFound
      <4>3. Len(owed) = 0
        BY <4>1, <4>2 DEF LoopInv, Ledger
      <4> QED
        BY <2>1, <4>1, <4>3
    <3>2. CASE ~Stop
      <4>1. pc = "stopped" \/ pc' # "stopped"
        BY <3>2 DEF Next, Reader, ReadNothing, ReadCrash, ReadGarbage, Send, Close,
                    ReaderOnly, Main, Skip, Take, Analyze, AnalysisEnds, World,
                    RuntimePrints, RuntimeExits, Signal, Tick
      <4>2. Tick
        BY <2>3, <4>1 DEF Next
      <4> QED
        BY <2>3, <4>1, <4>2 DEF Tick
    <3> QED
      BY <3>1, <3>2
  <2> QED
    BY <2>2, <2>3
<1> QED
  BY <1>1, Invariance, PTL DEF Spec, FoundCrashesAreTaken

\* Two analyses of one target begin at least a cooldown apart (debouncer.allow).
THEOREM Spacing == Spec => AnalysesAreSpaced
<1>1. LoopInv /\ [Next]_vars =>
        [pc = "select" /\ pc' = "analyzing" => age[event'] = Cooldown]_vars
  <2> SUFFICES ASSUME LoopInv, Next, pc = "select", pc' = "analyzing"
               PROVE  age[event'] = Cooldown
    OBVIOUS
  <2>1. Analyze
    BY DEF Next, Reader, ReadNothing, ReadCrash, ReadGarbage, Send, Close, ReaderOnly,
           Main, Skip, AnalysisEnds, Stop, World, RuntimePrints, RuntimeExits, Signal, Tick
  <2>2. event' \in Targets /\ rest[Key(event')] = 0
    BY <2>1 DEF Analyze, Take, LoopInv, TypeOK, Watched
  <2>3. rest[Key(event')] + age[event'] = Cooldown /\ age[event'] \in 0 .. Cooldown
    BY <2>2 DEF LoopInv, Complementary, TypeOK
  <2> QED
    BY <2>2, <2>3
<1> QED
  BY <1>1, Invariance, PTL DEF Spec, AnalysesAreSpaced

\* A crash is dropped only in the cooldown of its own target.
THEOREM SkipsAreOwn == Spec => SkippedAfterOwnAnalysis
<1>1. LoopInv /\ [Next]_vars =>
        [pc' = "select" /\ Len(channel') < Len(channel) =>
           age[Head(channel)] < Cooldown]_vars
  <2> SUFFICES ASSUME LoopInv, Next, pc' = "select", Len(channel') < Len(channel)
               PROVE  age[Head(channel)] < Cooldown
    OBVIOUS
  <2>1. channel \in Seq(Watched)
    BY DEF LoopInv, TypeOK
  <2>2. Skip
    <3>1. Len(channel) \in Nat /\ (Send => Len(channel') = Len(channel) + 1)
      BY <2>1 DEF Send
    <3>2. channel' # channel /\ ~Send
      BY <3>1
    <3> QED
      BY <3>2 DEF Next, Reader, ReadNothing, ReadCrash, ReadGarbage, Close, Main,
                  Analyze, AnalysisEnds, Stop, World, RuntimePrints, RuntimeExits, Signal, Tick
  <2>3. event' = Head(channel) /\ event' \in Targets /\ rest[Key(event')] > 0
    BY <2>1, <2>2 DEF Skip, Take, Watched
  <2>4. /\ rest[Key(event')] + age[event'] = Cooldown
        /\ age[event'] \in 0 .. Cooldown /\ rest[Key(event')] \in 0 .. Cooldown
    BY <2>3 DEF LoopInv, Complementary, TypeOK, Keys
  <2> QED
    BY <2>3, <2>4, NumbersAssumption
<1> QED
  BY <1>1, Invariance, PTL DEF Spec, SkippedAfterOwnAnalysis
=============================================================================
