------------------------------ MODULE Watcher ------------------------------
(***************************************************************************)
(* The crash watcher (controller/main.go, kubernetes.go, podman.go): a     *)
(* goroutine reads what the runtime prints, picks the crashes out of it    *)
(* and sends them through a bounded channel; the main loop takes one at a  *)
(* time, drops it when its target is in its cooldown, and otherwise runs   *)
(* the analyzer, which may take as long as the cooldown.                   *)
(***************************************************************************)
EXTENDS Naturals, Sequences

CONSTANTS
  Targets,    \* containers and pods: namespace and name
  Capacity,   \* of the channel (16)
  Cooldown,   \* in ticks of the clock
  MaxPrinted, \* bound: what the runtime has printed and nobody has read
  None

ASSUME TargetsAssumption ==
  \A t \in Targets : t = [namespace |-> t.namespace, name |-> t.name]

ASSUME NoneAssumption == None \notin Targets

ASSUME NumbersAssumption ==
  Capacity \in Nat /\ Cooldown \in Nat \ {0} /\ MaxPrinted \in Nat \ {0}

VARIABLES
  platform, \* podman or kubernetes
  printed,  \* the pipe: what the runtime printed and the watcher has not read
  runtime,  \* is `kubectl get --watch` or `podman events` still running
  reader,   \* where Watch is
  found,    \* the crash it is sending
  channel,
  pc,       \* where the main loop is
  event,    \* the crash it took last
  rest,     \* debouncer.last, as what is left of the cooldown of each key
  age,      \* history: the time since the analysis of each target began
  owed,     \* history: the crashes found and not yet taken up, in order
  signalled \* has the context been cancelled (Ctrl-C, SIGTERM)

vars == <<platform, printed, runtime, reader, found, channel, pc, event, rest, age,
          owed, signalled>>

------------------------------------------------------------------------------
(* Targets and what is printed about them. *)

Watched == {t \in Targets : (t.namespace = None) <=> (platform = "podman")}

\* Mutant of Key: the namespace is left out.
KeyByName(t) == <<t.name>>

\* The bookkeeping of the debouncer is by key.
Key(t) == IF t.namespace = None THEN <<t.name>> ELSE <<t.namespace, t.name>>

Keys == {Key(t) : t \in Targets}

\* A pod that runs, waits with one of crashLoopReasons, was killed by the OOM
\* killer, or runs again after that; a container that stopped, or died.
States ==
  IF platform = "podman" THEN {"stopped", "died"}
  ELSE {"running", "waiting", "oom", "restarted"}

CrashReasons == {"waiting", "oom", "restarted", "died"}

Printable == [target : Watched, state : States] \cup {None}

------------------------------------------------------------------------------
(* Watch.  None in the pipe is something that cannot be decoded. *)

ReaderOnly == UNCHANGED <<platform, runtime, pc, event, rest, age, signalled>>

\* Not a crash, or a line that podman prints and that is not JSON.
ReadNothing ==
  /\ reader = "reading" /\ printed # <<>>
  /\ IF Head(printed) = None THEN platform = "podman"
     ELSE Head(printed).state \notin CrashReasons
  /\ printed' = Tail(printed)
  /\ UNCHANGED <<reader, found, channel, owed>> /\ ReaderOnly

ReadCrash ==
  /\ reader = "reading" /\ printed # <<>> /\ Head(printed) # None
  /\ Head(printed).state \in CrashReasons
  /\ printed' = Tail(printed)
  /\ found' = Head(printed).target
  /\ owed' = Append(owed, found')
  /\ reader' = "sending"
  /\ UNCHANGED channel /\ ReaderOnly

\* kubernetes.go leaves its loop and waits for kubectl, which does not exit.
ReadGarbage ==
  /\ reader = "reading" /\ printed # <<>>
  /\ Head(printed) = None /\ platform = "kubernetes"
  /\ printed' = Tail(printed)
  /\ reader' = "waiting"
  /\ UNCHANGED <<found, channel, owed>> /\ ReaderOnly

\* Mutant of Send: a full channel drops the crash.
SendOrDrop ==
  /\ reader = "sending"
  /\ channel' = IF Len(channel) < Capacity THEN Append(channel, found) ELSE channel
  /\ found' = None
  /\ reader' = "reading"
  /\ UNCHANGED <<printed, owed>> /\ ReaderOnly

\* Mutant of Send: the channel has no bound.
SendUnbounded ==
  /\ reader = "sending"
  /\ channel' = Append(channel, found)
  /\ found' = None
  /\ reader' = "reading"
  /\ UNCHANGED <<printed, owed>> /\ ReaderOnly

\* A full channel blocks the reader.
Send ==
  /\ reader = "sending" /\ Len(channel) < Capacity
  /\ channel' = Append(channel, found)
  /\ found' = None
  /\ reader' = "reading"
  /\ UNCHANGED <<printed, owed>> /\ ReaderOnly

\* The end of the pipe, of the wait, or of the context: the channel is closed.
Close ==
  /\ \/ reader = "reading" /\ printed = <<>> /\ runtime = "exited"
     \/ reader = "waiting" /\ runtime = "exited"
     \/ reader = "sending" /\ signalled /\ runtime = "exited"
  /\ reader' = "closed"
  /\ found' = None
  /\ UNCHANGED <<printed, channel, owed>> /\ ReaderOnly

------------------------------------------------------------------------------
(* The main loop. *)

MainOnly == UNCHANGED <<platform, printed, runtime, reader, found, signalled>>

Take == /\ pc = "select" /\ channel # <<>>
        /\ event' = Head(channel)
        /\ channel' = Tail(channel)
        /\ owed' = Tail(owed)

\* Mutant of Skip: the cooldown begins again with every crash.
SkipAndExtend ==
  /\ Take
  /\ rest[Key(event')] > 0
  /\ rest' = [rest EXCEPT ![Key(event')] = Cooldown]
  /\ UNCHANGED <<pc, age>> /\ MainOnly

Skip ==
  /\ Take
  /\ rest[Key(event')] > 0
  /\ UNCHANGED <<pc, rest, age>> /\ MainOnly

\* Mutant of Analyze: only the first analysis is remembered.
AnalyzeUnmarked ==
  /\ Take
  /\ rest[Key(event')] = 0
  /\ age' = [age EXCEPT ![event'] = 0]
  /\ pc' = "analyzing"
  /\ UNCHANGED rest /\ MainOnly

\* allow() marks the target before the analysis, whatever comes of it.
Analyze ==
  /\ Take
  /\ rest[Key(event')] = 0
  /\ rest' = [rest EXCEPT ![Key(event')] = Cooldown]
  /\ age' = [age EXCEPT ![event'] = 0]
  /\ pc' = "analyzing"
  /\ MainOnly

\* A diagnosis, a failure or a timeout: all of them are only printed.
AnalysisEnds ==
  /\ pc = "analyzing"
  /\ pc' = "select"
  /\ UNCHANGED <<channel, event, rest, age, owed>> /\ MainOnly

\* Mutant of Stop: the end of the watch is not left to the channel.
StopWithTheReader ==
  /\ pc = "select"
  /\ signalled \/ reader = "closed"
  /\ pc' = "stopped"
  /\ UNCHANGED <<channel, event, rest, age, owed>> /\ MainOnly

\* A closed channel still delivers what it holds.
Stop ==
  /\ pc = "select"
  /\ signalled \/ (reader = "closed" /\ channel = <<>>)
  /\ pc' = "stopped"
  /\ UNCHANGED <<channel, event, rest, age, owed>> /\ MainOnly

------------------------------------------------------------------------------
(* The runtime, the clock and the user. *)

RuntimePrints ==
  /\ runtime = "running" /\ Len(printed) < MaxPrinted
  /\ \E o \in Printable : printed' = Append(printed, o)
  /\ UNCHANGED <<platform, runtime, reader, found, channel, pc, event, rest, age,
                 owed, signalled>>

\* The cancelled context kills the command; it may also end by itself.
RuntimeExits ==
  /\ runtime = "running"
  /\ runtime' = "exited"
  /\ UNCHANGED <<platform, printed, reader, found, channel, pc, event, rest, age,
                 owed, signalled>>

Signal ==
  /\ ~signalled
  /\ signalled' = TRUE
  /\ UNCHANGED <<platform, printed, runtime, reader, found, channel, pc, event, rest,
                 age, owed>>

Less(n) == IF n = 0 THEN 0 ELSE n - 1
More(n) == IF n = Cooldown THEN n ELSE n + 1

Tick ==
  /\ pc # "stopped"
  /\ rest' = [k \in Keys |-> Less(rest[k])]
  /\ age' = [t \in Targets |-> More(age[t])]
  /\ UNCHANGED <<platform, printed, runtime, reader, found, channel, pc, event,
                 owed, signalled>>

------------------------------------------------------------------------------
Init ==
  /\ platform \in {"podman", "kubernetes"}
  /\ printed = <<>> /\ runtime = "running"
  /\ reader = "reading" /\ found = None
  /\ channel = <<>>
  /\ pc = "select" /\ event = None
  /\ rest = [k \in Keys |-> 0]
  /\ age = [t \in Targets |-> Cooldown]
  /\ owed = <<>>
  /\ signalled = FALSE

Reader == ReadNothing \/ ReadCrash \/ ReadGarbage \/ Send \/ Close

Main == Skip \/ Analyze \/ AnalysisEnds \/ Stop

World == RuntimePrints \/ RuntimeExits \/ Signal

\* When main returns the process and its goroutine are gone.
Next == (pc # "stopped" /\ (Reader \/ Main \/ World)) \/ Tick

\* Every read, send and analysis comes to an end, and time passes; nothing is
\* assumed of the runtime and of the user.
Fairness == WF_vars(pc # "stopped" /\ Reader) /\ WF_vars(Main) /\ WF_vars(Tick)

Spec == Init /\ [][Next]_vars /\ Fairness
------------------------------------------------------------------------------
(* Properties. *)

TypeOK ==
  /\ platform \in {"podman", "kubernetes"}
  /\ printed \in Seq(Printable) /\ Len(printed) <= MaxPrinted
  /\ runtime \in {"running", "exited"}
  /\ reader \in {"reading", "sending", "waiting", "closed"}
  /\ found \in Watched \cup {None}
  /\ channel \in Seq(Watched) /\ Len(channel) <= Capacity
  /\ pc \in {"select", "analyzing", "stopped"}
  /\ event \in Watched \cup {None}
  /\ rest \in [Keys -> 0 .. Cooldown]
  /\ age \in [Targets -> 0 .. Cooldown]
  /\ owed \in Seq(Watched)
  /\ signalled \in BOOLEAN

\* controller/README.md: a target is analyzed at most once per cooldown, however
\* long its crashes waited in the channel and however long analyses take.
AnalysesAreSpaced ==
  [][pc = "select" /\ pc' = "analyzing" => age[event'] = Cooldown]_vars

\* A crash is dropped only when its own target has been analyzed less than a
\* cooldown ago: a crash of another never counts against it.
SkippedAfterOwnAnalysis ==
  [][pc' = "select" /\ Len(channel') < Len(channel) => age[Head(channel)] < Cooldown]_vars

\* Between the goroutine that finds crashes and the loop that takes them up no
\* crash is passed over, not even one of a target that was taken up before, and a
\* program that returns because the watch has ended owes nothing: what waited in
\* the channel, behind an analysis, has been taken up too.
FoundCrashesAreTaken ==
  [][/\ Len(channel') < Len(channel) => event' = Head(owed)
     /\ pc' = "stopped" /\ ~signalled' => owed' = <<>>]_vars

Reported(t) ==
  \E i \in DOMAIN printed : printed[i] # None /\ printed[i].target = t
                            /\ printed[i].state \in CrashReasons

\* The watcher has come upon output it could not decode, and reads no further.
GaveUp == reader = "waiting" \/ (reader = "closed" /\ printed # <<>>)

\* A crash that is printed is eventually taken up by the main loop, unless the
\* program is told to stop or the output cannot be decoded.
EveryCrashIsTaken ==
  \A t \in Targets : Reported(t) ~> (event = t \/ signalled \/ GaveUp)

\* A target that goes on crashing is analyzed again and again: the cooldown
\* does not begin anew with each crash.
CrashLoopIsReanalyzed ==
  \A t \in Targets :
    []<>Reported(t) /\ []~signalled /\ []~GaveUp => []<>(pc = "analyzing" /\ event = t)
=============================================================================
