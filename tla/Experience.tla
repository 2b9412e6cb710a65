----------------------------- MODULE Experience -----------------------------
(***************************************************************************)
(* The experience memory (experience.py): one file per record in a         *)
(* directory that every run with --learn saves into, recalls from and      *)
(* prunes, without a lock, while `experience clear` may empty it.          *)
(*                                                                         *)
(* A step is one call that another process can see or be seen by: creating *)
(* a file, writing it, listing the directory, reading the ages of what was *)
(* listed, removing or reading one file.                                   *)
(***************************************************************************)
EXTENDS Integers, FiniteSets, SequencesExt

CONSTANTS
  Savers,      \* the runs that save, each a record of its own
  Recallers,   \* the runs that recall, all for one signature
  Clearers,    \* the `experience clear` commands
  Old,         \* the records there are at first, oldest first
  Likeness,    \* per record, what it has in common with the signature
  MaxRecords,  \* max_records
  K            \* DEFAULT_RECALL_K

MinScore == 3  \* MIN_RECALL_SCORE

Records   == Savers \cup ToSet(Old)
Processes == Savers \cup Recallers \cup Clearers

\* The store keeps to its cap at first, as every earlier save has left it.
ASSUME StoreAssumption ==
  /\ IsFiniteSet(Savers)
  /\ Old \in Seq(ToSet(Old)) /\ Len(Old) <= MaxRecords

ASSUME RecordAssumption ==
  /\ MaxRecords \in Nat \ {0} /\ K \in Nat \ {0}
  /\ Savers \cap ToSet(Old) = {} /\ IsInjective(Old)
  /\ Savers \cap Recallers = {} /\ Savers \cap Clearers = {} /\ Recallers \cap Clearers = {}
  /\ Likeness \in [Records -> [classification : BOOLEAN, exit : BOOLEAN, oom : BOOLEAN,
                               image : BOOLEAN, keywords : Nat]]

VARIABLES
  store,     \* per record, its file: absent, torn (created, not written) or whole
  modified,  \* per record, the mtime of its file
  clock,     \* the last mtime
  pc,        \* per process, its next step
  queue,     \* per process, the records it has listed and not come to
  found,     \* per recaller, the records it read, newest first
  recalled,  \* per recaller, what it lands as evidence
  created,   \* history: per record, when its file was created
  pruned,    \* history: the records that a save removed
  wholeAt    \* history: per recaller, what could be read when it listed

history == <<created, pruned, wholeAt>>
vars    == <<store, modified, clock, pc, queue, found, recalled, history>>

Present == {r \in Records : store[r] # "absent"}
Whole   == {r \in Records : store[r] = "whole"}

------------------------------------------------------------------------------
(* Similarity. *)

Points(holds, n) == IF holds THEN n ELSE 0

\* score
\* Of the keywords they share, three count.
KeywordPoints(shared) == IF shared > 3 THEN 3 ELSE shared

Score(r) ==
  LET l == Likeness[r] IN
  Points(l.classification, 3) + Points(l.exit, 2) + Points(l.oom, 2) + Points(l.image, 1)
  + KeywordPoints(l.keywords)

\* Mutant of Similar: the newest records, however similar.
SimilarNewest(seq) ==
  {seq[i] : i \in {j \in 1 .. Len(seq) : j <= K /\ Score(seq[j]) >= MinScore}}

\* Mutant of Similar: all that are similar enough.
SimilarAll(seq) == {seq[i] : i \in {j \in 1 .. Len(seq) : Score(seq[j]) >= MinScore}}

\* find_similar: of the records that score enough the K best; of two that score
\* the same the newer comes first.
Similar(seq) ==
  LET enough == {i \in 1 .. Len(seq) : Score(seq[i]) >= MinScore}
      Ahead(i, j) == \/ Score(seq[i]) > Score(seq[j])
                     \/ Score(seq[i]) = Score(seq[j]) /\ i < j
  IN {seq[i] : i \in {j \in enough : Cardinality({h \in enough : Ahead(h, j)}) < K}}

------------------------------------------------------------------------------
(* Listing: a glob, and then the age of every file listed. *)

\* A file that has vanished since the glob counts as the oldest.
Age(r) == IF store[r] = "absent" THEN 0 ELSE modified[r]

\* The listing in the order of its ages.  Files of one age, which are those that
\* have vanished, are ordered by their names, in whatever order that is.
OldestFirst(listing) ==
  {files \in SetToSeqs(listing) :
     \A i, j \in DOMAIN files : i < j => Age(files[i]) <= Age(files[j])}

Goes(p, step) == pc' = [pc EXCEPT ![p] = step]

Glob(p) ==
  /\ pc[p] = "glob"
  /\ queue' = [queue EXCEPT ![p] = SetToSeq(Present)]
  /\ wholeAt' = IF p \in Recallers THEN [wholeAt EXCEPT ![p] = Whole] ELSE wholeAt
  /\ Goes(p, "stat")
  /\ UNCHANGED <<store, modified, clock, found, recalled, created, pruned>>

\* Mutant of Excess: the record just saved is not counted.
ExcessButOne(n) == IF n - 1 > MaxRecords THEN n - 1 - MaxRecords ELSE 0

\* How many of n records are too many.
Excess(n) == IF n > MaxRecords THEN n - MaxRecords ELSE 0

\* Mutant of Visited: the newest are pruned.
VisitedNewest(p, files) ==
  IF p \in Savers THEN SubSeq(Reverse(files), 1, Excess(Len(files)))
  ELSE IF p \in Recallers THEN Reverse(files) ELSE files

\* A save goes on to the oldest beyond the cap, a recall to all, the newest
\* first, and clear to all.
Visited(p, files) ==
  IF p \in Savers THEN SubSeq(files, 1, Excess(Len(files)))
  ELSE IF p \in Recallers THEN Reverse(files) ELSE files

Stat(p) ==
  /\ pc[p] = "stat"
  /\ \E files \in OldestFirst(ToSet(queue[p])) :
       queue' = [queue EXCEPT ![p] = Visited(p, files)]
  /\ Goes(p, "visit")
  /\ UNCHANGED <<store, modified, clock, found, recalled, history>>

Leave(p) ==
  /\ pc[p] = "visit" /\ queue[p] = <<>>
  /\ recalled' = IF p \in Recallers THEN [recalled EXCEPT ![p] = Similar(found[p])]
                 ELSE recalled
  /\ found' = IF p \in Recallers THEN [found EXCEPT ![p] = <<>>] ELSE found
  /\ Goes(p, "done")
  /\ UNCHANGED <<store, modified, clock, queue, history>>

\* The record whose turn it is.
InTurn(p) == Head(queue[p])

Passes(p) == queue' = [queue EXCEPT ![p] = Tail(@)]

------------------------------------------------------------------------------
(* save *)

Create(s) ==
  /\ pc[s] = "create"
  /\ store' = [store EXCEPT ![s] = "torn"]
  /\ clock' = clock + 1
  /\ modified' = [modified EXCEPT ![s] = clock']
  /\ created' = [created EXCEPT ![s] = clock']
  /\ Goes(s, "write")
  /\ UNCHANGED <<queue, found, recalled, pruned, wholeAt>>

\* A file that was removed meanwhile is written all the same, and stays removed.
Write(s) ==
  /\ pc[s] = "write"
  /\ IF store[s] = "absent" THEN UNCHANGED <<store, clock, modified>>
     ELSE /\ store' = [store EXCEPT ![s] = "whole"]
          /\ clock' = clock + 1
          /\ modified' = [modified EXCEPT ![s] = clock']
  /\ Goes(s, "glob")
  /\ UNCHANGED <<queue, found, recalled, history>>

\* A file that is gone already is no error.
Prune(s) ==
  /\ pc[s] = "visit" /\ queue[s] # <<>>
  /\ store' = [store EXCEPT ![InTurn(s)] = "absent"]
  /\ pruned' = IF store[InTurn(s)] = "absent" THEN pruned ELSE pruned \cup {InTurn(s)}
  /\ Passes(s)
  /\ UNCHANGED <<modified, clock, pc, found, recalled, created, wholeAt>>

\* An OSError, which save swallows, or a kill: what was done stays.
Stop(s) ==
  /\ pc[s] \notin {"done", "stopped"}
  /\ queue' = [queue EXCEPT ![s] = <<>>]
  /\ Goes(s, "stopped")
  /\ UNCHANGED <<store, modified, clock, found, recalled, history>>

------------------------------------------------------------------------------
(* load_all, for find_similar and `experience list`, and clear. *)

\* What is torn or gone is skipped.
Read(p) ==
  /\ pc[p] = "visit" /\ queue[p] # <<>>
  /\ found' = IF store[InTurn(p)] = "whole" THEN [found EXCEPT ![p] = Append(@, InTurn(p))]
              ELSE found
  /\ Passes(p)
  /\ UNCHANGED <<store, modified, clock, pc, recalled, history>>

\* A file that cannot be removed is passed over.
Clear(p) ==
  /\ pc[p] = "visit" /\ queue[p] # <<>>
  /\ store' \in {store, [store EXCEPT ![InTurn(p)] = "absent"]}
  /\ Passes(p)
  /\ UNCHANGED <<modified, clock, pc, found, recalled, history>>

------------------------------------------------------------------------------
Init ==
  /\ store = [r \in Records |-> IF r \in Savers THEN "absent" ELSE "whole"]
  /\ created = [r \in Records |-> IF r \in Savers THEN 0
                                  ELSE CHOOSE i \in DOMAIN Old : Old[i] = r]
  /\ modified = created
  /\ clock = Len(Old)
  /\ pc = [p \in Processes |-> IF p \in Savers THEN "create" ELSE "glob"]
  /\ queue = [p \in Processes |-> <<>>]
  /\ found = [p \in Recallers |-> <<>>]
  /\ recalled = [p \in Recallers |-> {}]
  /\ pruned = {}
  /\ wholeAt = [p \in Recallers |-> {}]

Next == \/ \E p \in Processes : Glob(p) \/ Stat(p) \/ Leave(p)
        \/ \E s \in Savers : Create(s) \/ Write(s) \/ Prune(s) \/ Stop(s)
        \/ \E p \in Recallers : Read(p)
        \/ \E p \in Clearers : Clear(p)

Spec == Init /\ [][Next]_vars

------------------------------------------------------------------------------
(* Properties. *)

\* Every variable stays in its range, and a recall lands no more than its limit.
TypeOK ==
  /\ store \in [Records -> {"absent", "torn", "whole"}]
  /\ clock \in Nat
  /\ modified \in [Records -> 0 .. clock] /\ created \in [Records -> 0 .. clock]
  /\ pc \in [Processes -> {"create", "write", "glob", "stat", "visit", "done", "stopped"}]
  /\ queue \in [Processes -> Seq(Records)] /\ found \in [Recallers -> Seq(Records)]
  /\ pruned \subseteq Records
  /\ wholeAt \in [Recallers -> SUBSET Records]
  /\ recalled \in [Recallers -> SUBSET Records]
  /\ \A p \in Recallers : Cardinality(recalled[p]) <= K

\* However many runs save and prune at a time, none takes away a record unless
\* max_records others were written since that one was begun.
PrunedOnlyWhenOutnumbered ==
  \A r \in pruned :
    Cardinality({o \in Records \ {r} : modified[o] > created[r]}) >= MaxRecords

\* The store exceeds its cap by the saves that are under way or were stopped
\* half-way, and by no more.
Unfinished == {s \in Savers : created[s] # 0 /\ pc[s] # "done"}

StoreIsCapped == Cardinality(Present) <= MaxRecords + Cardinality(Unfinished)

\* A record that could be read all the time a recall took is among what it lands,
\* unless enough others are at least as similar.
Recalls(p) == pc[p] = "visit" /\ pc'[p] = "done"

RecallMissesNothing ==
  [][\A p \in Recallers : Recalls(p) =>
       \A r \in (wholeAt[p] \cap Whole) \ recalled'[p] :
         Score(r) >= MinScore =>
           /\ Cardinality(recalled'[p]) = K
           /\ \A o \in recalled'[p] : Score(o) >= Score(r)]_vars
=============================================================================
