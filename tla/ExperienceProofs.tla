------------------------- MODULE ExperienceProofs -------------------------
(***************************************************************************)
(* The experience memory, for any number of runs that save, recall and     *)
(* clear at a time, any cap and any recall limit.                          *)
(***************************************************************************)
EXTENDS Experience, FiniteSetTheorems, SequenceTheorems, TLAPS

------------------------------------------------------------------------------
(* Sequences and the sets of their elements. *)

LEMMA InSeq ==
  ASSUME NEW S, NEW n \in Nat, NEW f \in [1 .. n -> S]
  PROVE  f \in Seq(S) /\ Len(f) = n /\ DOMAIN f = 1 .. n
<1>1. f \in Seq(S)
  BY SeqDef
<1>2. DOMAIN f = 1 .. n /\ DOMAIN f = 1 .. Len(f) /\ Len(f) \in Nat
  BY <1>1, LenProperties
<1> QED
  BY <1>1, <1>2

LEMMA ElementsIn ==
  ASSUME NEW S, NEW seq \in Seq(S)
  PROVE  ToSet(seq) \subseteq S /\ ToSet(seq) = {seq[i] : i \in 1 .. Len(seq)}
BY LenProperties DEF ToSet

LEMMA ElementsOfInjective ==
  ASSUME NEW S, NEW seq \in Seq(S), IsInjective(seq)
  PROVE  IsFiniteSet(ToSet(seq)) /\ Cardinality(ToSet(seq)) = Len(seq)
<1>1. Len(seq) \in Nat /\ seq \in [1 .. Len(seq) -> S] /\ DOMAIN seq = 1 .. Len(seq)
  BY LenProperties
<1>2. seq \in Surjection(1 .. Len(seq), ToSet(seq)) /\ seq \in Injection(1 .. Len(seq), ToSet(seq))
  BY <1>1 DEF ToSet, Surjection, Injection, IsInjective
<1>3. IsFiniteSet(1 .. Len(seq)) /\ Cardinality(1 .. Len(seq)) = Len(seq)
  BY <1>1, FS_Interval
<1> QED
  BY <1>2, <1>3, FS_Surjection

\* An ordering of a finite set has each of its elements once.
LEMMA OrderingOfSet ==
  ASSUME NEW S, IsFiniteSet(S), NEW f \in SetToSeqs(S)
  PROVE  f \in Seq(S) /\ IsInjective(f) /\ ToSet(f) = S /\ Len(f) = Cardinality(S)
<1> DEFINE n == Cardinality(S)
<1>1. n \in Nat
  BY FS_CardinalityType
<1>2. f \in [1 .. n -> S] /\ \A i, j \in 1 .. n : i # j => f[i] # f[j]
  BY DEF SetToSeqs
<1> HIDE DEF n
<1>3. f \in Seq(S) /\ Len(f) = n /\ DOMAIN f = 1 .. n
  BY <1>1, <1>2, InSeq
<1>4. IsInjective(f)
  BY <1>2, <1>3 DEF IsInjective
<1>5. f \in Injection(1 .. n, S)
  BY <1>2, <1>4 DEF Injection
<1>6. Cardinality(1 .. n) = n
  BY <1>1, FS_Interval
<1>7. f \in Surjection(1 .. n, S)
  BY <1>5, <1>6, FS_Injection DEF n
<1>8. ToSet(f) = S
  BY <1>2, <1>3, <1>7 DEF ToSet, Surjection
<1> QED
  BY <1>3, <1>4, <1>8 DEF n

LEMMA SetInOrder ==
  ASSUME NEW S, IsFiniteSet(S)
  PROVE  SetToSeq(S) \in SetToSeqs(S)
<1> DEFINE n == Cardinality(S)
<1>1. PICK f \in [1 .. n -> S] : f \in Bijection(1 .. n, S)
  BY FS_CardinalityType DEF ExistsBijection, Bijection, Injection
<1>2. \E g \in [1 .. n -> S] : IsInjective(g)
  BY <1>1 DEF Bijection, Injection
<1>3. SetToSeq(S) \in [1 .. n -> S] /\ IsInjective(SetToSeq(S))
  BY <1>2 DEF SetToSeq
<1>4. DOMAIN SetToSeq(S) = 1 .. n
  BY <1>3
<1> QED
  BY <1>3, <1>4 DEF SetToSeqs, IsInjective

LEMMA HeadAndTail ==
  ASSUME NEW S, NEW seq \in Seq(S), seq # <<>>
  PROVE  /\ Tail(seq) \in Seq(S)
         /\ Head(seq) \in ToSet(seq)
         /\ ToSet(seq) = {Head(seq)} \cup ToSet(Tail(seq))
         /\ IsInjective(seq) => IsInjective(Tail(seq)) /\ Head(seq) \notin ToSet(Tail(seq))
<1>1. Tail(seq) \in Seq(S) /\ Len(Tail(seq)) = Len(seq) - 1
      /\ \A i \in 1 .. Len(Tail(seq)) : Tail(seq)[i] = seq[i + 1]
  BY HeadTailProperties
<1>2. Len(seq) \in Nat \ {0} /\ DOMAIN seq = 1 .. Len(seq)
  BY EmptySeq, LenProperties
<1>3. DOMAIN Tail(seq) = 1 .. Len(seq) - 1
  BY <1>1, LenProperties
<1>4. Head(seq) = seq[1]
  BY <1>2
<1>5. ToSet(seq) = {seq[i] : i \in 1 .. Len(seq)}
  BY <1>2 DEF ToSet
<1>6. ToSet(Tail(seq)) = {seq[i + 1] : i \in 1 .. Len(seq) - 1}
  BY <1>1, <1>3 DEF ToSet
<1>7. ASSUME NEW i \in 1 .. Len(seq), i # 1 PROVE i - 1 \in 1 .. Len(seq) - 1 /\ (i - 1) + 1 = i
  <2>1. i \in Nat /\ 1 <= i /\ i <= Len(seq) /\ Len(seq) \in Nat
    BY <1>2
  <2> QED
    BY <2>1, <1>7
<1>8. ASSUME NEW i \in 1 .. Len(seq) - 1 PROVE i + 1 \in 1 .. Len(seq) /\ i + 1 # 1
  BY <1>2
<1>9. 1 \in 1 .. Len(seq)
  BY <1>2
<1>10. ToSet(seq) \subseteq {Head(seq)} \cup ToSet(Tail(seq))
  BY <1>4, <1>5, <1>6, <1>7
<1>11. {Head(seq)} \cup ToSet(Tail(seq)) \subseteq ToSet(seq)
  BY <1>4, <1>5, <1>6, <1>8, <1>9
<1>12. ASSUME IsInjective(seq) PROVE IsInjective(Tail(seq)) /\ Head(seq) \notin ToSet(Tail(seq))
  <2>1. Head(seq) \notin ToSet(Tail(seq))
    BY <1>2, <1>4, <1>6, <1>8, <1>9, <1>12 DEF IsInjective
  <2>2. ASSUME NEW a \in 1 .. Len(seq) - 1, NEW b \in 1 .. Len(seq) - 1, Tail(seq)[a] = Tail(seq)[b]
        PROVE  a = b
    <3>1. seq[a + 1] = seq[b + 1] /\ a + 1 \in DOMAIN seq /\ b + 1 \in DOMAIN seq
      BY <1>1, <1>2, <1>8, <2>2
    <3>2. a + 1 = b + 1
      BY <3>1, <1>12 DEF IsInjective
    <3> QED
      BY <3>2
  <2> QED
    BY <2>1, <2>2, <1>3 DEF IsInjective
<1> QED
  BY <1>1, <1>10, <1>11, <1>12

LEMMA WithOneMore ==
  ASSUME NEW S, NEW seq \in Seq(S), NEW e \in S
  PROVE  /\ Append(seq, e) \in Seq(S)
         /\ ToSet(Append(seq, e)) = ToSet(seq) \cup {e}
         /\ IsInjective(seq) /\ e \notin ToSet(seq) => IsInjective(Append(seq, e))
<1>1. Append(seq, e) \in Seq(S) /\ Len(Append(seq, e)) = Len(seq) + 1
      /\ (\A i \in 1 .. Len(seq) : Append(seq, e)[i] = seq[i])
      /\ Append(seq, e)[Len(seq) + 1] = e
  BY AppendProperties
<1>2. Len(seq) \in Nat /\ DOMAIN seq = 1 .. Len(seq)
  BY LenProperties
<1>3. DOMAIN Append(seq, e) = 1 .. Len(seq) + 1
  BY <1>1, LenProperties
<1>4. ToSet(seq) = {seq[i] : i \in 1 .. Len(seq)}
  BY <1>2 DEF ToSet
<1>5. 1 .. Len(seq) + 1 = (1 .. Len(seq)) \cup {Len(seq) + 1}
  BY <1>2
<1>6. ToSet(Append(seq, e)) = {Append(seq, e)[i] : i \in (1 .. Len(seq)) \cup {Len(seq) + 1}}
  BY <1>3, <1>5 DEF ToSet
<1>7. ToSet(Append(seq, e)) = ToSet(seq) \cup {e}
  BY <1>1, <1>4, <1>6
<1>8. ASSUME IsInjective(seq), e \notin ToSet(seq) PROVE IsInjective(Append(seq, e))
  <2>1. \A a \in 1 .. Len(seq) : Append(seq, e)[a] # e /\ Append(seq, e)[a] = seq[a]
    BY <1>1, <1>4, <1>8
  <2>2. \A a, b \in 1 .. Len(seq) : seq[a] = seq[b] => a = b
    BY <1>2, <1>8 DEF IsInjective
  <2>3. \A a, b \in (1 .. Len(seq)) \cup {Len(seq) + 1} :
          Append(seq, e)[a] = Append(seq, e)[b] => a = b
    BY <1>1, <2>1, <2>2
  <2> QED
    BY <1>3, <1>5, <2>3 DEF IsInjective
<1> QED
  BY <1>1, <1>7, <1>8

LEMMA NewestFirst ==
  ASSUME NEW S, NEW seq \in Seq(S)
  PROVE  /\ Reverse(seq) \in Seq(S)
         /\ ToSet(Reverse(seq)) = ToSet(seq)
         /\ IsInjective(seq) => IsInjective(Reverse(seq))
<1> DEFINE n == Len(seq)
           rev == Reverse(seq)
<1>1. n \in Nat /\ DOMAIN seq = 1 .. n /\ seq \in [1 .. n -> S]
  BY LenProperties
<1>2. rev = [i \in 1 .. n |-> seq[(n - i) + 1]]
  BY DEF Reverse
<1> HIDE DEF n, rev
<1>3. \A i \in 1 .. n : (n - i) + 1 \in 1 .. n /\ (n - ((n - i) + 1)) + 1 = i
  BY <1>1
<1>4. rev \in [1 .. n -> S]
  BY <1>1, <1>2, <1>3
<1>5. ToSet(rev) = {seq[(n - i) + 1] : i \in 1 .. n} /\ ToSet(seq) = {seq[i] : i \in 1 .. n}
  BY <1>1, <1>2 DEF ToSet
<1>6. ToSet(rev) = ToSet(seq)
  BY <1>3, <1>5
<1>7. ASSUME IsInjective(seq) PROVE IsInjective(rev)
  <2>1. ASSUME NEW a \in 1 .. n, NEW b \in 1 .. n, rev[a] = rev[b] PROVE a = b
    <3>1. seq[(n - a) + 1] = seq[(n - b) + 1]
      BY <1>2, <2>1
    <3>2. (n - a) + 1 = (n - b) + 1
      BY <3>1, <1>1, <1>3, <1>7 DEF IsInjective
    <3> QED
      BY <3>2, <1>1
  <2> QED
    BY <2>1, <1>4 DEF IsInjective
<1>8. rev \in Seq(S)
  BY <1>1, <1>4, InSeq
<1> QED
  BY <1>6, <1>7, <1>8 DEF rev

------------------------------------------------------------------------------
(* Every variable stays in its range. *)

LEMMA RecordsFinite ==
  /\ IsFiniteSet(Records)
  /\ IsFiniteSet(ToSet(Old)) /\ Cardinality(ToSet(Old)) <= MaxRecords
<1>1. IsFiniteSet(ToSet(Old)) /\ Cardinality(ToSet(Old)) = Len(Old)
  BY StoreAssumption, RecordAssumption, ElementsOfInjective
<1> QED
  BY <1>1, StoreAssumption, FS_Union DEF Records

\* Any subset of the records is finite, and a part of it is no larger.
LEMMA Few ==
  ASSUME NEW S \in SUBSET Records
  PROVE  IsFiniteSet(S) /\ Cardinality(S) \in Nat
         /\ \A T \in SUBSET S : Cardinality(T) \in Nat /\ Cardinality(T) <= Cardinality(S)
BY RecordsFinite, FS_Subset, FS_CardinalityType

Ranges ==
  /\ store \in [Records -> {"absent", "torn", "whole"}]
  /\ clock \in Nat
  /\ modified \in [Records -> 0 .. clock] /\ created \in [Records -> 0 .. clock]
  /\ pc \in [Processes -> {"create", "write", "glob", "stat", "visit", "done", "stopped"}]
  /\ queue \in [Processes -> Seq(Records)] /\ found \in [Recallers -> Seq(Records)]
  /\ pruned \subseteq Records
  /\ wholeAt \in [Recallers -> SUBSET Records]
  /\ recalled \in [Recallers -> SUBSET Records]

LEMMA PresentInRecords == Present \subseteq Records /\ Whole \subseteq Present
BY DEF Present, Whole

\* What a step of the listing puts in a queue.
LEMMA ListedInOrder ==
  /\ SetToSeq(Present) \in Seq(Records) /\ IsInjective(SetToSeq(Present))
  /\ ToSet(SetToSeq(Present)) = Present
<1>1. IsFiniteSet(Present)
  BY PresentInRecords, Few
<1>2. SetToSeq(Present) \in Seq(Present) /\ IsInjective(SetToSeq(Present))
      /\ ToSet(SetToSeq(Present)) = Present
  BY <1>1, SetInOrder, OrderingOfSet
<1> QED
  BY <1>2, PresentInRecords, SeqMonotonic

LEMMA ByAge ==
  ASSUME NEW listing \in SUBSET Records, NEW files \in OldestFirst(listing)
  PROVE  /\ files \in Seq(Records) /\ IsInjective(files) /\ ToSet(files) = listing
         /\ Len(files) = Cardinality(listing) /\ Len(files) \in Nat /\ DOMAIN files = 1 .. Len(files)
         /\ \A i, j \in 1 .. Len(files) : i < j => Age(files[i]) <= Age(files[j])
<1>1. IsFiniteSet(listing)
  BY Few
<1>2. files \in SetToSeqs(listing) /\ \A i, j \in DOMAIN files : i < j => Age(files[i]) <= Age(files[j])
  BY DEF OldestFirst
<1>3. files \in Seq(listing) /\ IsInjective(files) /\ ToSet(files) = listing
      /\ Len(files) = Cardinality(listing)
  BY <1>1, <1>2, OrderingOfSet
<1>4. files \in Seq(Records)
  BY <1>3, SeqMonotonic
<1>5. Len(files) \in Nat /\ DOMAIN files = 1 .. Len(files)
  BY <1>4, LenProperties
<1> QED
  BY <1>2, <1>3, <1>4, <1>5

\* The first of an injective sequence.
LEMMA FirstOnes ==
  ASSUME NEW S, NEW seq \in Seq(S), NEW n \in 0 .. Len(seq)
  PROVE  /\ SubSeq(seq, 1, n) \in Seq(S)
         /\ ToSet(SubSeq(seq, 1, n)) = {seq[i] : i \in 1 .. n}
<1>1. Len(seq) \in Nat /\ DOMAIN seq = 1 .. Len(seq) /\ n \in Nat /\ n <= Len(seq)
  BY LenProperties
<1>2. \A i \in 1 .. n : i \in 1 .. Len(seq)
  BY <1>1
<1>3. \A i \in 1 .. n : seq[i] \in S
  BY <1>2, ElementOfSeq
<1>4. SubSeq(seq, 1, n) \in Seq(S) /\ Len(SubSeq(seq, 1, n)) = IF 1 <= n THEN n - 1 + 1 ELSE 0
  BY <1>1, <1>3, SubSeqProperties
<1>5. \A i \in 1 .. n - 1 + 1 : SubSeq(seq, 1, n)[i] = seq[1 + i - 1]
  BY <1>1, <1>3, SubSeqProperties
<1>6. Len(SubSeq(seq, 1, n)) = n
  BY <1>1, <1>4
<1>7. \A i \in 1 .. n : SubSeq(seq, 1, n)[i] = seq[i]
  <2> TAKE i \in 1 .. n
  <2>1. i \in 1 .. n - 1 + 1 /\ 1 + i - 1 = i
    BY <1>1
  <2> QED
    BY <1>5, <2>1
<1>8. DOMAIN SubSeq(seq, 1, n) = 1 .. n
  BY <1>4, <1>6, LenProperties
<1> QED
  BY <1>4, <1>7, <1>8 DEF ToSet

LEMMA ExcessInRange ==
  ASSUME NEW n \in Nat
  PROVE  Excess(n) \in 0 .. n /\ n - Excess(n) <= MaxRecords
BY RecordAssumption DEF Excess

LEMMA VisitedTyped ==
  ASSUME NEW p \in Processes, NEW files \in Seq(Records), IsInjective(files)
  PROVE  /\ Visited(p, files) \in Seq(Records)
         /\ ToSet(Visited(p, files)) \subseteq ToSet(files)
         /\ p \in Savers => ToSet(Visited(p, files)) = {files[i] : i \in 1 .. Excess(Len(files))}
         /\ p \in Recallers => IsInjective(Visited(p, files)) /\ ToSet(Visited(p, files)) = ToSet(files)
<1>1. Len(files) \in Nat /\ DOMAIN files = 1 .. Len(files)
  BY LenProperties
<1>2. CASE p \in Savers
  <2>1. Visited(p, files) = SubSeq(files, 1, Excess(Len(files))) /\ p \notin Recallers
    BY <1>2, RecordAssumption DEF Visited
  <2>2. Excess(Len(files)) \in 0 .. Len(files)
    BY <1>1, ExcessInRange
  <2>3. \A i \in 1 .. Excess(Len(files)) : i \in 1 .. Len(files)
    BY <1>1, <2>2
  <2>4. {files[i] : i \in 1 .. Excess(Len(files))} \subseteq ToSet(files)
    BY <1>1, <2>3 DEF ToSet
  <2> QED
    BY <2>1, <2>2, <2>4, FirstOnes
<1>3. CASE p \notin Savers /\ p \in Recallers
  <2>1. Visited(p, files) = Reverse(files)
    BY <1>3 DEF Visited
  <2> QED
    BY <1>3, <2>1, NewestFirst
<1>4. CASE p \notin Savers /\ p \notin Recallers
  BY <1>4 DEF Visited
<1> QED
  BY <1>2, <1>3, <1>4


LEMMA SimilarTyped ==
  ASSUME NEW seq \in Seq(Records)
  PROVE  Similar(seq) \subseteq ToSet(seq) /\ Similar(seq) \subseteq Records
<1>1. \A i \in 1 .. Len(seq) : seq[i] \in ToSet(seq) /\ seq[i] \in Records
  BY LenProperties, ElementOfSeq DEF ToSet
<1> QED
  BY <1>1 DEF Similar

LEMMA InitRanges == Init => Ranges
<1> SUFFICES ASSUME Init PROVE Ranges
  OBVIOUS
<1>1. Len(Old) \in Nat /\ DOMAIN Old = 1 .. Len(Old)
  BY StoreAssumption, LenProperties
<1>2. \A r \in Records \ Savers : \E i \in DOMAIN Old : Old[i] = r
  BY DEF Records, ToSet
<1>3. \A r \in Records \ Savers : (CHOOSE i \in DOMAIN Old : Old[i] = r) \in 0 .. Len(Old)
  BY <1>1, <1>2
<1>4. created \in [Records -> 0 .. clock] /\ modified \in [Records -> 0 .. clock]
  BY <1>1, <1>3 DEF Init
<1>5. <<>> \in Seq(Records)
  BY EmptySeq
<1> QED
  BY <1>1, <1>4, <1>5 DEF Init, Ranges

LEMMA GoesRanges ==
  ASSUME Ranges, NEW p \in Processes,
         NEW step \in {"create", "write", "glob", "stat", "visit", "done", "stopped"}, Goes(p, step)
  PROVE  pc' \in [Processes -> {"create", "write", "glob", "stat", "visit", "done", "stopped"}]
BY DEF Ranges, Goes

LEMMA PassesRanges ==
  ASSUME Ranges, NEW p \in Processes, queue[p] # <<>>, Passes(p)
  PROVE  queue' \in [Processes -> Seq(Records)] /\ InTurn(p) \in Records
<1>1. queue[p] \in Seq(Records) /\ queue \in [Processes -> Seq(Records)]
  BY DEF Ranges
<1>2. Tail(queue[p]) \in Seq(Records) /\ Head(queue[p]) \in Records
  BY <1>1, HeadTailProperties
<1> QED
  BY <1>1, <1>2 DEF Passes, InTurn

LEMMA GlobRanges ==
  ASSUME Ranges, NEW p \in Processes, Glob(p)
  PROVE  Ranges'
<1>1. pc' \in [Processes -> {"create", "write", "glob", "stat", "visit", "done", "stopped"}]
  BY GoesRanges DEF Glob
<1>2. queue' \in [Processes -> Seq(Records)]
  BY ListedInOrder DEF Glob, Ranges
<1>3. wholeAt' \in [Recallers -> SUBSET Records]
  BY PresentInRecords DEF Glob, Ranges
<1> QED
  BY <1>1, <1>2, <1>3 DEF Glob, Ranges

LEMMA StatRanges ==
  ASSUME Ranges, NEW p \in Processes, Stat(p)
  PROVE  Ranges'
<1>1. pc' \in [Processes -> {"create", "write", "glob", "stat", "visit", "done", "stopped"}]
  BY GoesRanges DEF Stat
<1>2. queue' \in [Processes -> Seq(Records)]
  <2>1. ToSet(queue[p]) \in SUBSET Records
    BY ElementsIn DEF Ranges
  <2>2. PICK files \in OldestFirst(ToSet(queue[p])) :
          queue' = [queue EXCEPT ![p] = Visited(p, files)]
    BY DEF Stat
  <2>3. Visited(p, files) \in Seq(Records)
    BY <2>1, ByAge, VisitedTyped
  <2> QED
    BY <2>2, <2>3 DEF Ranges
<1> QED
  BY <1>1, <1>2 DEF Stat, Ranges, history

LEMMA LeaveRanges ==
  ASSUME Ranges, NEW p \in Processes, Leave(p)
  PROVE  Ranges'
<1>1. pc' \in [Processes -> {"create", "write", "glob", "stat", "visit", "done", "stopped"}]
  BY GoesRanges DEF Leave
<1>2. recalled' \in [Recallers -> SUBSET Records]
  <2>1. CASE p \in Recallers
    <3>1. Similar(found[p]) \subseteq Records
      BY <2>1, SimilarTyped DEF Ranges
    <3> QED
      BY <2>1, <3>1 DEF Leave, Ranges
  <2>2. CASE p \notin Recallers
    BY <2>2 DEF Leave, Ranges
  <2> QED
    BY <2>1, <2>2
<1>3. found' \in [Recallers -> Seq(Records)]
  BY EmptySeq DEF Leave, Ranges
<1> QED
  BY <1>1, <1>2, <1>3 DEF Leave, Ranges, history

LEMMA CreateRanges ==
  ASSUME Ranges, NEW s \in Savers, Create(s)
  PROVE  Ranges'
<1>1. s \in Records /\ s \in Processes
  BY DEF Records, Processes
<1>2. pc' \in [Processes -> {"create", "write", "glob", "stat", "visit", "done", "stopped"}]
  BY <1>1, GoesRanges DEF Create
<1>3. clock' \in Nat /\ clock' \in 0 .. clock' /\ \A t \in 0 .. clock : t \in 0 .. clock'
  BY DEF Create, Ranges
<1>4. modified' \in [Records -> 0 .. clock'] /\ created' \in [Records -> 0 .. clock']
  BY <1>1, <1>3 DEF Create, Ranges
<1>5. store' \in [Records -> {"absent", "torn", "whole"}]
  BY <1>1 DEF Create, Ranges
<1> QED
  BY <1>2, <1>3, <1>4, <1>5 DEF Create, Ranges

LEMMA WriteRanges ==
  ASSUME Ranges, NEW s \in Savers, Write(s)
  PROVE  Ranges'
<1>1. s \in Records /\ s \in Processes
  BY DEF Records, Processes
<1>2. pc' \in [Processes -> {"create", "write", "glob", "stat", "visit", "done", "stopped"}]
  BY <1>1, GoesRanges DEF Write
<1>3. clock' \in Nat /\ clock' \in 0 .. clock' /\ \A t \in 0 .. clock : t \in 0 .. clock'
  BY DEF Write, Ranges
<1>4. modified' \in [Records -> 0 .. clock'] /\ created' \in [Records -> 0 .. clock']
  BY <1>1, <1>3 DEF Write, Ranges, history
<1>5. store' \in [Records -> {"absent", "torn", "whole"}]
  BY <1>1 DEF Write, Ranges
<1> QED
  BY <1>2, <1>3, <1>4, <1>5 DEF Write, Ranges, history

LEMMA PruneRanges ==
  ASSUME Ranges, NEW s \in Savers, Prune(s)
  PROVE  Ranges'
<1>1. queue' \in [Processes -> Seq(Records)] /\ InTurn(s) \in Records
  BY PassesRanges DEF Prune, Processes
<1> QED
  BY <1>1 DEF Prune, Ranges

LEMMA StopRanges ==
  ASSUME Ranges, NEW s \in Savers, Stop(s)
  PROVE  Ranges'
<1>1. pc' \in [Processes -> {"create", "write", "glob", "stat", "visit", "done", "stopped"}]
  BY GoesRanges DEF Stop, Processes
<1> QED
  BY <1>1, EmptySeq DEF Stop, Ranges, history

LEMMA ReadRanges ==
  ASSUME Ranges, NEW p \in Recallers, Read(p)
  PROVE  Ranges'
<1>1. queue' \in [Processes -> Seq(Records)] /\ InTurn(p) \in Records
  BY PassesRanges DEF Read, Processes
<1>2. Append(found[p], InTurn(p)) \in Seq(Records)
  BY <1>1, AppendProperties DEF Ranges
<1>3. found' \in [Recallers -> Seq(Records)]
  BY <1>2 DEF Read, Ranges
<1> QED
  BY <1>1, <1>3 DEF Read, Ranges, history

LEMMA ClearRanges ==
  ASSUME Ranges, NEW p \in Clearers, Clear(p)
  PROVE  Ranges'
<1>1. queue' \in [Processes -> Seq(Records)] /\ InTurn(p) \in Records
  BY PassesRanges DEF Clear, Processes
<1>2. store' \in [Records -> {"absent", "torn", "whole"}]
  BY <1>1 DEF Clear, Ranges
<1> QED
  BY <1>1, <1>2 DEF Clear, Ranges, history

LEMMA RangesStep == Ranges /\ [Next]_vars => Ranges'
<1> SUFFICES ASSUME Ranges, [Next]_vars PROVE Ranges'
  OBVIOUS
<1>1. CASE UNCHANGED vars
  BY <1>1 DEF vars, history, Ranges
<1>2. CASE Next
  BY <1>2, GlobRanges, StatRanges, LeaveRanges, CreateRanges, WriteRanges, PruneRanges,
     StopRanges, ReadRanges, ClearRanges DEF Next
<1> QED
  BY <1>1, <1>2


------------------------------------------------------------------------------
(* The times of the files. *)

\* A file is modified when it is created or later, no two at one time, and what
\* there is has been created.
Stamps ==
  /\ \A r \in Records : /\ created[r] <= modified[r]
                        /\ created[r] = 0 <=> modified[r] = 0
                        /\ store[r] # "absent" => created[r] # 0
  /\ \A a, b \in Records : a # b /\ modified[a] = modified[b] => modified[a] = 0

\* A save that has not begun has no file, and what is listed or was pruned had one.
Begun ==
  /\ \A s \in Savers : pc[s] = "create" => created[s] = 0
  /\ \A p \in Processes : \A r \in ToSet(queue[p]) : created[r] # 0
  /\ \A r \in pruned : created[r] # 0

\* A step gives no file a second beginning, sets no file's time back, and brings
\* nothing back that is gone.
Evolves ==
  \A r \in Records :
    /\ created[r] # 0 => created'[r] = created[r]
    /\ modified'[r] >= modified[r]
    /\ created[r] # 0 /\ store[r] = "absent" => store'[r] = "absent"
    /\ created[r] # 0 /\ store[r] # "torn" => store'[r] # "torn"

\* A step that at most removes files.
Removes ==
  /\ UNCHANGED <<modified, clock, created>>
  /\ \A r \in Records : store'[r] = store[r] \/ store'[r] = "absent"

LEMMA StampsInit == Init => Stamps /\ Begun
<1> SUFFICES ASSUME Init PROVE Stamps /\ Begun
  OBVIOUS
<1>1. Len(Old) \in Nat /\ DOMAIN Old = 1 .. Len(Old)
  BY StoreAssumption, LenProperties
<1> DEFINE At(r) == CHOOSE i \in DOMAIN Old : Old[i] = r
<1>2. \A r \in Records \ Savers : \E i \in DOMAIN Old : Old[i] = r
  BY DEF Records, ToSet
<1>3. \A r \in Records \ Savers : At(r) \in DOMAIN Old /\ Old[At(r)] = r
  BY <1>2
<1>4. \A r \in Records \ Savers : At(r) \in Nat \ {0}
  BY <1>1, <1>3
<1>5. \A r \in Records : /\ created[r] = modified[r]
                         /\ r \in Savers => created[r] = 0 /\ store[r] = "absent"
                         /\ r \notin Savers => created[r] = At(r)
  BY DEF Init
<1> HIDE DEF At
<1>6. \A r \in Records : created[r] \in Nat
  BY <1>4, <1>5
<1>7. Stamps
  <2>1. ASSUME NEW a \in Records, NEW b \in Records, a # b, modified[a] = modified[b]
        PROVE  modified[a] = 0
    <3>1. CASE a \in Savers \/ b \in Savers
      BY <2>1, <3>1, <1>5
    <3>2. CASE a \notin Savers /\ b \notin Savers
      BY <2>1, <3>2, <1>3, <1>5
    <3> QED
      BY <3>1, <3>2
  <2>2. ASSUME NEW r \in Records
        PROVE  /\ created[r] <= modified[r]
               /\ created[r] = 0 <=> modified[r] = 0
               /\ store[r] # "absent" => created[r] # 0
    BY <1>4, <1>5, <1>6
  <2> QED
    BY <2>1, <2>2 DEF Stamps
<1>8. Begun
  <2>1. \A p \in Processes : ToSet(queue[p]) = {}
    BY DEF Init, ToSet
  <2>2. \A s \in Savers : created[s] = 0
    BY <1>5 DEF Records
  <2>3. pruned = {}
    BY DEF Init
  <2> QED
    BY <2>1, <2>2, <2>3 DEF Begun
<1> QED
  BY <1>7, <1>8

\* Whatever a step is, it creates a file, writes one, or at most removes some.
LEMMA StepsOnFiles ==
  ASSUME Ranges, [Next]_vars
  PROVE  (\E s \in Savers : Create(s)) \/ (\E s \in Savers : Write(s) /\ store[s] # "absent") \/ Removes
<1>1. ASSUME NEW p \in Processes, Glob(p) \/ Stat(p) \/ Leave(p) PROVE Removes
  BY <1>1 DEF Glob, Stat, Leave, Removes, history
<1>2. ASSUME NEW s \in Savers, Write(s), store[s] = "absent" PROVE Removes
  BY <1>2 DEF Write, Removes, history
<1>3. ASSUME NEW s \in Savers, Prune(s) PROVE Removes
  <2>1. InTurn(s) \in Records
    BY <1>3, PassesRanges DEF Prune, Processes
  <2> QED
    BY <1>3, <2>1 DEF Prune, Removes, Ranges
<1>4. ASSUME NEW s \in Savers, Stop(s) PROVE Removes
  BY <1>4 DEF Stop, Removes, history
<1>5. ASSUME NEW p \in Recallers, Read(p) PROVE Removes
  BY <1>5 DEF Read, Removes, history
<1>6. ASSUME NEW p \in Clearers, Clear(p) PROVE Removes
  <2>1. InTurn(p) \in Records
    BY <1>6, PassesRanges DEF Clear, Processes
  <2> QED
    BY <1>6, <2>1 DEF Clear, Removes, Ranges, history
<1>7. CASE UNCHANGED vars
  BY <1>7 DEF vars, history, Removes
<1>8. CASE Next
  BY <1>1, <1>2, <1>3, <1>4, <1>5, <1>6, <1>8 DEF Next
<1> QED
  BY <1>7, <1>8

LEMMA StampsStep ==
  ASSUME Ranges, Stamps, Begun, [Next]_vars
  PROVE  Stamps' /\ Evolves
<1>0. \A r \in Records : modified[r] \in Nat /\ created[r] \in Nat /\ modified[r] <= clock /\ clock \in Nat
  BY DEF Ranges
<1>1. ASSUME NEW s \in Savers, Create(s) PROVE Stamps' /\ Evolves
  <2>1. s \in Records
    BY DEF Records
  <2>2. created[s] = 0 /\ modified[s] = 0
    BY <1>1, <2>1 DEF Create, Begun, Stamps
  <2>3. \A r \in Records : /\ modified'[r] = IF r = s THEN clock + 1 ELSE modified[r]
                           /\ created'[r] = IF r = s THEN clock + 1 ELSE created[r]
                           /\ store'[r] = IF r = s THEN "torn" ELSE store[r]
    BY <1>1, <2>1 DEF Create, Ranges
  <2>4. Stamps'
    <3>1. ASSUME NEW r \in Records
          PROVE  /\ created'[r] <= modified'[r]
                 /\ created'[r] = 0 <=> modified'[r] = 0
                 /\ store'[r] # "absent" => created'[r] # 0
      BY <1>0, <2>3 DEF Stamps
    <3>2. ASSUME NEW a \in Records, NEW b \in Records, a # b, modified'[a] = modified'[b]
          PROVE  modified'[a] = 0
      BY <1>0, <2>3, <3>2 DEF Stamps
    <3> QED
      BY <3>1, <3>2 DEF Stamps
  <2>5. Evolves
    BY <1>0, <2>2, <2>3 DEF Evolves
  <2> QED
    BY <2>4, <2>5
<1>2. ASSUME NEW s \in Savers, Write(s), store[s] # "absent" PROVE Stamps' /\ Evolves
  <2>1. s \in Records
    BY DEF Records
  <2>2. created[s] # 0
    BY <1>2, <2>1 DEF Stamps
  <2>3. \A r \in Records : /\ modified'[r] = IF r = s THEN clock + 1 ELSE modified[r]
                           /\ created'[r] = created[r]
                           /\ store'[r] = IF r = s THEN "whole" ELSE store[r]
    BY <1>2, <2>1 DEF Write, Ranges, history
  <2>4. Stamps'
    <3>1. ASSUME NEW r \in Records
          PROVE  /\ created'[r] <= modified'[r]
                 /\ created'[r] = 0 <=> modified'[r] = 0
                 /\ store'[r] # "absent" => created'[r] # 0
      BY <1>0, <2>2, <2>3 DEF Stamps
    <3>2. ASSUME NEW a \in Records, NEW b \in Records, a # b, modified'[a] = modified'[b]
          PROVE  modified'[a] = 0
      BY <1>0, <2>3, <3>2 DEF Stamps
    <3> QED
      BY <3>1, <3>2 DEF Stamps
  <2>5. Evolves
    BY <1>0, <1>2, <2>3 DEF Evolves
  <2> QED
    BY <2>4, <2>5
<1>3. CASE Removes
  <2>1. Stamps'
    BY <1>3 DEF Removes, Stamps
  <2>2. Evolves
    <3>1. ASSUME NEW r \in Records
          PROVE  /\ created[r] # 0 => created'[r] = created[r]
                 /\ modified'[r] >= modified[r]
                 /\ created[r] # 0 /\ store[r] = "absent" => store'[r] = "absent"
                 /\ created[r] # 0 /\ store[r] # "torn" => store'[r] # "torn"
      BY <1>0, <1>3 DEF Removes
    <3> QED
      BY <3>1 DEF Evolves
  <2> QED
    BY <2>1, <2>2
<1> QED
  BY <1>1, <1>2, <1>3, StepsOnFiles


------------------------------------------------------------------------------
(* What one process does. *)

Idle(p) == pc'[p] = pc[p] /\ queue'[p] = queue[p]

\* A process comes to the next record it has listed.
Proceeds(p) ==
  /\ pc[p] = "visit" /\ pc'[p] = "visit"
  /\ queue[p] # <<>> /\ queue'[p] = Tail(queue[p])

LEMMA ProcessSteps ==
  ASSUME Ranges, [Next]_vars, NEW p \in Processes
  PROVE  \/ Idle(p)
         \/ Glob(p) \/ Stat(p) \/ Leave(p)
         \/ p \in Savers /\ (Create(p) \/ Write(p) \/ Prune(p) \/ Stop(p))
         \/ p \in Recallers /\ Read(p)
         \/ p \in Clearers /\ Clear(p)
<1>1. Savers \subseteq Processes /\ Recallers \subseteq Processes /\ Clearers \subseteq Processes
  BY DEF Processes
<1>2. ASSUME NEW q \in Processes, Glob(q) \/ Stat(q) \/ Leave(q), q # p PROVE Idle(p)
  BY <1>2 DEF Glob, Stat, Leave, Goes, Ranges, Idle
<1>3. ASSUME NEW s \in Savers, Create(s) \/ Write(s) \/ Prune(s) \/ Stop(s), s # p PROVE Idle(p)
  BY <1>1, <1>3 DEF Create, Write, Prune, Stop, Goes, Passes, Ranges, Idle
<1>4. ASSUME NEW q \in Recallers, Read(q), q # p PROVE Idle(p)
  BY <1>1, <1>4 DEF Read, Passes, Ranges, Idle
<1>5. ASSUME NEW q \in Clearers, Clear(q), q # p PROVE Idle(p)
  BY <1>1, <1>5 DEF Clear, Passes, Ranges, Idle
<1>6. CASE UNCHANGED vars
  BY <1>6 DEF vars, Idle
<1>7. CASE Next
  BY <1>2, <1>3, <1>4, <1>5, <1>7 DEF Next
<1> QED
  BY <1>6, <1>7

LEMMA Proceeding ==
  ASSUME Ranges, NEW p \in Processes,
         (p \in Savers /\ Prune(p)) \/ (p \in Recallers /\ Read(p)) \/ (p \in Clearers /\ Clear(p))
  PROVE  Proceeds(p)
BY DEF Ranges, Prune, Read, Clear, Passes, Proceeds

\* What the step of a process does to its own place and queue.
LEMMA Placing ==
  ASSUME Ranges, NEW p \in Processes
  PROVE  /\ Glob(p) => pc[p] = "glob" /\ pc'[p] = "stat" /\ queue'[p] = SetToSeq(Present)
         /\ Stat(p) => /\ pc[p] = "stat" /\ pc'[p] = "visit"
                       /\ \E files \in OldestFirst(ToSet(queue[p])) : queue'[p] = Visited(p, files)
         /\ Leave(p) => pc[p] = "visit" /\ queue[p] = <<>> /\ pc'[p] = "done" /\ queue'[p] = queue[p]
         /\ Create(p) => pc[p] = "create" /\ pc'[p] = "write" /\ queue'[p] = queue[p]
         /\ Write(p) => pc[p] = "write" /\ pc'[p] = "glob" /\ queue'[p] = queue[p]
         /\ Stop(p) => pc'[p] = "stopped" /\ queue'[p] = <<>>
<1>1. pc \in [Processes -> {"create", "write", "glob", "stat", "visit", "done", "stopped"}]
      /\ queue \in [Processes -> Seq(Records)]
  BY DEF Ranges
<1>2. Stat(p) => \E files \in OldestFirst(ToSet(queue[p])) : queue'[p] = Visited(p, files)
  BY <1>1 DEF Stat
<1> QED
  BY <1>1, <1>2 DEF Glob, Stat, Leave, Create, Write, Stop, Goes

\* A queue gets what is there, and otherwise only shrinks.
LEMMA QueueComesFrom ==
  ASSUME Ranges, [Next]_vars, NEW p \in Processes
  PROVE  \/ ToSet(queue'[p]) \subseteq ToSet(queue[p])
         \/ Glob(p) /\ ToSet(queue'[p]) = Present
<1>0. queue[p] \in Seq(Records) /\ ToSet(queue[p]) \subseteq Records
  BY ElementsIn DEF Ranges
<1>1. CASE Glob(p)
  BY <1>1, Placing, ListedInOrder
<1>2. CASE Stat(p)
  <2>1. PICK files \in OldestFirst(ToSet(queue[p])) : queue'[p] = Visited(p, files)
    BY <1>2, Placing
  <2>2. files \in Seq(Records) /\ IsInjective(files) /\ ToSet(files) = ToSet(queue[p])
    BY <1>0, ByAge
  <2> QED
    BY <2>1, <2>2, VisitedTyped
<1>3. CASE Proceeds(p)
  BY <1>0, <1>3, HeadAndTail DEF Proceeds
<1>4. CASE p \in Savers /\ Stop(p)
  <2>1. ToSet(<<>>) = {}
    BY DEF ToSet
  <2> QED
    BY <1>4, <2>1, Placing
<1>5. CASE Idle(p) \/ Leave(p) \/ (p \in Savers /\ (Create(p) \/ Write(p)))
  <2>1. queue'[p] = queue[p]
    BY <1>5, Placing DEF Idle
  <2> QED
    BY <2>1
<1> QED
  BY <1>1, <1>2, <1>3, <1>4, <1>5, ProcessSteps, Proceeding

LEMMA BegunStep ==
  ASSUME Ranges, Stamps, Begun, [Next]_vars
  PROVE  Begun'
<1>0. Evolves
  BY StampsStep
<1>1. ASSUME NEW s \in Savers, pc'[s] = "create" PROVE created'[s] = 0
  <2>1. s \in Processes /\ s \in Records
    BY DEF Processes, Records
  <2>2. ~Create(s)
    BY <1>1, <2>1, Placing
  <2>3. pc[s] = "create"
    BY <1>1, <2>1, ProcessSteps, Placing, Proceeding DEF Idle, Proceeds
  <2>4. created[s] = 0
    BY <2>3 DEF Begun
  <2>5. ASSUME NEW t \in Savers, Create(t) PROVE created'[s] = created[s]
    <3>1. t # s /\ t \in Records
      BY <2>2, <2>5 DEF Records
    <3> QED
      BY <2>1, <2>5, <3>1 DEF Create, Ranges
  <2>6. ASSUME NEW t \in Savers, Write(t) PROVE created'[s] = created[s]
    BY <2>6 DEF Write, history
  <2>7. Removes => created'[s] = created[s]
    BY DEF Removes
  <2> QED
    BY <2>4, <2>5, <2>6, <2>7, StepsOnFiles
<1>2. ASSUME NEW p \in Processes, NEW r \in ToSet(queue'[p]) PROVE created'[r] # 0
  <2>0. ToSet(queue[p]) \subseteq Records
    BY ElementsIn DEF Ranges
  <2>1. r \in Records /\ created[r] # 0
    BY <2>0, QueueComesFrom DEF Begun, Present, Stamps
  <2> QED
    BY <1>0, <2>1 DEF Evolves
<1>3. ASSUME NEW r \in pruned' PROVE created'[r] # 0
  <2>1. ASSUME NEW s \in Savers, Prune(s), r = InTurn(s) PROVE r \in Records /\ created[r] # 0
    <3>1. s \in Processes /\ queue[s] \in Seq(Records) /\ queue[s] # <<>>
      BY <2>1 DEF Processes, Ranges, Prune
    <3>2. r \in ToSet(queue[s]) /\ r \in Records
      BY <2>1, <3>1, HeadAndTail, HeadTailProperties DEF InTurn
    <3> QED
      BY <3>1, <3>2 DEF Begun
  <2>2. r \in pruned \/ \E s \in Savers : Prune(s) /\ r = InTurn(s)
    BY <1>3 DEF Next, vars, history, Glob, Stat, Leave, Create, Write, Prune, Stop, Read, Clear
  <2>3. r \in Records /\ created[r] # 0
    BY <2>1, <2>2 DEF Begun, Ranges
  <2> QED
    BY <1>0, <2>3 DEF Evolves
<1> QED
  BY <1>1, <1>2, <1>3 DEF Begun

------------------------------------------------------------------------------
(* What is pruned is outnumbered. *)

\* max_records others were written since the record was begun.
Outnumbered(r) == Cardinality({o \in Records \ {r} : modified[o] > created[r]}) >= MaxRecords

\* What a save has yet to prune is outnumbered, unless it is gone already.
Doomed ==
  \A s \in Savers : pc[s] = "visit" =>
    \A r \in ToSet(queue[s]) : store[r] # "absent" => Outnumbered(r)

LEMMA StaysOutnumbered ==
  ASSUME Ranges, Ranges', Evolves, NEW r \in Records, created[r] # 0, Outnumbered(r)
  PROVE  Outnumbered(r)'
<1> DEFINE Now == {o \in Records \ {r} : modified[o] > created[r]}
           Then == {o \in Records \ {r} : modified'[o] > created'[r]}
<1>1. created'[r] = created[r]
  BY DEF Evolves
<1>2. \A o \in Records : modified[o] \in Nat /\ modified'[o] \in Nat /\ modified'[o] >= modified[o]
  BY DEF Ranges, Evolves
<1>3. created[r] \in Nat
  BY DEF Ranges
<1>4. Now \subseteq Then
  BY <1>1, <1>2, <1>3
<1>5. Then \in SUBSET Records
  OBVIOUS
<1>6. Cardinality(Now) >= MaxRecords
  BY DEF Outnumbered
<1> HIDE DEF Now, Then
<1>7. Cardinality(Then) \in Nat /\ Cardinality(Now) \in Nat /\ Cardinality(Now) <= Cardinality(Then)
  BY <1>4, <1>5, Few
<1>8. Cardinality(Then) >= MaxRecords
  BY <1>6, <1>7, RecordAssumption
<1> QED
  BY <1>8 DEF Then, Outnumbered

\* A save that has read the ages goes on only to records that are outnumbered.
LEMMA StatDooms ==
  ASSUME Ranges, Stamps, NEW s \in Savers, Stat(s),
         NEW r \in ToSet(queue'[s]), store[r] # "absent"
  PROVE  r \in Records /\ Outnumbered(r)
<1>0. s \in Processes /\ ToSet(queue[s]) \in SUBSET Records
  BY ElementsIn DEF Processes, Ranges
<1>1. PICK files \in OldestFirst(ToSet(queue[s])) : queue'[s] = Visited(s, files)
  BY <1>0, Placing
<1> DEFINE n == Len(files)
<1>2. files \in Seq(Records) /\ IsInjective(files) /\ n \in Nat /\ DOMAIN files = 1 .. n
      /\ \A i, j \in 1 .. n : i < j => Age(files[i]) <= Age(files[j])
  BY <1>0, ByAge
<1>3. PICK i \in 1 .. Excess(n) : r = files[i]
  BY <1>0, <1>1, <1>2, VisitedTyped
<1> HIDE DEF n
<1>4. i \in 1 .. n /\ i + MaxRecords <= n /\ i \in Nat /\ MaxRecords \in Nat
  BY <1>2, <1>3, RecordAssumption DEF Excess
<1>5. \A j \in 1 .. n : files[j] \in Records
  BY <1>2, ElementOfSeq DEF n
<1>6. r \in Records
  BY <1>3, <1>4, <1>5
<1>7. ASSUME NEW j \in 1 .. n, i < j
      PROVE  files[j] \in Records \ {r} /\ modified[files[j]] > created[r]
  <2>1. files[j] # r
    BY <1>2, <1>3, <1>4, <1>7 DEF IsInjective
  <2>2. Age(r) <= Age(files[j])
    BY <1>2, <1>3, <1>4, <1>7
  <2>3. Age(r) = modified[r] /\ modified[r] # 0 /\ created[r] <= modified[r]
    BY <1>6 DEF Age, Stamps
  <2>4. modified[r] \in Nat /\ created[r] \in Nat /\ modified[files[j]] \in Nat
    BY <1>5, <1>6 DEF Ranges
  <2>5. Age(files[j]) \in {0, modified[files[j]]}
    BY DEF Age
  <2>6. modified[r] <= modified[files[j]] /\ modified[files[j]] # 0
    BY <2>2, <2>3, <2>4, <2>5
  <2>7. modified[files[j]] # modified[r]
    BY <1>5, <1>6, <2>1, <2>6 DEF Stamps
  <2> QED
    BY <1>5, <2>1, <2>3, <2>4, <2>6, <2>7
<1> DEFINE Later == {o \in Records \ {r} : modified[o] > created[r]}
           next == [k \in 1 .. MaxRecords |-> files[i + k]]
<1>8. \A k \in 1 .. MaxRecords : i + k \in 1 .. n /\ i < i + k
  <2>1. n \in Nat
    BY <1>2
  <2> QED
    BY <1>4, <2>1
<1>9. next \in [1 .. MaxRecords -> Later]
  BY <1>7, <1>8
<1>10. \A a, b \in 1 .. MaxRecords : next[a] = next[b] => a = b
  <2> TAKE a, b \in 1 .. MaxRecords
  <2> HAVE next[a] = next[b]
  <2>1. files[i + a] = files[i + b]
    OBVIOUS
  <2>2. i + a = i + b
    BY <1>2, <1>8, <2>1 DEF IsInjective
  <2> QED
    BY <1>4, <2>2
<1>11. Later \in SUBSET Records
  OBVIOUS
<1> HIDE DEF Later, next
<1>12. next \in Injection(1 .. MaxRecords, Later)
  BY <1>9, <1>10 DEF Injection, IsInjective
<1>13. IsFiniteSet(Later) /\ Cardinality(Later) \in Nat
  BY <1>11, Few
<1>14. Cardinality(1 .. MaxRecords) = MaxRecords
  BY <1>4, FS_Interval
<1>15. MaxRecords <= Cardinality(Later)
  BY <1>12, <1>13, <1>14, FS_Injection
<1>16. Cardinality(Later) >= MaxRecords
  BY <1>4, <1>13, <1>15
<1> QED
  BY <1>6, <1>16 DEF Later, Outnumbered

LEMMA DoomedStep ==
  ASSUME Ranges, Ranges', Stamps, Begun, Doomed, [Next]_vars
  PROVE  Doomed'
<1>0. Evolves
  BY StampsStep
<1> SUFFICES ASSUME NEW s \in Savers, pc'[s] = "visit", NEW r \in ToSet(queue'[s]), store'[r] # "absent"
             PROVE  Outnumbered(r)'
  BY DEF Doomed
<1>1. s \in Processes /\ ToSet(queue[s]) \subseteq Records /\ queue[s] \in Seq(Records)
  BY ElementsIn DEF Processes, Ranges
<1>2. r \in Records /\ created[r] # 0 /\ store[r] # "absent"
  BY <1>0, <1>1, QueueComesFrom DEF Begun, Present, Stamps, Evolves
<1>3. CASE Stat(s)
  BY <1>0, <1>2, <1>3, StatDooms, StaysOutnumbered
<1>4. CASE ~Stat(s)
  <2>1. pc[s] = "visit" /\ ~Glob(s)
    BY <1>1, <1>4, ProcessSteps, Placing, Proceeding DEF Idle, Proceeds
  <2>2. r \in ToSet(queue[s])
    BY <1>1, <2>1, QueueComesFrom
  <2>3. Outnumbered(r)
    BY <1>2, <2>1, <2>2 DEF Doomed
  <2> QED
    BY <1>0, <1>2, <2>3, StaysOutnumbered
<1> QED
  BY <1>3, <1>4

LEMMA PrunedStep ==
  ASSUME Ranges, Ranges', Stamps, Begun, Doomed, PrunedOnlyWhenOutnumbered, [Next]_vars
  PROVE  PrunedOnlyWhenOutnumbered'
<1>0. Evolves
  BY StampsStep
<1> SUFFICES ASSUME NEW r \in pruned' PROVE Outnumbered(r)'
  BY DEF PrunedOnlyWhenOutnumbered, Outnumbered
<1>1. CASE r \in pruned
  <2>1. r \in Records /\ created[r] # 0 /\ Outnumbered(r)
    BY <1>1 DEF Begun, Ranges, PrunedOnlyWhenOutnumbered, Outnumbered
  <2> QED
    BY <1>0, <2>1, StaysOutnumbered
<1>2. ASSUME NEW s \in Savers, Prune(s), r = InTurn(s), r \notin pruned PROVE Outnumbered(r)'
  <2>1. s \in Processes /\ queue[s] \in Seq(Records) /\ queue[s] # <<>> /\ pc[s] = "visit"
    BY <1>2 DEF Processes, Ranges, Prune
  <2>2. r \in ToSet(queue[s]) /\ r \in Records
    BY <1>2, <2>1, HeadAndTail, HeadTailProperties DEF InTurn
  <2>3. store[r] # "absent"
    BY <1>2 DEF Prune
  <2>4. created[r] # 0 /\ Outnumbered(r)
    BY <2>1, <2>2, <2>3 DEF Begun, Doomed
  <2> QED
    BY <1>0, <2>2, <2>4, StaysOutnumbered
<1>3. r \in pruned \/ \E s \in Savers : Prune(s) /\ r = InTurn(s)
  BY DEF Next, vars, history, Glob, Stat, Leave, Create, Write, Prune, Stop, Read, Clear
<1> QED
  BY <1>1, <1>2, <1>3


\* Every file a save prunes was outnumbered by max_records others since it was begun.
Sound == Ranges /\ Stamps /\ Begun /\ Doomed /\ PrunedOnlyWhenOutnumbered

LEMMA SoundInit == Init => Sound
<1> SUFFICES ASSUME Init PROVE Sound
  OBVIOUS
<1>1. Doomed
  BY RecordAssumption DEF Init, Doomed, Processes
<1>2. PrunedOnlyWhenOutnumbered
  BY DEF Init, PrunedOnlyWhenOutnumbered
<1> QED
  BY <1>1, <1>2, InitRanges, StampsInit DEF Sound

LEMMA SoundStep == Sound /\ [Next]_vars => Sound'
<1> SUFFICES ASSUME Sound, [Next]_vars PROVE Sound'
  OBVIOUS
<1>1. Ranges'
  BY RangesStep DEF Sound
<1>2. Stamps' /\ Begun'
  BY StampsStep, BegunStep DEF Sound
<1>3. Doomed'
  BY <1>1, DoomedStep DEF Sound
<1>4. PrunedOnlyWhenOutnumbered'
  BY <1>1, PrunedStep DEF Sound
<1> QED
  BY <1>1, <1>2, <1>3, <1>4 DEF Sound

LEMMA Soundness == Spec => []Sound
<1> QED
  BY SoundInit, SoundStep, PTL DEF Spec

\* However many runs save, prune, recall and clear at a time, a save removes a
\* record only when max_records others were written since it was begun.
THEOREM OnlyOutnumberedArePruned == Spec => []PrunedOnlyWhenOutnumbered
<1>1. Sound => PrunedOnlyWhenOutnumbered
  BY DEF Sound
<1> QED
  BY <1>1, Soundness, PTL


------------------------------------------------------------------------------
(* The records that are most alike. *)

\* The number of elements before an element of a finite strict order.
RankIn(E, order) == [j \in E |-> Cardinality({h \in E : <<h, j>> \in order})]

\* In a finite total order the ranks are 0, 1, 2 ..., one each.
LEMMA Ranking ==
  ASSUME NEW E, IsFiniteSet(E), NEW order,
         \A i \in E : <<i, i>> \notin order,
         \A i, j, k \in E : <<i, j>> \in order /\ <<j, k>> \in order => <<i, k>> \in order,
         \A i, j \in E : i # j => <<i, j>> \in order \/ <<j, i>> \in order
  PROVE  /\ RankIn(E, order) \in Bijection(E, 0 .. Cardinality(E) - 1)
         /\ \A j \in E : RankIn(E, order)[j] \in Nat
         /\ \A i, j \in E : <<i, j>> \in order => RankIn(E, order)[i] < RankIn(E, order)[j]
<1> DEFINE Ahead(j) == {h \in E : <<h, j>> \in order}
           rank == RankIn(E, order)
           m == Cardinality(E)
<1>1. m \in Nat
  BY FS_CardinalityType
<1>2. \A j \in E : rank[j] = Cardinality(Ahead(j))
  BY DEF RankIn
<1>3. \A j \in E : Ahead(j) \subseteq E /\ j \notin Ahead(j)
  OBVIOUS
<1>4. \A i, j \in E : <<i, j>> \in order => i \in Ahead(j) /\ Ahead(i) \subseteq Ahead(j)
  OBVIOUS
<1>5. DOMAIN rank = E /\ rank = [j \in E |-> rank[j]]
  BY DEF RankIn
<1> HIDE DEF Ahead, rank, m
<1>6. \A j \in E : IsFiniteSet(Ahead(j)) /\ Cardinality(Ahead(j)) \in Nat
  BY <1>3, FS_Subset, FS_CardinalityType
<1>7. \A i, j \in E : <<i, j>> \in order => rank[i] < rank[j]
  <2> TAKE i, j \in E
  <2> HAVE <<i, j>> \in order
  <2>1. Ahead(i) \in SUBSET Ahead(j) /\ Ahead(i) # Ahead(j)
    BY <1>3, <1>4
  <2>2. Cardinality(Ahead(i)) <= Cardinality(Ahead(j)) /\ Cardinality(Ahead(i)) # Cardinality(Ahead(j))
    BY <1>6, <2>1, FS_Subset
  <2> QED
    BY <1>2, <1>6, <2>2
<1>8. \A j \in E : rank[j] \in 0 .. m - 1
  <2> TAKE j \in E
  <2>1. Ahead(j) \in SUBSET E /\ Ahead(j) # E
    BY <1>3
  <2>2. Cardinality(Ahead(j)) <= m /\ Cardinality(Ahead(j)) # m
    BY <2>1, FS_Subset DEF m
  <2> QED
    BY <1>1, <1>2, <1>6, <2>2
<1>9. \A i, j \in E : rank[i] = rank[j] => i = j
  <2> SUFFICES ASSUME NEW i \in E, NEW j \in E, rank[i] = rank[j], i # j PROVE FALSE
    OBVIOUS
  <2>1. rank[i] \in Nat
    BY <1>2, <1>6
  <2>2. <<i, j>> \in order \/ <<j, i>> \in order
    OBVIOUS
  <2>3. rank[i] < rank[j] \/ rank[j] < rank[i]
    BY <1>7, <2>2
  <2> QED
    BY <2>1, <2>3
<1>10. rank \in Injection(E, 0 .. m - 1)
  BY <1>5, <1>8, <1>9 DEF Injection, IsInjective
<1>11. IsFiniteSet(0 .. m - 1) /\ Cardinality(0 .. m - 1) = m
  BY <1>1, FS_Interval
<1>12. rank \in Surjection(E, 0 .. m - 1)
  BY <1>10, <1>11, FS_Injection DEF m
<1>13. \A j \in E : rank[j] \in Nat
  BY <1>2, <1>6
<1> QED
  BY <1>7, <1>10, <1>12, <1>13 DEF Bijection, rank, m

LEMMA ScoreTyped ==
  ASSUME NEW r \in Records
  PROVE  Score(r) \in Nat
<1> DEFINE l == Likeness[r]
<1>1. l.keywords \in Nat
  BY RecordAssumption
<1> HIDE DEF l
<1>2. \A holds, n : Points(holds, n) \in {n, 0}
  BY DEF Points
<1> QED
  BY <1>1, <1>2 DEF Score, Points, KeywordPoints, l

\* The positions of what scores enough, and the order that they are landed in.
EnoughIn(seq) == {i \in 1 .. Len(seq) : Score(seq[i]) >= MinScore}
OrderIn(seq) ==
  {pair \in EnoughIn(seq) \X EnoughIn(seq) :
     \/ Score(seq[pair[1]]) > Score(seq[pair[2]])
     \/ Score(seq[pair[1]]) = Score(seq[pair[2]]) /\ pair[1] < pair[2]}
Position(seq) == RankIn(EnoughIn(seq), OrderIn(seq))
FirstK(seq) == {j \in EnoughIn(seq) : Position(seq)[j] < K}

LEMMA Positions ==
  ASSUME NEW seq \in Seq(Records)
  PROVE  /\ IsFiniteSet(EnoughIn(seq))
         /\ Position(seq) \in Bijection(EnoughIn(seq), 0 .. Cardinality(EnoughIn(seq)) - 1)
         /\ \A j \in EnoughIn(seq) : Position(seq)[j] \in Nat
         /\ \A i, j \in EnoughIn(seq) :
              Score(seq[i]) > Score(seq[j]) => Position(seq)[i] < Position(seq)[j]
         /\ Similar(seq) = {seq[i] : i \in FirstK(seq)}
<1> DEFINE E == EnoughIn(seq)
           order == OrderIn(seq)
<1>1. Len(seq) \in Nat /\ \A i \in 1 .. Len(seq) : seq[i] \in Records
  BY LenProperties, ElementOfSeq
<1>2. E \in SUBSET (1 .. Len(seq))
  BY DEF EnoughIn
<1>3. IsFiniteSet(E)
  <2>1. IsFiniteSet(1 .. Len(seq))
    BY <1>1, FS_Interval
  <2> HIDE DEF E
  <2> QED
    BY <1>2, <2>1, FS_Subset
<1>4. \A i \in E : Score(seq[i]) \in Nat /\ i \in Nat
  BY <1>1, <1>2, ScoreTyped
<1>5. \A i, j \in E : <<i, j>> \in order <=>
        \/ Score(seq[i]) > Score(seq[j])
        \/ Score(seq[i]) = Score(seq[j]) /\ i < j
  BY DEF OrderIn
<1> DEFINE sc == [i \in E |-> Score(seq[i])]
<1>6. \A i \in E : sc[i] = Score(seq[i]) /\ sc[i] \in Nat
  BY <1>4
<1>7. \A i, j \in E : <<i, j>> \in order <=> sc[i] > sc[j] \/ (sc[i] = sc[j] /\ i < j)
  BY <1>5, <1>6
<1> HIDE DEF E, order, sc
<1>8. \A i \in E : <<i, i>> \notin order
  BY <1>4, <1>6, <1>7
<1>9. \A i, j, k \in E : <<i, j>> \in order /\ <<j, k>> \in order => <<i, k>> \in order
  BY <1>4, <1>6, <1>7
<1>10. \A i, j \in E : i # j => <<i, j>> \in order \/ <<j, i>> \in order
  BY <1>4, <1>6, <1>7
<1>11. /\ RankIn(E, order) \in Bijection(E, 0 .. Cardinality(E) - 1)
       /\ \A j \in E : RankIn(E, order)[j] \in Nat
       /\ \A i, j \in E : <<i, j>> \in order => RankIn(E, order)[i] < RankIn(E, order)[j]
  BY <1>3, <1>8, <1>9, <1>10, Ranking
<1>12. \A i, j \in E : Score(seq[i]) > Score(seq[j]) => RankIn(E, order)[i] < RankIn(E, order)[j]
  BY <1>5, <1>11
<1>13. \A j \in E : RankIn(E, order)[j] =
         Cardinality({h \in E : \/ Score(seq[h]) > Score(seq[j])
                                \/ Score(seq[h]) = Score(seq[j]) /\ h < j})
  <2> TAKE j \in E
  <2>1. {h \in E : <<h, j>> \in order} =
        {h \in E : \/ Score(seq[h]) > Score(seq[j])
                   \/ Score(seq[h]) = Score(seq[j]) /\ h < j}
    BY <1>5
  <2> QED
    BY <2>1 DEF RankIn
<1>14. Similar(seq) = {seq[i] : i \in {j \in E :
         Cardinality({h \in E : \/ Score(seq[h]) > Score(seq[j])
                                \/ Score(seq[h]) = Score(seq[j]) /\ h < j}) < K}}
  BY DEF Similar, EnoughIn, E
<1>15. Similar(seq) = {seq[i] : i \in {j \in E : RankIn(E, order)[j] < K}}
  <2>1. {j \in E : RankIn(E, order)[j] < K} = {j \in E :
         Cardinality({h \in E : \/ Score(seq[h]) > Score(seq[j])
                                \/ Score(seq[h]) = Score(seq[j]) /\ h < j}) < K}
    BY <1>13
  <2> QED
    BY <1>14, <2>1
<1> QED
  BY <1>3, <1>11, <1>12, <1>15 DEF Position, FirstK, E, order

\* No more are landed than the limit.
LEMMA SimilarIsFew ==
  ASSUME NEW seq \in Seq(Records)
  PROVE  Cardinality(Similar(seq)) <= K
<1> DEFINE E == EnoughIn(seq)
           pos == Position(seq)
           Low == FirstK(seq)
           place == [j \in Low |-> pos[j]]
           read == [j \in Low |-> seq[j]]
<1>1. IsFiniteSet(E) /\ pos \in Injection(E, 0 .. Cardinality(E) - 1)
      /\ (\A j \in E : pos[j] \in Nat) /\ Similar(seq) = {seq[i] : i \in Low}
  BY Positions DEF Bijection
<1>2. Low \subseteq E /\ \A j \in Low : pos[j] < K
  BY DEF FirstK
<1> HIDE DEF E, pos, Low
<1>3. K \in Nat
  BY RecordAssumption
<1>4. place \in [Low -> 0 .. K - 1]
  BY <1>1, <1>2, <1>3
<1>5. \A a, b \in Low : place[a] = place[b] => a = b
  BY <1>1, <1>2 DEF Injection, IsInjective
<1>6. read \in Surjection(Low, Similar(seq))
  <2>1. read \in [Low -> Similar(seq)] /\ \A t \in Similar(seq) : \E s \in Low : read[s] = t
    BY <1>1
  <2> QED
    BY <2>1 DEF Surjection
<1> HIDE DEF place, read
<1>7. place \in Injection(Low, 0 .. K - 1)
  BY <1>4, <1>5 DEF Injection, IsInjective
<1>8. IsFiniteSet(0 .. K - 1) /\ Cardinality(0 .. K - 1) = K
  BY <1>3, FS_Interval
<1>9. IsFiniteSet(Low) /\ Cardinality(Low) <= K
  BY <1>7, <1>8, FS_Injection
<1>10. IsFiniteSet(Similar(seq)) /\ Cardinality(Similar(seq)) <= Cardinality(Low)
  BY <1>6, <1>9, FS_Surjection
<1>11. Cardinality(Low) \in Nat /\ Cardinality(Similar(seq)) \in Nat
  BY <1>9, <1>10, FS_CardinalityType
<1> QED
  BY <1>3, <1>9, <1>10, <1>11

\* What is passed over although it scores enough gives way to as many as the
\* limit, each of them as similar or more.
LEMMA SimilarIsBest ==
  ASSUME NEW seq \in Seq(Records), IsInjective(seq),
         NEW r \in ToSet(seq) \ Similar(seq), Score(r) >= MinScore
  PROVE  /\ Cardinality(Similar(seq)) = K
         /\ \A o \in Similar(seq) : Score(o) >= Score(r)
<1> DEFINE E == EnoughIn(seq)
           m == Cardinality(E)
           pos == Position(seq)
           Low == FirstK(seq)
           place == [j \in Low |-> pos[j]]
           read == [j \in Low |-> seq[j]]
<1>1. IsFiniteSet(E) /\ pos \in Injection(E, 0 .. m - 1) /\ pos \in Surjection(E, 0 .. m - 1)
      /\ (\A j \in E : pos[j] \in Nat) /\ Similar(seq) = {seq[i] : i \in Low}
      /\ \A i, j \in E : Score(seq[i]) > Score(seq[j]) => pos[i] < pos[j]
  BY Positions DEF Bijection
<1>2. Low = {j \in E : pos[j] < K}
  BY DEF FirstK
<1>3. Len(seq) \in Nat /\ DOMAIN seq = 1 .. Len(seq) /\ \A i \in 1 .. Len(seq) : seq[i] \in Records
  BY LenProperties, ElementOfSeq
<1>4. E = {i \in 1 .. Len(seq) : Score(seq[i]) >= MinScore}
  BY DEF EnoughIn
<1> HIDE DEF E, pos, Low
<1>5. PICK j \in E : r = seq[j]
  BY <1>3, <1>4 DEF ToSet
<1>6. j \notin Low
  BY <1>1, <1>5
<1>7. K \in Nat \ {0} /\ m \in Nat
  BY <1>1, RecordAssumption, FS_CardinalityType
<1>8. pos[j] >= K /\ pos[j] \in 0 .. m - 1
  BY <1>1, <1>2, <1>5, <1>6, <1>7 DEF Injection
<1> HIDE DEF m
<1>9. \A o \in Similar(seq) : Score(o) >= Score(r)
  <2> TAKE o \in Similar(seq)
  <2>1. PICK i \in Low : o = seq[i]
    BY <1>1
  <2>2. i \in E /\ pos[i] < K /\ pos[i] \in Nat
    BY <1>1, <1>2, <2>1
  <2>3. ~(Score(r) > Score(o))
    BY <1>1, <1>5, <1>7, <1>8, <2>1, <2>2
  <2>4. Score(r) \in Nat /\ Score(o) \in Nat
    BY <1>3, <1>4, <1>5, <2>1, <2>2, ScoreTyped
  <2> QED
    BY <2>3, <2>4
<1>10. Low \subseteq E
  BY <1>2
<1>11. place \in [Low -> 0 .. K - 1]
  BY <1>1, <1>2, <1>7
<1>12. \A a, b \in Low : place[a] = place[b] => a = b
  BY <1>1, <1>10 DEF Injection, IsInjective
<1>13. \A t \in 0 .. K - 1 : \E a \in Low : place[a] = t
  <2> TAKE t \in 0 .. K - 1
  <2>1. t \in 0 .. m - 1 /\ t < K
    BY <1>7, <1>8
  <2>2. PICK a \in E : pos[a] = t
    BY <1>1, <2>1 DEF Surjection
  <2> QED
    BY <1>2, <2>1, <2>2
<1>14. read \in [Low -> Similar(seq)] /\ \A t \in Similar(seq) : \E s \in Low : read[s] = t
  BY <1>1
<1>15. \A a, b \in Low : read[a] = read[b] => a = b
  BY <1>3, <1>4, <1>10 DEF IsInjective
<1> HIDE DEF place, read
<1>16. place \in Injection(Low, 0 .. K - 1) /\ place \in Surjection(Low, 0 .. K - 1)
  BY <1>11, <1>12, <1>13 DEF Injection, IsInjective, Surjection
<1>17. read \in Injection(Low, Similar(seq)) /\ read \in Surjection(Low, Similar(seq))
  BY <1>14, <1>15 DEF Injection, IsInjective, Surjection
<1>18. IsFiniteSet(0 .. K - 1) /\ Cardinality(0 .. K - 1) = K
  BY <1>7, FS_Interval
<1>19. IsFiniteSet(Low) /\ Cardinality(Low) = K
  BY <1>16, <1>18, FS_Injection
<1>20. Cardinality(Similar(seq)) = Cardinality(Low)
  BY <1>17, <1>19, FS_Surjection
<1> QED
  BY <1>9, <1>19, <1>20

LEMMA FewStep ==
  ASSUME Ranges, \A p \in Recallers : Cardinality(recalled[p]) <= K, [Next]_vars
  PROVE  \A p \in Recallers : Cardinality(recalled'[p]) <= K
<1>1. ASSUME NEW q \in Processes, Leave(q), NEW p \in Recallers PROVE Cardinality(recalled'[p]) <= K
  <2>1. found[p] \in Seq(Records) /\ recalled \in [Recallers -> SUBSET Records]
    BY DEF Ranges
  <2>2. Cardinality(Similar(found[p])) <= K
    BY <2>1, SimilarIsFew
  <2>3. recalled'[p] = recalled[p] \/ recalled'[p] = Similar(found[p])
    BY <1>1, <2>1 DEF Leave
  <2> QED
    BY <2>2, <2>3
<1>2. recalled' = recalled \/ \E q \in Processes : Leave(q)
  BY DEF Next, vars, history, Glob, Stat, Create, Write, Prune, Stop, Read, Clear
<1> QED
  BY <1>1, <1>2

\* Every variable stays in its range, and no recall lands more than its limit.
THEOREM TypeCorrect == Spec => []TypeOK
<1> DEFINE Landed == \A p \in Recallers : Cardinality(recalled[p]) <= K
<1>1. Init => Ranges /\ Landed
  <2>1. Cardinality({}) = 0 /\ 0 <= K
    BY FS_EmptySet, RecordAssumption
  <2> QED
    BY <2>1, InitRanges DEF Init
<1>2. Ranges /\ Landed /\ [Next]_vars => Ranges' /\ Landed'
  BY RangesStep, FewStep
<1>3. Ranges /\ Landed => TypeOK
  BY DEF Ranges, TypeOK
<1> QED
  BY <1>1, <1>2, <1>3, PTL DEF Spec


------------------------------------------------------------------------------
(* What a recall could read, it reads. *)

\* Of what a recaller could read when it listed, whatever can still be read is
\* read already or yet to come, and nothing is read twice.
Recalling ==
  \A p \in Recallers :
    /\ \A r \in wholeAt[p] : created[r] # 0 /\ store[r] # "torn"
    /\ pc[p] \in {"glob", "stat"} => found[p] = <<>>
    /\ pc[p] = "stat" => wholeAt[p] \subseteq ToSet(queue[p])
    /\ pc[p] = "visit" =>
         /\ wholeAt[p] \cap Whole \subseteq ToSet(found[p]) \cup ToSet(queue[p])
         /\ IsInjective(found[p]) /\ IsInjective(queue[p])
         /\ ToSet(found[p]) \cap ToSet(queue[p]) = {}

LEMMA RecallerSteps ==
  ASSUME Ranges, [Next]_vars, NEW p \in Recallers
  PROVE  /\ p \in Processes
         /\ Idle(p) \/ Glob(p) \/ Stat(p) \/ Leave(p) \/ Read(p)
         /\ ~Glob(p) => wholeAt'[p] = wholeAt[p]
         /\ ~Leave(p) /\ ~Read(p) => found'[p] = found[p]
<1>1. p \in Processes /\ p \notin Savers /\ p \notin Clearers
  BY RecordAssumption DEF Processes
<1>2. wholeAt \in [Recallers -> SUBSET Records] /\ found \in [Recallers -> Seq(Records)]
  BY DEF Ranges
<1>3. ASSUME NEW q \in Processes, Glob(q), q # p PROVE wholeAt'[p] = wholeAt[p]
  BY <1>2, <1>3 DEF Glob
<1>4. ~Glob(p) => wholeAt'[p] = wholeAt[p]
  BY <1>3 DEF Next, vars, history, Stat, Leave, Create, Write, Prune, Stop, Read, Clear
<1>5. ASSUME NEW q \in Processes, Leave(q), q # p PROVE found'[p] = found[p]
  BY <1>2, <1>5 DEF Leave
<1>6. ASSUME NEW q \in Recallers, Read(q), q # p PROVE found'[p] = found[p]
  BY <1>2, <1>6 DEF Read
<1>7. ~Leave(p) /\ ~Read(p) => found'[p] = found[p]
  BY <1>5, <1>6 DEF Next, vars, history, Glob, Stat, Create, Write, Prune, Stop, Clear
<1> QED
  BY <1>1, <1>4, <1>7, ProcessSteps

LEMMA RecallingInit == Init => Recalling
<1> SUFFICES ASSUME Init, NEW p \in Recallers
             PROVE  wholeAt[p] = {} /\ found[p] = <<>> /\ pc[p] = "glob"
  BY DEF Recalling
<1> QED
  BY RecordAssumption DEF Init, Processes

LEMMA RecallingStep ==
  ASSUME Ranges, Stamps, Begun, Recalling, [Next]_vars
  PROVE  Recalling'
<1>0. Evolves
  BY StampsStep
<1> SUFFICES ASSUME NEW p \in Recallers
             PROVE  /\ \A r \in wholeAt'[p] : created'[r] # 0 /\ store'[r] # "torn"
                    /\ pc'[p] \in {"glob", "stat"} => found'[p] = <<>>
                    /\ pc'[p] = "stat" => wholeAt'[p] \subseteq ToSet(queue'[p])
                    /\ pc'[p] = "visit" =>
                         /\ wholeAt'[p] \cap Whole' \subseteq ToSet(found'[p]) \cup ToSet(queue'[p])
                         /\ IsInjective(found'[p]) /\ IsInjective(queue'[p])
                         /\ ToSet(found'[p]) \cap ToSet(queue'[p]) = {}
  BY DEF Recalling
<1>1. /\ p \in Processes /\ queue[p] \in Seq(Records) /\ found[p] \in Seq(Records)
      /\ wholeAt[p] \subseteq Records /\ ToSet(queue[p]) \in SUBSET Records
  BY RecallerSteps, ElementsIn DEF Ranges
<1>2. \A r \in wholeAt[p] \cup Whole : r \in Records /\ created[r] # 0 /\ store[r] # "torn"
  BY <1>1 DEF Recalling, Whole, Stamps
<1>3. \A r \in wholeAt[p] \cup Whole : /\ created'[r] # 0 /\ store'[r] # "torn"
                                       /\ r \in Whole' => r \in Whole
  <2> TAKE r \in wholeAt[p] \cup Whole
  <2>1. r \in Records /\ created[r] # 0 /\ store[r] # "torn" /\ store[r] \in {"absent", "torn", "whole"}
    BY <1>2 DEF Ranges
  <2>2. created'[r] # 0 /\ store'[r] # "torn" /\ (store[r] = "absent" => store'[r] = "absent")
    BY <1>0, <2>1 DEF Evolves
  <2> QED
    BY <2>1, <2>2 DEF Whole
<1>4. CASE Glob(p)
  <2>1. wholeAt'[p] = Whole /\ found'[p] = found[p] /\ pc[p] = "glob" /\ pc'[p] = "stat"
        /\ ToSet(queue'[p]) = Present
    BY <1>1, <1>4, Placing, ListedInOrder DEF Glob, Ranges
  <2> QED
    BY <1>3, <2>1, PresentInRecords DEF Recalling
<1>5. CASE ~Glob(p)
  <2>0. wholeAt'[p] = wholeAt[p]
    BY <1>5, RecallerSteps
  <2>1. \A r \in wholeAt'[p] : created'[r] # 0 /\ store'[r] # "torn"
    BY <1>3, <2>0
  <2>2. CASE Idle(p) /\ ~Leave(p) /\ ~Read(p)
    <3>1. found'[p] = found[p] /\ pc'[p] = pc[p] /\ queue'[p] = queue[p]
      BY <2>2, RecallerSteps DEF Idle
    <3> QED
      BY <1>3, <2>0, <2>1, <3>1 DEF Recalling
  <2>3. CASE Stat(p)
    <3>1. pc[p] = "stat" /\ pc'[p] = "visit" /\ found'[p] = found[p]
      BY <1>1, <2>3, Placing DEF Stat
    <3>2. PICK files \in OldestFirst(ToSet(queue[p])) : queue'[p] = Visited(p, files)
      BY <1>1, <2>3, Placing
    <3>3. files \in Seq(Records) /\ IsInjective(files) /\ ToSet(files) = ToSet(queue[p])
      BY <1>1, ByAge
    <3>4. IsInjective(queue'[p]) /\ ToSet(queue'[p]) = ToSet(queue[p])
      BY <1>1, <3>2, <3>3, VisitedTyped
    <3>5. found'[p] = <<>> /\ wholeAt[p] \subseteq ToSet(queue[p])
      BY <3>1 DEF Recalling
    <3>6. ToSet(<<>>) = {} /\ IsInjective(<<>>)
      BY DEF ToSet, IsInjective
    <3> QED
      BY <2>0, <2>1, <3>1, <3>4, <3>5, <3>6
  <2>4. CASE Leave(p)
    BY <1>1, <2>1, <2>4, Placing
  <2>5. CASE Read(p)
    <3>1. pc[p] = "visit" /\ pc'[p] = "visit" /\ queue[p] # <<>> /\ queue'[p] = Tail(queue[p])
      BY <1>1, <2>5, Proceeding DEF Proceeds
    <3>2. /\ Head(queue[p]) \in Records
          /\ ToSet(queue[p]) = {Head(queue[p])} \cup ToSet(queue'[p])
          /\ Head(queue[p]) \in ToSet(queue[p])
          /\ IsInjective(queue'[p]) /\ Head(queue[p]) \notin ToSet(queue'[p])
      BY <1>1, <3>1, HeadAndTail DEF Recalling
    <3>3. /\ wholeAt[p] \cap Whole \subseteq ToSet(found[p]) \cup ToSet(queue[p])
          /\ IsInjective(found[p]) /\ ToSet(found[p]) \cap ToSet(queue[p]) = {}
      BY <3>1 DEF Recalling
    <3>4. CASE store[Head(queue[p])] = "whole"
      <4>1. found'[p] = Append(found[p], Head(queue[p]))
        BY <2>5, <3>4 DEF Read, InTurn, Ranges
      <4>2. ToSet(found'[p]) = ToSet(found[p]) \cup {Head(queue[p])} /\ IsInjective(found'[p])
        BY <1>1, <3>2, <3>3, <4>1, WithOneMore
      <4> QED
        BY <1>3, <2>0, <2>1, <3>1, <3>2, <3>3, <4>2
    <3>5. CASE store[Head(queue[p])] # "whole"
      <4>1. found'[p] = found[p]
        BY <2>5, <3>5 DEF Read, InTurn
      <4>2. Head(queue[p]) \notin Whole
        BY <3>5 DEF Whole
      <4> QED
        BY <1>3, <2>0, <2>1, <3>1, <3>2, <3>3, <4>1, <4>2
    <3> QED
      BY <3>4, <3>5
  <2> QED
    BY <1>5, <2>2, <2>3, <2>4, <2>5, RecallerSteps
<1> QED
  BY <1>4, <1>5

LEMMA RecallsStep ==
  ASSUME Ranges, Recalling, [Next]_vars
  PROVE  [\A p \in Recallers : Recalls(p) =>
            \A r \in (wholeAt[p] \cap Whole) \ recalled'[p] :
              Score(r) >= MinScore =>
                /\ Cardinality(recalled'[p]) = K
                /\ \A o \in recalled'[p] : Score(o) >= Score(r)]_vars
<1> SUFFICES ASSUME NEW p \in Recallers, Recalls(p),
                    NEW r \in (wholeAt[p] \cap Whole) \ recalled'[p], Score(r) >= MinScore
             PROVE  /\ Cardinality(recalled'[p]) = K
                    /\ \A o \in recalled'[p] : Score(o) >= Score(r)
  OBVIOUS
<1>1. Leave(p)
  BY RecallerSteps, Placing, Proceeding DEF Recalls, Idle, Proceeds
<1>2. queue[p] = <<>> /\ recalled'[p] = Similar(found[p]) /\ found[p] \in Seq(Records) /\ pc[p] = "visit"
  BY <1>1 DEF Leave, Ranges
<1>3. ToSet(<<>>) = {}
  BY DEF ToSet
<1>4. r \in ToSet(found[p]) /\ IsInjective(found[p])
  BY <1>2, <1>3 DEF Recalling
<1> QED
  BY <1>2, <1>4, SimilarIsBest

\* Whatever could be read all the time that a recall took is landed, unless as
\* many as the limit are at least as similar.
THEOREM RecallIsComplete == Spec => RecallMissesNothing
<1>1. Init => Recalling /\ Ranges /\ Stamps /\ Begun
  BY RecallingInit, InitRanges, StampsInit
<1>2. Recalling /\ Ranges /\ Stamps /\ Begun /\ [Next]_vars => (Recalling /\ Ranges /\ Stamps /\ Begun)'
  BY RecallingStep, RangesStep, StampsStep, BegunStep
<1>3. Ranges /\ Recalling /\ [Next]_vars =>
        [\A p \in Recallers : Recalls(p) =>
            \A r \in (wholeAt[p] \cap Whole) \ recalled'[p] :
              Score(r) >= MinScore =>
                /\ Cardinality(recalled'[p]) = K
                /\ \A o \in recalled'[p] : Score(o) >= Score(r)]_vars
  BY RecallsStep
<1> QED
  BY <1>1, <1>2, <1>3, PTL DEF Spec, RecallMissesNothing


------------------------------------------------------------------------------
(* The cap. *)

Listing == {"stat", "visit", "done"}

\* With L[s] the records that save s listed: a save has all but max_records of
\* them removed, or queued to be; its own record is among them and so are the
\* old ones; and of two saves one has listed all that the other did, and itself.
Caps(L) ==
  \A s \in Savers :
    /\ pc[s] = "stat" => ToSet(queue[s]) = L[s]
    /\ pc[s] = "visit" => Cardinality((Present \cap L[s]) \ ToSet(queue[s])) <= MaxRecords
    /\ pc[s] = "done" => Cardinality(Present \cap L[s]) <= MaxRecords
    /\ pc[s] \in Listing =>
         /\ \A r \in L[s] : created[r] # 0
         /\ s \in Present => s \in L[s]
         /\ Present \cap ToSet(Old) \subseteq L[s]
         /\ \A t \in Savers : pc[t] \in Listing /\ t \in Present \ L[s] => Present \cap L[s] \subseteq L[t]

Capped == \E L \in [Savers -> SUBSET Records] : Caps(L)

\* Only its own creation brings a file about.
LEMMA Appears ==
  ASSUME Ranges, [Next]_vars, NEW r \in Records, store'[r] # "absent"
  PROVE  store[r] # "absent" \/ (r \in Savers /\ Create(r))
<1>1. ASSUME NEW s \in Savers, Create(s), s # r PROVE store'[r] = store[r]
  BY <1>1 DEF Create, Ranges
<1>2. ASSUME NEW s \in Savers, Write(s), store[s] # "absent" PROVE store[r] # "absent"
  BY <1>2 DEF Write, Ranges
<1>3. Removes => store[r] # "absent"
  BY DEF Removes
<1> QED
  BY <1>1, <1>2, <1>3, StepsOnFiles

LEMMA SaverSteps ==
  ASSUME Ranges, [Next]_vars, NEW s \in Savers
  PROVE  /\ s \in Processes /\ s \in Records
         /\ Idle(s) \/ Glob(s) \/ Stat(s) \/ Leave(s) \/ Create(s) \/ Write(s) \/ Prune(s) \/ Stop(s)
<1>1. s \in Processes /\ s \notin Recallers /\ s \notin Clearers /\ s \in Records
  BY RecordAssumption DEF Processes, Records
<1> QED
  BY <1>1, ProcessSteps

\* A save that has read the ages leaves max_records of what it listed.
LEMMA StatLeaves ==
  ASSUME Ranges, NEW s \in Savers, Stat(s)
  PROVE  Cardinality(ToSet(queue[s]) \ ToSet(queue'[s])) <= MaxRecords
<1>0. s \in Processes /\ ToSet(queue[s]) \in SUBSET Records
  BY ElementsIn DEF Processes, Ranges
<1>1. PICK files \in OldestFirst(ToSet(queue[s])) : queue'[s] = Visited(s, files)
  BY <1>0, Placing
<1> DEFINE n == Len(files)
           x == Excess(n)
           Left == ToSet(queue[s]) \ ToSet(queue'[s])
           kept == [i \in {j \in 1 .. n : files[j] \in Left} |-> files[i]]
<1>2. files \in Seq(Records) /\ IsInjective(files) /\ n \in Nat /\ DOMAIN files = 1 .. n
      /\ ToSet(files) = ToSet(queue[s])
  BY <1>0, ByAge
<1>3. ToSet(queue'[s]) = {files[i] : i \in 1 .. x}
  BY <1>0, <1>1, <1>2, VisitedTyped
<1>4. x \in 0 .. n /\ n - x <= MaxRecords
  BY <1>2, ExcessInRange
<1>5. MaxRecords \in Nat
  BY RecordAssumption
<1> DEFINE Kept == {j \in 1 .. n : files[j] \in Left}
<1>6. kept \in Surjection(Kept, Left)
  <2>1. \A r \in Left : \E i \in 1 .. n : r = files[i]
    BY <1>2 DEF ToSet
  <2> QED
    BY <2>1 DEF Surjection
<1> HIDE DEF n, x
<1>7. Kept \in SUBSET (x + 1 .. n)
  <2> SUFFICES ASSUME NEW j \in Kept PROVE j \in x + 1 .. n
    OBVIOUS
  <2>1. j \notin 1 .. x
    BY <1>3
  <2> QED
    BY <1>2, <1>4, <2>1
<1> HIDE DEF Left, Kept, kept
<1>8. IsFiniteSet(x + 1 .. n) /\ Cardinality(x + 1 .. n) <= MaxRecords
  <2>1. x + 1 \in Int /\ n \in Int
    BY <1>2, <1>4
  <2>2. IsFiniteSet(x + 1 .. n) /\ Cardinality(x + 1 .. n) = IF x + 1 > n THEN 0 ELSE n - (x + 1) + 1
    BY <2>1, FS_Interval
  <2> QED
    BY <1>2, <1>4, <1>5, <2>2
<1>9. IsFiniteSet(Kept) /\ Cardinality(Kept) <= Cardinality(x + 1 .. n)
  BY <1>7, <1>8, FS_Subset
<1>10. IsFiniteSet(Left) /\ Cardinality(Left) <= Cardinality(Kept)
  BY <1>6, <1>9, FS_Surjection
<1>11. Cardinality(x + 1 .. n) \in Nat /\ Cardinality(Kept) \in Nat /\ Cardinality(Left) \in Nat
  BY <1>8, <1>9, <1>10, FS_CardinalityType
<1>12. Cardinality(Left) <= MaxRecords
  BY <1>5, <1>8, <1>9, <1>10, <1>11
<1> QED
  BY <1>12 DEF Left

\* When no save lists, what was listed stays as good.
LEMMA CapsStay ==
  ASSUME Ranges, Stamps, Begun, [Next]_vars, \A s \in Savers : ~Glob(s),
         NEW L \in [Savers -> SUBSET Records], Caps(L)
  PROVE  Caps(L)'
<1>0. Evolves
  BY StampsStep
<1>1. ASSUME NEW s \in Savers, pc'[s] \in Listing PROVE pc[s] \in Listing /\ ~Create(s)
  <2>1. s \in Processes
    BY SaverSteps
  <2>2. ~Create(s) /\ ~Write(s) /\ ~Stop(s)
    BY <1>1, <2>1, Placing DEF Listing
  <2> QED
    BY <1>1, <2>1, <2>2, SaverSteps, Placing, Proceeding DEF Listing, Idle, Proceeds
<1>2. ASSUME NEW s \in Savers, pc[s] \in Listing
      PROVE  /\ L[s] \in SUBSET Records /\ Present' \cap L[s] \subseteq Present \cap L[s]
             /\ \A r \in L[s] : created[r] # 0 /\ created'[r] # 0
  <2>1. L[s] \in SUBSET Records /\ \A r \in L[s] : created[r] # 0
    BY <1>2 DEF Caps
  <2>2. \A r \in L[s] : created'[r] # 0 /\ (store[r] = "absent" => store'[r] = "absent")
    BY <1>0, <2>1 DEF Evolves
  <2> QED
    BY <2>1, <2>2 DEF Present
<1> SUFFICES ASSUME NEW s \in Savers
             PROVE
               /\ pc'[s] = "stat" => ToSet(queue'[s]) = L[s]
               /\ pc'[s] = "visit" => Cardinality((Present' \cap L[s]) \ ToSet(queue'[s])) <= MaxRecords
               /\ pc'[s] = "done" => Cardinality(Present' \cap L[s]) <= MaxRecords
               /\ pc'[s] \in Listing =>
                    /\ \A r \in L[s] : created'[r] # 0
                    /\ s \in Present' => s \in L[s]
                    /\ Present' \cap ToSet(Old) \subseteq L[s]
                    /\ \A t \in Savers : pc'[t] \in Listing /\ t \in Present' \ L[s] =>
                         Present' \cap L[s] \subseteq L[t]
  BY DEF Caps
<1> SUFFICES ASSUME pc'[s] \in Listing
             PROVE
               /\ pc'[s] = "stat" => ToSet(queue'[s]) = L[s]
               /\ pc'[s] = "visit" => Cardinality((Present' \cap L[s]) \ ToSet(queue'[s])) <= MaxRecords
               /\ pc'[s] = "done" => Cardinality(Present' \cap L[s]) <= MaxRecords
               /\ \A r \in L[s] : created'[r] # 0
               /\ s \in Present' => s \in L[s]
               /\ Present' \cap ToSet(Old) \subseteq L[s]
               /\ \A t \in Savers : pc'[t] \in Listing /\ t \in Present' \ L[s] =>
                    Present' \cap L[s] \subseteq L[t]
  BY DEF Listing
<1>3. /\ pc[s] \in Listing /\ s \in Processes /\ L[s] \in SUBSET Records
      /\ Present' \cap L[s] \subseteq Present \cap L[s]
      /\ queue[s] \in Seq(Records) /\ MaxRecords \in Nat
  BY <1>1, <1>2, SaverSteps, RecordAssumption DEF Ranges
<1>4. Idle(s) \/ Stat(s) \/ Leave(s) \/ Prune(s)
  <2>1. ~Create(s) /\ ~Write(s) /\ ~Stop(s)
    BY <1>3, Placing DEF Listing
  <2> QED
    BY <2>1, SaverSteps
<1>5. ASSUME NEW A, NEW B \in SUBSET Records, A \subseteq B, Cardinality(B) <= MaxRecords
      PROVE  Cardinality(A) <= MaxRecords
  <2>1. Cardinality(A) \in Nat /\ Cardinality(B) \in Nat /\ Cardinality(A) <= Cardinality(B)
    BY <1>5, Few
  <2> QED
    BY <1>3, <1>5, <2>1
<1>6. pc'[s] = "stat" => ToSet(queue'[s]) = L[s]
  BY <1>3, <1>4, Placing, Proceeding DEF Caps, Idle, Proceeds
<1>7. ASSUME pc'[s] = "visit"
      PROVE  Cardinality((Present' \cap L[s]) \ ToSet(queue'[s])) <= MaxRecords
  <2>1. CASE Stat(s)
    <3>1. ToSet(queue[s]) = L[s]
      BY <1>3, <2>1, Placing DEF Caps
    <3>2. Cardinality(L[s] \ ToSet(queue'[s])) <= MaxRecords
      BY <2>1, <3>1, StatLeaves
    <3>3. L[s] \ ToSet(queue'[s]) \in SUBSET Records
          /\ (Present' \cap L[s]) \ ToSet(queue'[s]) \subseteq L[s] \ ToSet(queue'[s])
      BY <1>3
    <3> QED
      BY <1>5, <3>2, <3>3
  <2>2. CASE Idle(s) \/ Prune(s)
    <3>1. pc[s] = "visit"
      BY <1>3, <1>7, <2>2, Proceeding DEF Idle, Proceeds
    <3>2. Cardinality((Present \cap L[s]) \ ToSet(queue[s])) <= MaxRecords
      BY <3>1 DEF Caps
    <3>3. CASE Idle(s)
      <4>1. (Present' \cap L[s]) \ ToSet(queue'[s]) \subseteq (Present \cap L[s]) \ ToSet(queue[s])
        BY <1>3, <3>3 DEF Idle
      <4>2. (Present \cap L[s]) \ ToSet(queue[s]) \in SUBSET Records
        BY <1>3
      <4> QED
        BY <1>5, <3>2, <4>1, <4>2
    <3>4. CASE Prune(s)
      <4>1. queue[s] # <<>> /\ queue'[s] = Tail(queue[s])
        BY <1>3, <3>4, Proceeding DEF Proceeds
      <4>2. ToSet(queue[s]) = {Head(queue[s])} \cup ToSet(queue'[s]) /\ Head(queue[s]) \in Records
        BY <1>3, <4>1, HeadAndTail, HeadTailProperties
      <4>3. Head(queue[s]) \notin Present'
        BY <3>4, <4>2 DEF Prune, InTurn, Ranges, Present
      <4>4. (Present' \cap L[s]) \ ToSet(queue'[s]) \subseteq (Present \cap L[s]) \ ToSet(queue[s])
        BY <1>3, <4>2, <4>3
      <4>5. (Present \cap L[s]) \ ToSet(queue[s]) \in SUBSET Records
        BY <1>3
      <4> QED
        BY <1>5, <3>2, <4>4, <4>5
    <3> QED
      BY <2>2, <3>3, <3>4
  <2> QED
    BY <1>3, <1>4, <1>7, <2>1, <2>2, Placing
<1>8. ASSUME pc'[s] = "done" PROVE Cardinality(Present' \cap L[s]) <= MaxRecords
  <2>1. Present \cap L[s] \in SUBSET Records
    BY <1>3
  <2>2. Cardinality(Present \cap L[s]) <= MaxRecords
    <3>1. CASE Idle(s)
      BY <1>8, <3>1 DEF Idle, Caps
    <3>2. CASE Leave(s)
      <4>1. pc[s] = "visit" /\ queue[s] = <<>>
        BY <1>3, <3>2, Placing
      <4>2. ToSet(<<>>) = {}
        BY DEF ToSet
      <4>3. (Present \cap L[s]) \ ToSet(queue[s]) = Present \cap L[s]
        BY <4>1, <4>2
      <4> QED
        BY <4>1, <4>3 DEF Caps
    <3> QED
      BY <1>3, <1>4, <1>8, <3>1, <3>2, Placing, Proceeding DEF Proceeds
  <2> QED
    BY <1>3, <1>5, <2>1, <2>2
<1>9. \A r \in L[s] : created'[r] # 0
  BY <1>2, <1>3
<1>10. s \in Present' => s \in L[s]
  <2>1. s \in Present' => s \in Present
    BY <1>1, Appears DEF Present
  <2> QED
    BY <1>3, <2>1 DEF Caps
<1>11. Present' \cap ToSet(Old) \subseteq L[s]
  <2>1. ASSUME NEW r \in Present' \cap ToSet(Old) PROVE r \in Present
    <3>1. r \in Records /\ r \notin Savers
      BY <2>1, RecordAssumption DEF Records
    <3> QED
      BY <2>1, <3>1, Appears DEF Present
  <2> QED
    BY <1>3, <2>1 DEF Caps
<1>12. ASSUME NEW t \in Savers, pc'[t] \in Listing, t \in Present' \ L[s]
       PROVE  Present' \cap L[s] \subseteq L[t]
  <2>1. pc[t] \in Listing /\ ~Create(t)
    BY <1>1, <1>12
  <2>2. t \in Present
    BY <1>12, <2>1, Appears DEF Present
  <2>3. Present \cap L[s] \subseteq L[t]
    BY <1>3, <1>12, <2>1, <2>2 DEF Caps
  <2> QED
    BY <1>3, <2>3
<1> QED
  BY <1>6, <1>7, <1>8, <1>9, <1>10, <1>11, <1>12

\* A save that lists has listed all there is.
LEMMA CapsGrow ==
  ASSUME Ranges, Stamps, NEW s \in Savers, Glob(s),
         NEW L \in [Savers -> SUBSET Records], NEW M \in [Savers -> SUBSET Records],
         M = [L EXCEPT ![s] = Present], Caps(L)
  PROVE  Caps(M)'
<1>1. s \in Processes /\ Savers \subseteq Processes
  BY DEF Processes
<1>2. UNCHANGED <<store, modified, created>> /\ Present' = Present
  BY DEF Glob, Present
<1>3. pc[s] = "glob" /\ pc'[s] = "stat" /\ ToSet(queue'[s]) = Present
  BY <1>1, Placing, ListedInOrder
<1>4. \A u \in Savers \ {s} : pc'[u] = pc[u] /\ queue'[u] = queue[u]
  BY <1>1 DEF Glob, Goes, Ranges
<1>5. M[s] = Present /\ \A u \in Savers \ {s} : M[u] = L[u]
  OBVIOUS
<1>6. \A r \in Present : created[r] # 0
  BY DEF Present, Stamps
<1> SUFFICES ASSUME NEW u \in Savers
             PROVE
               /\ pc'[u] = "stat" => ToSet(queue'[u]) = M[u]
               /\ pc'[u] = "visit" => Cardinality((Present \cap M[u]) \ ToSet(queue'[u])) <= MaxRecords
               /\ pc'[u] = "done" => Cardinality(Present \cap M[u]) <= MaxRecords
               /\ pc'[u] \in Listing =>
                    /\ \A r \in M[u] : created[r] # 0
                    /\ u \in Present => u \in M[u]
                    /\ Present \cap ToSet(Old) \subseteq M[u]
                    /\ \A t \in Savers : pc'[t] \in Listing /\ t \in Present \ M[u] =>
                         Present \cap M[u] \subseteq M[t]
  BY <1>2 DEF Caps
<1>7. CASE u = s
  BY <1>3, <1>5, <1>6, <1>7
<1>8. CASE u # s
  <2>1. pc'[u] = pc[u] /\ queue'[u] = queue[u] /\ M[u] = L[u]
    BY <1>4, <1>5, <1>8
  <2>2. ASSUME NEW t \in Savers, pc[u] \in Listing, pc'[t] \in Listing, t \in Present \ L[u]
        PROVE  Present \cap L[u] \subseteq M[t]
    <3>1. CASE t = s
      BY <1>5, <3>1
    <3>2. CASE t # s
      BY <1>4, <1>5, <2>2, <3>2 DEF Caps
    <3> QED
      BY <3>1, <3>2
  <2> QED
    BY <2>1, <2>2 DEF Caps
<1> QED
  BY <1>7, <1>8

LEMMA CappedStep ==
  ASSUME Ranges, Stamps, Begun, Capped, [Next]_vars
  PROVE  Capped'
<1>1. PICK L \in [Savers -> SUBSET Records] : Caps(L)
  BY DEF Capped
<1>2. CASE \A s \in Savers : ~Glob(s)
  <2>1. Caps(L)'
    BY <1>1, <1>2, CapsStay
  <2> QED
    BY <2>1 DEF Capped
<1>3. ASSUME NEW s \in Savers, Glob(s) PROVE Capped'
  <2>1. [L EXCEPT ![s] = Present] \in [Savers -> SUBSET Records]
    BY PresentInRecords
  <2>2. PICK M \in [Savers -> SUBSET Records] : M = [L EXCEPT ![s] = Present]
    BY <2>1
  <2>3. Caps(M)'
    BY <1>1, <1>3, <2>2, CapsGrow
  <2> QED
    BY <2>3 DEF Capped
<1> QED
  BY <1>2, <1>3

LEMMA CappedInit == Init => Capped
<1> SUFFICES ASSUME Init PROVE Capped
  OBVIOUS
<1>1. \A s \in Savers : pc[s] = "create"
  BY DEF Init, Processes
<1>2. [s \in Savers |-> {}] \in [Savers -> SUBSET Records]
  OBVIOUS
<1>3. Caps([s \in Savers |-> {}])
  BY <1>1 DEF Caps, Listing
<1> QED
  BY <1>2, <1>3 DEF Capped

\* Among values that are bounded there is a largest.
LEMMA Topmost ==
  ASSUME NEW D, D # {}, NEW bound \in Nat, NEW size \in [D -> 0 .. bound]
  PROVE  \E d \in D : \A e \in D : size[e] <= size[d]
<1> DEFINE Less == {pair \in Nat \X Nat : pair[1] < pair[2]}
           Room == {bound - size[d] : d \in D}
<1>1. IsWellFoundedOn(Less, Nat)
  BY NatLessThanWellFounded, SMT DEF OpToRel
<1>2. \A d \in D : bound - size[d] \in Nat /\ size[d] \in Nat
  OBVIOUS
<1>3. Room \in SUBSET Nat /\ Room # {}
  BY <1>2
<1>4. PICK m \in Room : \A e \in Room : <<e, m>> \notin Less
  <2> HIDE DEF Less, Room
  <2> QED
    BY <1>1, <1>3, WFMin
<1>5. PICK d \in D : m = bound - size[d]
  BY <1>4
<1>6. ASSUME NEW e \in D PROVE size[e] <= size[d]
  <2>1. bound - size[e] \in Room /\ bound - size[e] \in Nat /\ m \in Nat
    BY <1>2, <1>5
  <2>2. ~(bound - size[e] < m)
    BY <1>4, <2>1
  <2> QED
    BY <1>2, <1>5, <2>1, <2>2
<1> QED
  BY <1>6

\* Beyond the cap there is no more than what a save in progress or stopped
\* half-way has left: of the saves that are done, the one that listed the most
\* accounts for the rest.
LEMMA CappedSuffices == Ranges /\ Stamps /\ Capped => StoreIsCapped
<1> SUFFICES ASSUME Ranges, Stamps, Capped PROVE StoreIsCapped
  OBVIOUS
<1>1. PICK L \in [Savers -> SUBSET Records] : Caps(L)
  BY DEF Capped
<1> DEFINE Done == {s \in Savers : pc[s] = "done"}
<1>2. Unfinished \in SUBSET Records /\ Present \in SUBSET Records
  BY PresentInRecords DEF Unfinished, Records
<1>3. \A r \in Present : r \in ToSet(Old) \/ r \in Unfinished \/ r \in Done
  BY DEF Present, Records, Stamps, Unfinished
<1>4. \A s \in Done : /\ L[s] \in SUBSET Records /\ Cardinality(Present \cap L[s]) <= MaxRecords
                      /\ s \in Present => s \in L[s]
                      /\ Present \cap ToSet(Old) \subseteq L[s]
                      /\ \A t \in Done : t \in Present \ L[s] => Present \cap L[s] \subseteq L[t]
  BY <1>1 DEF Caps, Listing
<1>5. MaxRecords \in Nat
  BY RecordAssumption
<1> HIDE DEF Done
<1>6. ASSUME NEW R \in SUBSET Records, Cardinality(R) <= MaxRecords, Present \subseteq R \cup Unfinished
      PROVE  StoreIsCapped
  <2>1. IsFiniteSet(R) /\ IsFiniteSet(Unfinished) /\ R \cup Unfinished \in SUBSET Records
    BY <1>2, Few
  <2>2. Cardinality(R \cup Unfinished) =
          Cardinality(R) + Cardinality(Unfinished) - Cardinality(R \cap Unfinished)
    BY <2>1, FS_Union
  <2>3. R \cap Unfinished \in SUBSET Records
    OBVIOUS
  <2>4. Cardinality(R) \in Nat /\ Cardinality(Unfinished) \in Nat /\ Cardinality(R \cap Unfinished) \in Nat
    BY <1>2, <2>3, Few
  <2>5. Cardinality(Present) \in Nat /\ Cardinality(Present) <= Cardinality(R \cup Unfinished)
    BY <1>6, <2>1, Few
  <2>6. Cardinality(Present) <= MaxRecords + Cardinality(Unfinished)
    BY <1>5, <1>6, <2>2, <2>4, <2>5
  <2> QED
    BY <2>6 DEF StoreIsCapped
<1>7. CASE Done = {}
  <2>1. ToSet(Old) \in SUBSET Records /\ Cardinality(ToSet(Old)) <= MaxRecords
    BY RecordsFinite DEF Records
  <2>2. Present \subseteq ToSet(Old) \cup Unfinished
    BY <1>3, <1>7
  <2> QED
    BY <1>6, <2>1, <2>2
<1>8. CASE Done # {}
  <2> DEFINE size == [s \in Done |-> Cardinality(Present \cap L[s])]
  <2>1. \A s \in Done : Cardinality(Present \cap L[s]) \in 0 .. MaxRecords
    <3> TAKE s \in Done
    <3>1. Present \cap L[s] \in SUBSET Records /\ Cardinality(Present \cap L[s]) <= MaxRecords
      BY <1>2, <1>4
    <3>2. Cardinality(Present \cap L[s]) \in Nat
      BY <3>1, Few
    <3> QED
      BY <1>5, <3>1, <3>2
  <2>2. size \in [Done -> 0 .. MaxRecords]
    BY <2>1
  <2>3. \E d \in Done : \A e \in Done : size[e] <= size[d]
    <3> HIDE DEF size
    <3> QED
      BY <1>5, <1>8, <2>2, Topmost
  <2>4. PICK d \in Done : \A e \in Done : Cardinality(Present \cap L[e]) <= Cardinality(Present \cap L[d])
    BY <2>3
  <2>5. ASSUME NEW r \in Present, r \notin L[d], r \notin Unfinished PROVE FALSE
    <3>1. r \in Done
      BY <1>3, <1>4, <2>5
    <3>2. Present \cap L[d] \subseteq Present \cap L[r] /\ r \in Present \cap L[r]
      BY <1>4, <2>5, <3>1
    <3>3. Present \cap L[r] \in SUBSET Records
      BY <1>2, <1>4, <3>1
    <3>4. Present \cap L[d] \in SUBSET (Present \cap L[r]) /\ Present \cap L[d] # Present \cap L[r]
      BY <2>5, <3>2
    <3>5. /\ IsFiniteSet(Present \cap L[r])
          /\ Cardinality(Present \cap L[d]) \in Nat /\ Cardinality(Present \cap L[r]) \in Nat
          /\ Cardinality(Present \cap L[d]) <= Cardinality(Present \cap L[r])
      BY <3>3, <3>4, Few
    <3>6. Cardinality(Present \cap L[r]) # Cardinality(Present \cap L[d])
      BY <3>4, <3>5, FS_Subset
    <3> QED
      BY <2>4, <3>1, <3>5, <3>6
  <2>6. Present \subseteq (Present \cap L[d]) \cup Unfinished
    BY <2>5
  <2>7. Present \cap L[d] \in SUBSET Records /\ Cardinality(Present \cap L[d]) <= MaxRecords
    BY <1>2, <1>4
  <2> QED
    BY <1>6, <2>6, <2>7
<1> QED
  BY <1>7, <1>8

\* However many saves create, list and prune at a time, and wherever some are
\* stopped, the store exceeds its cap only by the saves that are not finished.
THEOREM CapIsKept == Spec => []StoreIsCapped
<1>1. Init => Ranges /\ Stamps /\ Begun /\ Capped
  BY InitRanges, StampsInit, CappedInit
<1>2. Ranges /\ Stamps /\ Begun /\ Capped /\ [Next]_vars => (Ranges /\ Stamps /\ Begun /\ Capped)'
  BY RangesStep, StampsStep, BegunStep, CappedStep
<1> QED
  BY <1>1, <1>2, CappedSuffices, PTL DEF Spec

=============================================================================
