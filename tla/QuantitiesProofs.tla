------------------------- MODULE QuantitiesProofs -------------------------
(***************************************************************************)
(* What a planner prints its own parser reads back: for every set of units *)
(* and every ceiling, a quantity within the ceiling survives the way       *)
(* through a saved reversal, and one beyond it does not come back at all.  *)
(***************************************************************************)
EXTENDS Quantities, WellFoundedInduction, TLAPS

\* A unit that divides a number of bytes is not larger, and the count is exact.
LEMMA UnitsDivide ==
  ASSUME NEW n \in Nat \ {0}, NEW u \in Nat \ {0}, Divides(u, n)
  PROVE  u <= n /\ (n \div u) \in Nat /\ (n \div u) * u = n
BY DEF Divides

\* A bounded set of numbers has a largest one: the one furthest from the bound
\* backwards, since the numbers are well founded.
LEMMA LargestNatural ==
  ASSUME NEW bound \in Nat, NEW S \in SUBSET (0 .. bound), S # {}
  PROVE  \E m \in S : \A k \in S : k <= m
<1> DEFINE Less  == {pair \in Nat \X Nat : pair[1] < pair[2]}
           Below == {d \in Nat : bound - d \in S}
<1>1. IsWellFoundedOn(Less, Nat)
  BY NatLessThanWellFounded, SMT DEF OpToRel
<1>2. Below \in SUBSET Nat /\ Below # {}
  <2>1. PICK k \in S : TRUE
    OBVIOUS
  <2>2. bound - k \in Nat /\ bound - (bound - k) = k
    OBVIOUS
  <2> QED
    BY <2>1, <2>2
<1>3. PICK d \in Below : \A e \in Below : <<e, d>> \notin Less
  <2> HIDE DEF Less, Below
  <2> QED
    BY <1>1, <1>2, WFMin
<1>4. ASSUME NEW k \in S PROVE k <= bound - d
  <2>1. bound - k \in Nat /\ bound - (bound - k) = k
    OBVIOUS
  <2>2. bound - k \in Below
    BY <2>1
  <2>3. ~(bound - k < d)
    BY <1>3, <2>1, <2>2
  <2> QED
    BY <2>1, <2>3
<1> QED
  BY <1>3, <1>4

\* The unit that is printed is a unit, and divides the bytes.
LEMMA UnitForDivides ==
  ASSUME NEW n \in Nat \ {0}
  PROVE  UnitFor(n) \in Units /\ Divides(UnitFor(n), n)
<1> DEFINE Candidates == {u \in Units : Divides(u, n)}
<1>1. 1 \in Candidates
  BY UnitAssumption DEF Divides
<1>2. Candidates \in SUBSET (0 .. n)
  <2>1. ASSUME NEW u \in Units, Divides(u, n) PROVE u \in 0 .. n
    <3>1. u \in Nat \ {0}
      BY UnitAssumption
    <3>2. u <= n
      BY <2>1, <3>1, UnitsDivide
    <3> QED
      BY <3>1, <3>2
  <2> QED
    BY <2>1
<1>3. PICK u \in Candidates : \A w \in Candidates : w <= u
  <2> HIDE DEF Candidates
  <2> QED
    BY <1>1, <1>2, LargestNatural
<1>4. u \in Units /\ Divides(u, n) /\ \A w \in Units : Divides(w, n) => w <= u
  BY <1>3
<1> QED
  BY <1>4 DEF UnitFor

\* Memory that _format_bytes prints is read back by parse_memory as it was, or
\* refused if it is beyond the ceiling.
THEOREM MemoryRoundTrip ==
  ASSUME NEW n \in Nat
  PROVE  ParseMemory(FormatBytes(n)) = Bounded(n, MaxMemory)
<1>1. CASE n = 0
  BY <1>1 DEF FormatBytes, ParseMemory
<1>2. CASE n # 0
  <2>1. UnitFor(n) \in Nat \ {0} /\ Divides(UnitFor(n), n)
    BY <1>2, UnitForDivides, UnitAssumption
  <2>2. (n \div UnitFor(n)) * UnitFor(n) = n
    BY <1>2, <2>1, UnitsDivide
  <2> QED
    BY <1>2, <2>2 DEF FormatBytes, ParseMemory
<1> QED
  BY <1>1, <1>2

\* CPU that _format_cpu prints is read back by parse_cpu as it was, or refused if it
\* is beyond the ceiling.
THEOREM CpuRoundTrip ==
  ASSUME NEW n \in Nat
  PROVE  ParseCpu(FormatCpu(n)) = Bounded(n, MaxCpu)
<1>1. CASE n % Core = 0
  <2>1. Core \in Nat \ {0}
    BY CpuAssumption
  <2>2. (n \div Core) * Core = n
    BY <1>1, <2>1
  <2> QED
    BY <1>1, <2>2 DEF FormatCpu, ParseCpu
<1>2. CASE n % Core # 0
  BY <1>2 DEF FormatCpu, ParseCpu
<1> QED
  BY <1>1, <1>2

\* A CPU limit that was parsed is not itself when it is parsed once more, which is
\* what apply_remediation does to a proposal: it is multiplied by a core, or refused.
THEOREM CpuParsedTwice ==
  ASSUME NEW n \in Nat \ {0}
  PROVE  ParseCpuNumber(n) # n
<1>1. n * Core > n
  BY CpuAssumption
<1>2. ParseCpuNumber(n) = Bounded(n * Core, MaxCpu)
  BY DEF ParseCpuNumber, ParseCpu
<1> QED
  BY <1>1, <1>2, InvalidAssumption, CpuAssumption DEF Bounded
=============================================================================
