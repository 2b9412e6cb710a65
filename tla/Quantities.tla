----------------------------- MODULE Quantities -----------------------------
(***************************************************************************)
(* The quantities of remediation.py: what a form, an inspect or a saved    *)
(* reversal writes, and what parse_memory and parse_cpu make of it.        *)
(*                                                                         *)
(* A quantity as it is written is a count and a unit.  Internally memory   *)
(* is a number of bytes and CPU a number of millicores.                    *)
(***************************************************************************)
EXTENDS Integers

CONSTANTS
  Units,      \* the binary units memory is printed in (1, 2^10, 2^20, ...)
  MaxMemory,  \* MAX_MEMORY_BYTES
  Core,       \* millicores in a core (1000)
  MaxCpu,     \* MAX_CPU_MILLICORES
  Invalid     \* RemediationError

ASSUME UnitAssumption == Units \subseteq Nat \ {0} /\ 1 \in Units

ASSUME CpuAssumption == Core \in Nat /\ Core > 1

ASSUME CeilingAssumption == MaxMemory \in Nat /\ MaxCpu \in Nat

ASSUME InvalidAssumption == Invalid \notin Nat

Bounded(n, ceiling) == IF n > ceiling THEN Invalid ELSE n

\* parse_memory of a text, and of a number, which is never compared with the
\* ceiling.
ParseMemory(text) == Bounded(text.count * text.unit, MaxMemory)

ParseMemoryNumber(n) == n

\* _format_bytes: the largest unit that divides the bytes.
Divides(u, n) == n % u = 0

UnitFor(n) == CHOOSE u \in Units : Divides(u, n) /\ \A w \in Units : Divides(w, n) => w <= u

FormatBytes(n) ==
  IF n = 0 THEN [count |-> 0, unit |-> 1]
  ELSE [count |-> n \div UnitFor(n), unit |-> UnitFor(n)]

\* parse_cpu: a text with an m is in millicores, any other text and every number
\* is in cores.
ParseCpu(text) ==
  Bounded(IF text.unit = "m" THEN text.count ELSE text.count * Core, MaxCpu)

ParseCpuNumber(n) == ParseCpu([count |-> n, unit |-> ""])

\* _format_cpu
FormatCpu(n) == IF n % Core = 0 THEN [count |-> n \div Core, unit |-> ""]
                ELSE [count |-> n, unit |-> "m"]
=============================================================================
