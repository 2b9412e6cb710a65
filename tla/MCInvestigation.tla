--------------------------- MODULE MCInvestigation ---------------------------
(***************************************************************************)
(* Investigation on a small instance: one probe and one query, one action  *)
(* agent of every kind the engine tells apart.                             *)
(***************************************************************************)
EXTENDS Investigation

MenuChecked == {"analyze", "probe", "research", "specialist", "custom"}

SourcesChecked == [kind \in Consultations |-> CASE kind = "probe"    -> {"logs"}
                                                [] kind = "research" -> {"query"}
                                                [] kind = "code"     -> {}]
=============================================================================
