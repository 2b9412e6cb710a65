---------------------------- MODULE MCExperience ----------------------------
(***************************************************************************)
(* Experience on a small instance: a store that is full, one record that   *)
(* is as like the failure as another, and one that is less like it.        *)
(***************************************************************************)
EXTENDS Experience

CONSTANTS o1, s1, s2

OldChecked == <<o1>>

Like(classification, image, keywords) ==
  [classification |-> classification, exit |-> FALSE, oom |-> FALSE,
   image |-> image, keywords |-> keywords]

LikenessChecked ==
  [r \in Records |-> CASE r = o1 -> Like(TRUE, TRUE, 5)
                       [] r = s1 -> Like(TRUE, FALSE, 0)
                       [] r = s2 -> Like(FALSE, FALSE, 4)]
=============================================================================
