------------------------------- MODULE MCNames ------------------------------
(* Instances of Names for TLC. *)
EXTENDS Names, TLC

CONSTANTS i1, i2, i3, a, b, q1, q2, q3

Symmetry ==
  Permutations(Ids) \cup Permutations(Requests) \cup Permutations(NameSet \ {Empty})
=============================================================================
