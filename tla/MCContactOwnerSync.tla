------------------------- MODULE MCContactOwnerSync -------------------------
(* Small instances of ContactOwnerSync for TLC. *)
EXTENDS ContactOwnerSync, TLC
Symmetry == Permutations(Claims) \cup Permutations(Workers) \cup Permutations(Managers)
=============================================================================
