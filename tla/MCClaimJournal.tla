--------------------------- MODULE MCClaimJournal ---------------------------
(* Small instances of ClaimJournal for TLC. *)
EXTENDS ClaimJournal, TLC
Symmetry == Permutations(Managers) \cup Permutations(Versions)
=============================================================================
