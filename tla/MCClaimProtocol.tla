--------------------------- MODULE MCClaimProtocol ---------------------------
(* Small instances of ClaimProtocol for TLC. *)
EXTENDS ClaimProtocol, TLC
Symmetry == Permutations(Managers) \cup Permutations(Deals)
=============================================================================
