---------------------------- MODULE MCClaimLocks ----------------------------
(* Small instances of ClaimLocks for TLC. *)
EXTENDS ClaimLocks, TLC
=============================================================================
