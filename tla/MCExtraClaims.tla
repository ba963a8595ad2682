---------------------------- MODULE MCExtraClaims ----------------------------
(* A small instance of ExtraClaims for TLC. *)
EXTENDS ExtraClaims
=============================================================================
