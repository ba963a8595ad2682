-------------------------- MODULE MCGreetingOutbox --------------------------
(* Small instances of GreetingOutbox for TLC. *)
EXTENDS GreetingOutbox, TLC
Symmetry == Permutations(Loops)
=============================================================================
