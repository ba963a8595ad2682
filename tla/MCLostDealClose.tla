-------------------------- MODULE MCLostDealClose --------------------------
EXTENDS LostDealClose, TLC

Symmetry == Permutations(Pollers)
=============================================================================
