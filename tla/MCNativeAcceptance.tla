------------------------- MODULE MCNativeAcceptance -------------------------
EXTENDS NativeAcceptance, TLC

Symmetry == Permutations(Managers)
=============================================================================
