--------------------------- MODULE MCComponentHealth ---------------------------
EXTENDS ComponentHealth, TLC
Symmetry == Permutations(Owners)
=============================================================================
