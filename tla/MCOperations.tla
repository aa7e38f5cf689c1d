---------------------------- MODULE MCOperations ----------------------------
EXTENDS Operations, TLC

RequestSymmetry == Permutations(Requests)
=============================================================================
