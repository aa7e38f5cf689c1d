--------------------------- MODULE MCWorldControl ---------------------------
(* The entities are alike and no property is about progress. *)
EXTENDS WorldControl, TLC

Alike == Permutations(Ids)
=============================================================================
