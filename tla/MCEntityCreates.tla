---------------------------- MODULE MCEntityCreates ----------------------------
(* Instances of EntityCreates for TLC.                                      *)
EXTENDS EntityCreates, TLC

CONSTANTS o1, o2, o3, i1, i2

\* Two creates of one ID and one of another.
MCIdOf == [o \in Ops |-> IF o = o3 THEN i2 ELSE i1]
MCIdOfTwo == [o \in Ops |-> i1]
===============================================================================
