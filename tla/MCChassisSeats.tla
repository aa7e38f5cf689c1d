--------------------------- MODULE MCChassisSeats ---------------------------
(* Two models, one after the other or in conflict, for one robot. *)
EXTENDS ChassisSeats, TLC

CONSTANTS s1, s2, x

MCIdOf == (s1 :> x) @@ (s2 :> x)
=============================================================================
