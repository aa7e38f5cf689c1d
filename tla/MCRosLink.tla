------------------------------- MODULE MCRosLink -------------------------------
(* TLC instance of RosLink: the data source and one more owner, a master, its *)
(* replacement, and a third that got the PID of the first.  The environment   *)
(* uses one part at a time: two owners and two masters; or three masters; or  *)
(* the world was created, there are subscribers, and the master answers.      *)
(* Only steps of the environment are held back, and none of them is fair.     *)
EXTENDS RosLink
CONSTANTS m1, m2, m3, data, other

MCPidOf == [m \in Masters |-> IF m = m2 THEN 2 ELSE 1]

Only(masters) == {master, found, boundRun} \subseteq masters \cup {Down, NoRun}
NoData == ~attached /\ ~stale /\ ~clockRequested /\ clock = 0 /\ \A t \in Senders : sender[t] = "idle"

LinkAlone == NoData /\ Only({m1, m2})
MastersAlone == NoData /\ owner[other] = "none" /\ dataStop = "running"
DataAlone == owner[other] = "none" /\ master = m1 /\ Only({m1}) /\ state # "unavailable"

SpecOfOne ==
    Init /\ [][Next /\ (LinkAlone' \/ MastersAlone' \/ DataAlone')]_vars /\ Fairness
=============================================================================
