----------------------------- MODULE ObstaclePath -----------------------------
(***************************************************************************)
(* The animation of a moving obstacle: how the plugin turns the waypoints  *)
(* of its SDF into timed key frames.  Points are pairs of integers whose   *)
(* distances are integers too, a yaw is a bearing in degrees, and time is  *)
(* counted in a unit in which both speeds divide.                          *)
(***************************************************************************)
EXTENDS Integers, Sequences, SequencesExt

CONSTANTS Points,           \* the positions that a waypoint can have
          Distance(_, _),
          Bearing(_, _),    \* atan2 of the difference, 0 for equal points
          MaxWaypoints,
          Pace, TurnPace    \* time per unit of distance, per degree

Yaws == -179..180

ASSUME ObstaclePathAssumption ==
    /\ \A p, q \in Points : Bearing(p, q) \in Yaws /\ (p # q => Distance(p, q) \in Nat \ {0})
    /\ MaxWaypoints \in Nat /\ Pace \in Nat \ {0} /\ TurnPace \in Nat \ {0}

VARIABLES sdf, keys         \* the parameters of the plugin, its animation

pathVars == <<sdf, keys>>

NoAnimation == <<>>
Parameters == [waypoints : SeqOf(Points, MaxWaypoints), loop : BOOLEAN, orientation : BOOLEAN]

PathInit == sdf \in Parameters /\ keys = NoAnimation

-------------------------------------------------------------------------------
\* A loop returns to its first waypoint; any other path goes back the way it came.
Closed(points, loop) ==
    IF loop THEN Append(points, points[1])
            ELSE points \o Tail(Reverse(points))

\* Mutant of Leaving: the last point is left in the direction of its arrival.
LeavingStraightOn(path) ==
    [i \in DOMAIN path |-> IF i < Len(path) THEN Bearing(path[i], path[i + 1])
                                            ELSE Bearing(path[i - 1], path[i])]

\* The yaw with which each point is left; the last one is left towards the second.
Leaving(path) ==
    [i \in DOMAIN path |-> Bearing(path[i], IF i < Len(path) THEN path[i + 1] ELSE path[2])]

\* Every point after the first is reached with the old yaw and left with the new one.
WithAngle(path) ==
    LET yaw == Leaving(path)
    IN  [k \in 1..2 * Len(path) - 1 |-> [at |-> path[(k \div 2) + 1], yaw |-> yaw[(k + 1) \div 2]]]

WithoutAngle(path) == [i \in DOMAIN path |-> [at |-> path[i], yaw |-> 0]]

Between(a, b) == LET d == (b - a) % 360 IN IF d <= 180 THEN d ELSE 360 - d
Duration(from, to) == IF from.at # to.at THEN Pace * Distance(from.at, to.at)
                                         ELSE TurnPace * Between(from.yaw, to.yaw)

Knots(poses) ==
    LET knot[i \in DOMAIN poses] == IF i = 1 THEN 0 ELSE knot[i - 1] + Duration(poses[i - 1], poses[i])
    IN  knot

\* Of the poses that share a time the last one is kept.
UniqueKeyframeIndices(times) ==
    LET kept[i \in DOMAIN times] ==
            LET before == IF i = 1 THEN <<>> ELSE kept[i - 1]
            IN  IF i = Len(times) \/ times[i + 1] # times[i] THEN Append(before, i) ELSE before
    IN  kept[Len(times)]

\* An invalid path leaves the model without an animation.
LoadPath ==
    /\ keys = NoAnimation /\ Len(sdf.waypoints) >= 2
    /\ LET path == Closed(sdf.waypoints, sdf.loop)
           poses == IF sdf.orientation THEN WithAngle(path) ELSE WithoutAngle(path)
           times == Knots(poses)
           kept == UniqueKeyframeIndices(times)
       IN  /\ Last(times) > 0 /\ Len(kept) >= 2
           /\ keys' = [i \in DOMAIN kept |-> [time |-> times[kept[i]], pose |-> poses[kept[i]]]]
    /\ UNCHANGED sdf

PathSpec == PathInit /\ [][LoadPath]_pathVars

-------------------------------------------------------------------------------
(***************************************************************************)
(* Properties.                                                             *)
(***************************************************************************)

\* The animation repeats for ever: it starts at time zero and ends in the pose in which
\* it starts, or the obstacle would jump once a round (obstacle_path_plugin.cpp:118-126, 223).
AnimationCloses ==
    keys # NoAnimation => Head(keys).time = 0 /\ Head(keys).pose = Last(keys).pose

\* From one key frame to the next an obstacle either drives or turns, for as long as the
\* speed asks for, and with an orientation it drives in the direction that it faces,
\* whatever waypoints coincide (obstacle_path_plugin.cpp:134-144, 164-198, path_timing.hpp:21-34).
AnimationIsDriven ==
    \A i \in 1..Len(keys) - 1 :
        LET from == keys[i].pose
            to == keys[i + 1].pose
        IN  /\ keys[i + 1].time - keys[i].time = Duration(from, to)
            /\ keys[i].time < keys[i + 1].time
            /\ from.at # to.at => /\ from.yaw = to.yaw
                                  /\ sdf.orientation => from.yaw = Bearing(from.at, to.at)

\* The obstacle passes the waypoints in their order, and in the opposite order on its way
\* back (obstacle_path_plugin.cpp:75-83).
Visits(points) ==
    LET visit[i \in DOMAIN points] ==
            IF i = 1 THEN <<points[1]>>
            ELSE IF points[i] = points[i - 1] THEN visit[i - 1] ELSE Append(visit[i - 1], points[i])
    IN  visit[Len(points)]
WaypointsAreVisited ==
    keys # NoAnimation =>
        LET there == sdf.waypoints
            n == Len(there)
            round == IF sdf.loop THEN [i \in 1..n + 1 |-> there[IF i <= n THEN i ELSE 1]]
                     ELSE [i \in 1..2 * n - 1 |-> there[IF i <= n THEN i ELSE 2 * n - i]]
        IN  Visits([i \in DOMAIN keys |-> keys[i].pose.at]) = Visits(round)

\* The animation of an obstacle passes its waypoints in order, at its pace and facing where
\* it drives, and closes, whatever waypoints coincide (obstacle_path_plugin.cpp:75-198, 223).
AnimationIsSound == AnimationCloses /\ AnimationIsDriven /\ WaypointsAreVisited
=============================================================================
