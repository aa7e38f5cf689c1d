------------------------------- MODULE MCPlugins -------------------------------
\* Three parts of the package that share no state, each of them explored on its own.
EXTENDS ObstaclePath, ContactMonitor, SceneCompiler, TLC

VARIABLE part
plugins == <<part, pathVars, contactVars, compilerVars>>

\* The corners of a rectangle of three by four: their distances are integers.
MCPoints == {<<0, 0>>, <<3, 0>>, <<0, 4>>, <<3, 4>>}
MCDistance(a, b) ==
    LET d == <<b[1] - a[1], b[2] - a[2]>>
    IN  IF d[1] # 0 /\ d[2] # 0 THEN 5 ELSE IF d[1] # 0 THEN 3 ELSE IF d[2] # 0 THEN 4 ELSE 0
MCBearing(a, b) ==
    LET d == <<b[1] - a[1], b[2] - a[2]>>
    IN  CASE d = <<3, 0>> -> 0 [] d = <<3, 4>> -> 53 [] d = <<0, 4>> -> 90 [] d = <<-3, 4>> -> 127
          [] d = <<-3, 0>> -> 180 [] d = <<-3, -4>> -> -127 [] d = <<0, -4>> -> -90
          [] d = <<3, -4>> -> -53 [] OTHER -> 0

MCLattice == [out : 0..3, z : -5..8]
G(type, radius, height) == [type |-> type, radius |-> radius, height |-> height]
MCGeometries == { <<g, h>> : g \in {G("capsule", 2, 4), G("capsule", 1, 0), G("cylinder", 1, 2), G("cylinder", 1, 0)},
                             h \in {G("sphere", 2, 0), G("box", 1, 0), G("capsule", 1, 2), G("mesh", 1, 0)} }
P(id, pose, index) == [id |-> id, pose |-> pose, geometryIndex |-> index]
MCParts == SeqOf({P(id, pose, index) : id \in {"p", "q"}, pose \in {0, 3}, index \in 0..2}, 2)
M(parts, resource) == [parts |-> parts, resource |-> resource]
Motions == {[type |-> "hold"], [type |-> "constant_twist"]}
              \cup [type : {"ping_pong"}, start : {0, 1}] \cup {[type |-> "waypoints"]}
O(id, model, pose, motion) == [id |-> id, model |-> model, pose |-> pose, motion |-> motion]
Items == {O(id, model, 0, motion) : id \in {"a", "b"}, model \in {"m", "n"}, motion \in Motions}
             \cup {O("a", "unknown", 0, [type |-> "hold"])}
Grounds == {[mode |-> "none"], [mode |-> "default_plane", pose |-> 1, installed |-> TRUE],
            [mode |-> "default_plane", pose |-> 1, installed |-> FALSE]}
              \cup {[mode |-> "model", model |-> m, pose |-> 2] : m \in {"n", "unknown"}}
Simple == << P("p", 0, 0), P("q", 3, 1) >>
\* Either the parts vary, or the obstacles, the resources and the ground.
MCDocuments ==
    { [geometries |-> geometries, models |-> [m |-> M(parts, "none")], ground |-> [mode |-> "none"],
       obstacles |-> <<O("a", "m", 1, [type |-> "hold"])>>] : geometries \in MCGeometries, parts \in MCParts }
    \cup
    { [geometries |-> <<G("capsule", 1, 2), G("sphere", 2, 0)>>,
       models |-> [m |-> M(Simple, r), n |-> M(<<P("p", 0, 1)>>, s)], ground |-> ground, obstacles |-> obstacles] :
         r \in {"none", "file", "refused"}, s \in {"none", "file"}, ground \in Grounds,
         obstacles \in SeqOf(Items, 2) }

PathQuiet == sdf = [waypoints |-> <<>>, loop |-> FALSE, orientation |-> FALSE] /\ keys = NoAnimation
ContactQuiet == ContactInit /\ bodies = [n \in Names |-> "absent"]
CompilerQuiet == doc = NoBuild /\ built = NoBuild /\ made = NotMade /\ verifyPose = TRUE /\ verdict = "none"

Init == \/ part = "path" /\ PathInit /\ ContactQuiet /\ CompilerQuiet
        \/ part = "contacts" /\ PathQuiet /\ ContactInit /\ CompilerQuiet
        \/ part = "scene" /\ PathQuiet /\ ContactQuiet /\ CompilerInit

Next == /\ UNCHANGED part
        /\ \/ part = "path" /\ LoadPath /\ UNCHANGED <<contactVars, compilerVars>>
           \/ part = "contacts" /\ ContactNext /\ UNCHANGED <<pathVars, compilerVars>>
           \/ part = "scene" /\ CompilerNext /\ UNCHANGED <<pathVars, contactVars>>

Spec == Init /\ [][Next]_plugins
=============================================================================
