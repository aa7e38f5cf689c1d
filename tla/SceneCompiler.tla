----------------------------- MODULE SceneCompiler -----------------------------
(***************************************************************************)
(* The consumption of a compiled scene document: from its geometries,      *)
(* model table, obstacles and ground to the models that are inserted, and  *)
(* the check of what Gazebo made of them.  A pose is a height, poses       *)
(* compose by addition, and a solid is a set of points, each of them a     *)
(* distance from the axis and a height.                                    *)
(***************************************************************************)
EXTENDS Integers, Sequences, FiniteSets, SequencesExt, FiniteSetsExt

CONSTANTS Documents,                               \* what a client sends
          MaxObstacles, MaxModelParts, MaxParts,   \* 256, 128 and 4096
          Lattice                                  \* the points of the solids

\* A document that its schema accepts; its ground has a pose unless there is none.
ShapeTypes == {"box", "sphere", "cylinder", "capsule", "mesh", "other"}
Shape == [type : ShapeTypes, radius : Int, height : Int]
Part == [id : STRING, pose : Int, geometryIndex : Int]
IsDocument(d) ==
    /\ d.geometries \in Seq(Shape)
    /\ \A name \in DOMAIN d.models : d.models[name].parts \in Seq(Part)
    /\ d.obstacles \in Seq(ToSet(d.obstacles))
    /\ \A item \in ToSet(d.obstacles) : item.pose \in Int
    /\ d.ground.mode # "none" => d.ground.pose \in Int

ASSUME SceneCompilerAssumption ==
    /\ \A d \in Documents : IsDocument(d)
    /\ Lattice \subseteq [out : Nat, z : Int]

VARIABLES doc, built, made, verifyPose, verdict

compilerVars == <<doc, built, made, verifyPose, verdict>>

NoGround == [name |-> <<"none">>]
NoBuild == [accepted |-> FALSE, models |-> <<>>, trajectories |-> <<>>, ground |-> NoGround]
NotMade == [expected |-> NoGround, present |-> FALSE]
GroundName == <<"ground_plane">>

CompilerInit ==
    /\ doc \in Documents /\ built = NoBuild
    /\ made = NotMade /\ verifyPose \in BOOLEAN /\ verdict = "none"

-------------------------------------------------------------------------------
(***************************************************************************)
(* The compilation of obstacles into models.                               *)
(***************************************************************************)
Geometry(part, geometries) == geometries[part.geometryIndex + 1]

CompiledPart(part, geometries) == part.geometryIndex \in 0..Len(geometries) - 1

Supported(g) ==
    \/ g.type \in {"box", "sphere"} /\ g.radius > 0
    \/ g.type = "cylinder" /\ g.radius > 0 /\ g.height > 0
    \/ g.type = "capsule" /\ g.radius > 0 /\ g.height >= 0
    \/ g.type = "mesh"

\* Mutant of CollisionsOf: the ends of a capsule lie inside its straight section.
CollisionsInside(part, geometries) ==
    LET g == Geometry(part, geometries)
        Collision(suffix, type, offset) ==
            [name |-> <<"part", part.id, suffix>>, pose |-> part.pose + offset,
             geometry |-> [g EXCEPT !.type = type]]
    IN  IF g.type # "capsule" THEN << Collision("whole", g.type, 0) >>
        ELSE << Collision("shaft", "cylinder", 0),
                Collision("lower", "sphere", g.radius - (g.height \div 2)),
                Collision("upper", "sphere", (g.height \div 2) - g.radius) >>

\* The height of a capsule is that of its straight section; the two spheres lie at its ends.
CollisionsOf(part, geometries) ==
    LET g == Geometry(part, geometries)
        Collision(suffix, type, offset) ==
            [name |-> <<"part", part.id, suffix>>, pose |-> part.pose + offset,
             geometry |-> [g EXCEPT !.type = type]]
    IN  IF g.type # "capsule" THEN << Collision("whole", g.type, 0) >>
        ELSE IF g.height = 0 THEN << Collision("whole", "sphere", 0) >>
        ELSE << Collision("shaft", "cylinder", 0),
                Collision("lower", "sphere", -(g.height \div 2)),
                Collision("upper", "sphere", g.height \div 2) >>

Compiles(obstacle, geometries) ==
    /\ obstacle.parts # <<>> /\ IsInjective([i \in DOMAIN obstacle.parts |-> obstacle.parts[i].id])
    /\ \A i \in DOMAIN obstacle.parts :
          CompiledPart(obstacle.parts[i], geometries) /\ Supported(Geometry(obstacle.parts[i], geometries))

SceneModel(obstacle, geometries) ==
    [name |-> <<"obstacle", obstacle.id>>, pose |-> obstacle.pose, authored |-> FALSE,
     collisions |-> FlattenSeq([i \in DOMAIN obstacle.parts |->
                                    CollisionsOf(obstacle.parts[i], geometries)])]

CompileScene(obstacles, geometries) ==
    /\ IsInjective([i \in DOMAIN obstacles |-> obstacles[i].id])
    /\ \A i \in DOMAIN obstacles : Compiles(obstacles[i], geometries)

\* A resource is a file that is sealed inside the asset directory and parses, or it is refused.
AuthorResourceModel(model) == [model EXCEPT !.authored = TRUE]
UseConsumerGroundName(model) == [model EXCEPT !.name = GroundName]

-------------------------------------------------------------------------------
(***************************************************************************)
(* A document d.                                                           *)
(***************************************************************************)
\* A motion along a path starts where the obstacle stands.
ParseMotion(motion, pose) ==
    \/ motion.type \in {"hold", "constant_twist"}
    \/ motion.type \in {"ping_pong", "circle"} /\ motion.start = pose

ModelOk(model, geometries) ==
    /\ Len(model.parts) \in 1..MaxModelParts
    /\ \A i \in DOMAIN model.parts : CompiledPart(model.parts[i], geometries)

GroundOk(d) ==
    \/ d.ground.mode = "none"
    \/ d.ground.mode = "default_plane"
    \/ d.ground.mode = "model" /\ d.ground.model \in DOMAIN d.models

Body(d, item) == [id |-> item.id, pose |-> item.pose, parts |-> d.models[item.model].parts]
ObstacleBodies(d) == [i \in DOMAIN d.obstacles |-> Body(d, d.obstacles[i])]
GroundModel(d) == d.models[d.ground.model]
Standin(d) == [id |-> "ground_plane", pose |-> d.ground.pose, parts |-> GroundModel(d).parts]

\* Parts are counted by obstacle, also those of a model that is used several times.
PartCount(d) == FoldLeft(LAMBDA sum, item : sum + Len(d.models[item.model].parts), 0, d.obstacles)
ObstaclesOk(d) ==
    /\ Len(d.obstacles) <= MaxObstacles
    /\ \A i \in DOMAIN d.obstacles :
          LET item == d.obstacles[i]
          IN item.model \in DOMAIN d.models /\ ParseMotion(item.motion, item.pose)
    /\ PartCount(d) <= MaxParts

ResourcesOk(d) == \A i \in DOMAIN d.obstacles : d.models[d.obstacles[i].model].resource # "refused"

GroundBuilds(d) ==
    \/ d.ground.mode = "none"
    \/ d.ground.mode = "default_plane" /\ d.ground.installed
    \/ /\ d.ground.mode = "model"
       /\ \/ GroundModel(d).resource = "file"
          \/ GroundModel(d).resource = "none" /\ CompileScene(<<Standin(d)>>, d.geometries)

GroundBuilt(d) ==
    CASE d.ground.mode = "none" -> NoGround
      [] d.ground.mode = "default_plane" ->
            [name |-> GroundName, pose |-> d.ground.pose, authored |-> TRUE, collisions |-> <<>>]
      [] d.ground.mode = "model" /\ GroundModel(d).resource # "none" ->
            UseConsumerGroundName([name |-> <<"obstacle", "ground_plane">>, pose |-> d.ground.pose,
                                   authored |-> TRUE, collisions |-> <<>>])
      [] d.ground.mode = "model" /\ GroundModel(d).resource = "none" ->
            UseConsumerGroundName(SceneModel(Standin(d), d.geometries))

Built(d, item) ==
    LET model == SceneModel(Body(d, item), d.geometries)
    IN  IF d.models[item.model].resource = "file" THEN AuthorResourceModel(model) ELSE model

\* A document is consumed whole or not at all.
Consumable(d) ==
    /\ \A name \in DOMAIN d.models : ModelOk(d.models[name], d.geometries)
    /\ GroundOk(d) /\ ObstaclesOk(d) /\ CompileScene(ObstacleBodies(d), d.geometries)
    /\ ResourcesOk(d) /\ GroundBuilds(d)

Item(d, id) == CHOOSE item \in ToSet(d.obstacles) : item.id = id
Ids(some) == {item.id : item \in some}
Moving(d) == {item \in ToSet(d.obstacles) : item.motion.type # "hold"}

Consumed(d) ==
    [accepted |-> TRUE,
     models |-> [id \in Ids(ToSet(d.obstacles)) |-> Built(d, Item(d, id))],
     trajectories |-> [id \in Ids(Moving(d)) |-> Item(d, id).motion],
     ground |-> GroundBuilt(d)]

ConsumeCompiled ==
    /\ built = NoBuild /\ Consumable(doc)
    /\ built' = Consumed(doc)
    /\ UNCHANGED <<doc, made, verifyPose, verdict>>

-------------------------------------------------------------------------------
(***************************************************************************)
(* What Gazebo made of a model, whole or with one thing wrong.             *)
(***************************************************************************)
Faithful(model) ==
    [expected |-> model, present |-> TRUE, static |-> TRUE, pose |-> model.pose, links |-> 1,
     collisions |-> ToSet(model.collisions), visuals |-> {c.name : c \in ToSet(model.collisions)}]

Damages(model) ==
    LET whole == Faithful(model)
        Swapped(c, d) == [whole EXCEPT !.collisions = (@ \ {c}) \cup {d}]
    IN  { [whole EXCEPT !.present = FALSE], [whole EXCEPT !.static = FALSE],
          [whole EXCEPT !.pose = @ + 1], [whole EXCEPT !.links = 2] }
        \cup UNION {{ [whole EXCEPT !.collisions = @ \ {c}], [whole EXCEPT !.visuals = @ \ {c.name}],
                      [whole EXCEPT !.visuals = (@ \ {c.name}) \cup {<<"other">>}],
                      Swapped(c, [c EXCEPT !.name = <<"other">>]), Swapped(c, [c EXCEPT !.pose = @ + 1]),
                      Swapped(c, [c EXCEPT !.geometry.type = "box"]),
                      Swapped(c, [c EXCEPT !.geometry.radius = @ + 1]),
                      Swapped(c, IF c.geometry.type = "cylinder" THEN [c EXCEPT !.geometry.height = @ + 2] ELSE c)
                    } : c \in ToSet(model.collisions)}

Candidates == {built.models[id] : id \in DOMAIN built.models}
                  \cup (IF built.ground = NoGround THEN {} ELSE {built.ground})

Make(model, result) ==
    /\ built.accepted /\ made = NotMade
    /\ made' = result
    /\ UNCHANGED <<doc, built, verifyPose, verdict>>

\* The size of a box and the file of a mesh are in the place of the radius.
ShapeMatches(actual, expected) ==
    /\ actual.type = expected.type /\ actual.radius = expected.radius
    /\ expected.type = "cylinder" => actual.height = expected.height

\* Mutant of PartMatches: a collision of another name is accepted.
PartMatchesAnyName(part) ==
    \E actual \in made.collisions :
        /\ part.name \in made.visuals
        /\ actual.pose = part.pose /\ ShapeMatches(actual.geometry, part.geometry)

PartMatches(part) ==
    \E actual \in made.collisions :
        /\ actual.name = part.name /\ part.name \in made.visuals
        /\ actual.pose = part.pose /\ ShapeMatches(actual.geometry, part.geometry)

VerifySceneModel ==
    LET expected == made.expected
    IN  /\ made.present /\ made.static
        /\ verifyPose => made.pose = expected.pose
        /\ \/ expected.authored
           \/ /\ made.links = 1 /\ Cardinality(made.collisions) = Len(expected.collisions)
              /\ Cardinality(made.visuals) = Len(expected.collisions)
              /\ \A i \in DOMAIN expected.collisions : PartMatches(expected.collisions[i])

Verify ==
    /\ made # NotMade /\ verdict = "none"
    /\ verdict' = IF VerifySceneModel THEN "accepted" ELSE "rejected"
    /\ UNCHANGED <<doc, built, made, verifyPose>>

CompilerNext ==
    \/ ConsumeCompiled
    \/ \E model \in Candidates : \E result \in Damages(model) \cup {Faithful(model)} : Make(model, result)
    \/ Verify

CompilerSpec == CompilerInit /\ [][CompilerNext]_compilerVars

-------------------------------------------------------------------------------
(***************************************************************************)
(* Properties.                                                             *)
(***************************************************************************)

\* What is inserted fills exactly the space that the document's parts describe: a capsule is
\* the union of its cylinder and two end spheres, of nothing less and nothing more
\* (scene_model.cpp:580-601; README.md:64-65).
Sphere(point, pose, radius) == point.out * point.out + (point.z - pose) * (point.z - pose) <= radius * radius
Fills(point, c) ==
    CASE c.geometry.type = "sphere" -> Sphere(point, c.pose, c.geometry.radius)
      [] c.geometry.type = "cylinder" -> /\ point.out <= c.geometry.radius
                                         /\ 2 * (point.z - c.pose) \in -c.geometry.height..c.geometry.height
      [] c.geometry.type \in {"box", "mesh"} -> FALSE
Describes(part, g, point) ==
    LET half == g.height \div 2
        nearest == Max({-half, Min({half, point.z - part.pose})})
    IN  CASE g.type \in {"sphere", "capsule"} ->
                Sphere(point, part.pose + (IF g.type = "capsule" THEN nearest ELSE 0), g.radius)
          [] g.type = "cylinder" -> point.out <= g.radius /\ point.z - part.pose \in -half..half
          [] g.type \in {"box", "mesh"} -> FALSE
SolidsAreExact ==
    built.accepted /\ made = NotMade =>
        \A item \in ToSet(doc.obstacles), point \in Lattice :
            (\E c \in ToSet(built.models[item.id].collisions) : Fills(point, c))
                <=> \E part \in ToSet(doc.models[item.model].parts) :
                        Describes(part, Geometry(part, doc.geometries), point)

\* A consumed document is whole: each obstacle has its own model, under a name that no other
\* model and no collision name beside it shares, each that moves has its motion, and the
\* numbers stay in their limits (native_scene_controller.cpp:299-380, scene_model.cpp:527-610).
SceneIsWhole ==
    built.accepted /\ made = NotMade =>
        /\ Len(doc.obstacles) = Cardinality(DOMAIN built.models)
        /\ Cardinality({m.name : m \in Candidates})
              = Len(doc.obstacles) + (IF doc.ground.mode = "none" THEN 0 ELSE 1)
        /\ \A m \in Candidates : IsInjective([i \in DOMAIN m.collisions |-> m.collisions[i].name])
        /\ \A item \in ToSet(doc.obstacles) :
              /\ built.models[item.id].pose = item.pose
              /\ (item.id \in DOMAIN built.trajectories) <=> item.motion.type # "hold"
        /\ PartCount(doc) <= MaxParts

\* What is compiled is what the document says: each obstacle once, and of each the space that
\* its parts describe (native_scene_controller.cpp:299-380, scene_model.cpp:527-610).
CompiledIsExact == SolidsAreExact /\ SceneIsWhole

\* The check accepts what was made as it was meant, and nothing else; of an authored resource
\* it checks no more than that it stands still where it should (scene_model.cpp:619-707).
VerdictIsExact ==
    verdict # "none" =>
        LET whole == Faithful(made.expected)
            shown == IF verifyPose \/ ~made.present THEN made ELSE [made EXCEPT !.pose = whole.pose]
        IN  IF made.expected.authored
            THEN (verdict = "accepted") <=> made.present /\ made.static /\ shown.pose = whole.pose
            ELSE (verdict = "accepted") <=> shown = whole
=============================================================================
