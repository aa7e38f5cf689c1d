------------------------------ MODULE SceneApply ------------------------------
(***************************************************************************)
(* The application of a scene: the revision fence of the native scene      *)
(* controller, the replacement of the scene's entities by the world's      *)
(* worker, and Gazebo's factory, which answers an insertion late, never,   *)
(* or after the application gave up.                                       *)
(*                                                                         *)
(* A scene is a function from names to bodies.  The obstacles are numbered *)
(* in the order of the code's maps and the ground is the last name; a body *)
(* stands for all that makes the code replace a model: for the ground this *)
(* includes its pose.  A native model carries the number of the            *)
(* application that inserted it, so that equal models of two applications  *)
(* are told apart here although the code only sees their names.            *)
(***************************************************************************)
EXTENDS Integers, FiniteSets

CONSTANTS NumObstacles, Bodies, NoBody,
          Epochs, NoEpoch, MaxRevision,
          Scenes,       \* the documents a client sends
          NumEntities,  \* kEntities, the table of the world
          RetiredCap,   \* retired epochs the controller remembers
          MaxTries      \* bound of the model: applications begun

Ground == NumObstacles + 1
Names == 1..Ground

ASSUME SceneApplyAssumption ==
    /\ NumObstacles \in Nat /\ NumEntities \in Nat /\ RetiredCap \in Nat
    /\ MaxRevision \in Nat /\ MaxTries \in Nat
    /\ NoBody \notin Bodies /\ NoEpoch \notin Epochs
    /\ Scenes \subseteq [Names -> Bodies \cup {NoBody}]

Models == [name : Names, body : Bodies, try : 1..MaxTries]
None == [name |-> 0]
Commands == [epoch : Epochs, revision : 1..MaxRevision, scene : Scenes]
NoScene == [n \in Names |-> NoBody]
NoCommand == [epoch |-> NoEpoch, revision |-> 0, scene |-> NoScene]

VARIABLES
    epoch, revision, scene, suspended, retired, moved,   \* the controller
    entity, others, groundTaken,                         \* the entity table
    worker, cmd, try, cancelled, expired, outcome, todo, \* the worker
    pending, got, abandoned, ready,                      \* acknowledgements
    queued, world, leftover,                             \* Gazebo
    stopping

controllerVars == <<epoch, revision, scene, suspended, retired, moved>>
tableVars == <<others, groundTaken>>
flagVars == <<cancelled, expired, stopping>>
ackVars == <<pending, got, abandoned, ready>>
gazeboVars == <<queued, world, leftover>>
vars == <<controllerVars, entity, tableVars, worker, cmd, try, outcome, todo,
          flagVars, ackVars, gazeboVars>>

NamesOf(models) == {m.name : m \in models}
Occupied == {n \in Names : entity[n] # None}
\* Mutant of Stale: a changed body does not replace its model.
StaleByName == {n \in Occupied : cmd.scene[n] = NoBody}

Stale == {n \in Occupied : entity[n].body # cmd.scene[n]}
Additions == {n \in Names : cmd.scene[n] # NoBody /\ n \notin Occupied}
Wanted == {n \in Names : cmd.scene[n] # NoBody}
Answered == pending \subseteq NamesOf(got)

TypeOK ==
    /\ epoch \in Epochs \cup {NoEpoch} /\ revision \in 0..MaxRevision
    /\ scene \in [Names -> Bodies \cup {NoBody}]
    /\ suspended \in BOOLEAN /\ retired \in SUBSET Epochs
    /\ moved \in SUBSET Models
    /\ entity \in [Names -> Models \cup {None}]
    /\ others \in 0..NumEntities /\ groundTaken \in BOOLEAN
    /\ worker \in {"idle", "apply", "batch", "insert", "wait", "withdraw", "install",
                   "pass", "ended"}
    /\ cmd \in Commands \cup {NoCommand} /\ try \in 0..MaxTries
    /\ worker \in {"apply", "batch", "insert", "wait", "withdraw", "install"}
         => cmd \in Commands
    /\ cancelled \in BOOLEAN /\ expired \in BOOLEAN /\ stopping \in BOOLEAN
    /\ outcome \in {"none", "ok", "conflict", "resource_exhausted", "cancelled",
                    "deadline_exceeded", "unavailable", "internal"}
    /\ todo \in SUBSET Names /\ pending \in SUBSET Names
    /\ got \in SUBSET Models /\ ready \in SUBSET Models /\ abandoned \in SUBSET Names
    /\ queued \in SUBSET Models /\ world \in SUBSET Models /\ leftover \in SUBSET Models

Init ==
    /\ epoch = NoEpoch /\ revision = 0 /\ scene = NoScene
    /\ suspended = FALSE /\ retired = {} /\ moved = {}
    /\ entity = [n \in Names |-> None] /\ others = 0 /\ groundTaken = FALSE
    /\ worker = "idle" /\ cmd = NoCommand /\ try = 0
    /\ cancelled = FALSE /\ expired = FALSE /\ outcome = "none" /\ todo = {}
    /\ pending = {} /\ got = {} /\ abandoned = {} /\ ready = {}
    /\ queued = {} /\ world = {} /\ leftover = {}
    /\ stopping = FALSE

-------------------------------------------------------------------------------
(***************************************************************************)
(* The fence of NativeSceneController::Execute, under its mutex.           *)
(***************************************************************************)
\* Mutant of Refused: retired epochs are not looked for.
RefusedForgetful(c) ==
    c.epoch = epoch /\ (c.revision < revision \/ (c.revision = revision /\ c.scene # scene))

Refused(c) ==
    \/ c.epoch \in retired
    \/ c.epoch # epoch /\ Cardinality(retired) >= RetiredCap
    \/ c.epoch = epoch /\ c.revision < revision
    \/ c.epoch = epoch /\ c.revision = revision /\ c.scene # scene

Repeated(c) == c.epoch = epoch /\ c.revision = revision /\ ~suspended

Take == worker = "idle" /\ ~stopping

Refuse(c) ==
    /\ Take /\ Refused(c)
    /\ outcome' = "conflict" /\ worker' = "pass"
    /\ UNCHANGED <<controllerVars, entity, tableVars, cmd, try, todo, flagVars, ackVars,
                   gazeboVars>>

Repeat(c) ==
    /\ Take /\ ~Refused(c) /\ Repeated(c)
    /\ outcome' = "ok" /\ worker' = "pass"
    /\ UNCHANGED <<controllerVars, entity, tableVars, cmd, try, todo, flagVars, ackVars,
                   gazeboVars>>

Suspend(c) ==
    /\ Take /\ ~Refused(c) /\ ~Repeated(c) /\ try < MaxTries
    /\ suspended' = TRUE
    /\ cmd' = c /\ try' = try + 1
    /\ worker' = "apply"
    /\ UNCHANGED <<epoch, revision, scene, retired, moved, entity, tableVars, outcome, todo,
                   flagVars, ackVars, gazeboVars>>

\* An exception ends the application; CompleteCreates follows every command.
Fail(code) ==
    /\ outcome' = code
    /\ worker' = "pass"

-------------------------------------------------------------------------------
(***************************************************************************)
(* ApplyScene, called without the controller's mutex.                      *)
(***************************************************************************)
TooMany == Cardinality(Wanted) + others > NumEntities

Precheck ==
    /\ worker = "apply"
    /\ \/ groundTaken /\ Fail("conflict")
       \/ ~groundTaken /\ TooMany /\ Fail("resource_exhausted")
       \/ ~groundTaken /\ ~TooMany /\ expired /\ Fail("deadline_exceeded")
    /\ UNCHANGED <<controllerVars, entity, tableVars, cmd, try, todo, flagVars, ackVars,
                   gazeboVars>>

\* The obstacles go first; the ground is found by its name and its removal is
\* confirmed, so that it can be refused (500) with the obstacles gone.
RemoveStale(stuck) ==
    LET gone == IF stuck THEN Stale \ {Ground} ELSE Stale
    IN  /\ worker = "apply"
        /\ ~groundTaken /\ ~TooMany
        /\ stuck => Ground \in Stale /\ Ground \in NamesOf(world)
        /\ world' = world \ ({entity[n] : n \in gone \ {Ground}}
                             \cup {m \in world : m.name = Ground /\ Ground \in gone})
        /\ entity' = [n \in Names |-> IF n \in gone THEN None ELSE entity[n]]
        /\ IF stuck THEN Fail("internal") ELSE worker' = "batch" /\ UNCHANGED outcome
        /\ UNCHANGED <<controllerVars, tableVars, cmd, try, todo, flagVars, ackVars,
                       queued, leftover>>

InstallNext == worker' = "install" /\ todo' = Wanted \ (Occupied \cap {Ground})

\* RealizeBatch: nothing to insert, no room for more unanswered insertions, a
\* name whose earlier insertion is still unanswered, or the batch is announced.
BatchEmpty ==
    /\ worker = "batch" /\ Additions = {}
    /\ InstallNext
    /\ UNCHANGED <<controllerVars, entity, tableVars, cmd, try, outcome, flagVars, ackVars,
                   gazeboVars>>

BatchRefused ==
    /\ worker = "batch" /\ Additions # {}
    /\ IF Cardinality(abandoned) + Cardinality(Additions) > NumEntities
       THEN Fail("resource_exhausted")
       ELSE Additions \cap abandoned # {} /\ Fail("conflict")
    /\ UNCHANGED <<controllerVars, entity, tableVars, cmd, try, todo, flagVars, ackVars,
                   gazeboVars>>

BatchAnnounce ==
    /\ worker = "batch" /\ Additions # {}
    /\ Cardinality(abandoned) + Cardinality(Additions) <= NumEntities
    /\ Additions \cap abandoned = {}
    /\ pending' = Additions /\ got' = {}
    /\ worker' = "insert"
    /\ UNCHANGED <<controllerVars, entity, tableVars, cmd, try, outcome, todo, flagVars,
                   abandoned, ready, gazeboVars>>

BatchInsert ==
    /\ worker = "insert"
    /\ queued' = queued \cup {[name |-> n, body |-> cmd.scene[n], try |-> try] : n \in pending}
    /\ worker' = "wait"
    /\ UNCHANGED <<controllerVars, entity, tableVars, cmd, try, outcome, todo, flagVars,
                   ackVars, world, leftover>>

\* The wait ends with every answer, even when the deadline passed meanwhile.
WaitCompletes ==
    /\ worker = "wait" /\ ~stopping /\ ~cancelled /\ Answered
    /\ pending' = {}
    /\ InstallNext
    /\ UNCHANGED <<controllerVars, entity, tableVars, cmd, try, outcome, flagVars,
                   got, abandoned, ready, gazeboVars>>

\* Mutant of WaitGivesUp: the names that were not answered are not abandoned.
WaitForgets ==
    /\ worker = "wait" /\ ~stopping
    /\ cancelled \/ (expired /\ ~Answered)
    /\ pending' = {}
    /\ worker' = "withdraw"
    /\ UNCHANGED <<controllerVars, entity, tableVars, cmd, try, outcome, todo, flagVars,
                   got, abandoned, ready, gazeboVars>>

WaitGivesUp ==
    /\ worker = "wait" /\ ~stopping
    /\ cancelled \/ (expired /\ ~Answered)
    /\ abandoned' = abandoned \cup (pending \ NamesOf(got))
    /\ pending' = {}
    /\ worker' = "withdraw"
    /\ UNCHANGED <<controllerVars, entity, tableVars, cmd, try, outcome, todo, flagVars,
                   got, ready, gazeboVars>>

\* Mutant of Withdraw: the answers that came are not removed.
WithdrawNothing ==
    /\ worker = "withdraw"
    /\ got' = {}
    /\ Fail(IF cancelled THEN "cancelled" ELSE "deadline_exceeded")
    /\ UNCHANGED <<controllerVars, entity, tableVars, cmd, try, todo, flagVars, pending,
                   abandoned, ready, gazeboVars>>

Withdraw ==
    /\ worker = "withdraw"
    /\ world' = world \ got
    /\ got' = {}
    /\ Fail(IF cancelled THEN "cancelled" ELSE "deadline_exceeded")
    /\ UNCHANGED <<controllerVars, entity, tableVars, cmd, try, todo, flagVars, pending,
                   abandoned, ready, queued, leftover>>

WaitStops ==
    /\ worker = "wait" /\ stopping
    /\ Fail("unavailable")
    /\ UNCHANGED <<controllerVars, entity, tableVars, cmd, try, todo, flagVars, ackVars,
                   gazeboVars>>

\* The next name in the code's order gets its entity and its pose and is
\* verified against the physical model.  A failed verification leaves the entity
\* and drops the models that were created for the names after it.  That the table
\* has room (the code's last 429) is the invariant InstallFits.
IsNext(n) == n \in todo /\ \A m \in todo : n <= m

Install(n, verified) ==
    /\ worker = "install" /\ IsNext(n)
    /\ LET rest == {m \in got : m.name # n}
       IN  /\ entity' = [entity EXCEPT
                  ![n] = IF n \in Occupied THEN @ ELSE CHOOSE m \in got : m.name = n]
           /\ got' = IF verified THEN rest ELSE {}
           /\ leftover' = IF verified THEN leftover ELSE leftover \cup rest
    /\ todo' = todo \ {n}
    /\ IF verified THEN UNCHANGED <<worker, outcome>> ELSE Fail("internal")
    /\ UNCHANGED <<controllerVars, tableVars, cmd, try, flagVars, pending, abandoned, ready,
                   queued, world>>

\* Back in the controller: the revision is committed under its mutex.
Commit ==
    /\ worker = "install" /\ todo = {}
    /\ epoch' = cmd.epoch /\ revision' = cmd.revision /\ scene' = cmd.scene
    /\ retired' = IF epoch \in {cmd.epoch, NoEpoch} THEN retired ELSE retired \cup {epoch}
    /\ moved' = {entity[n] : n \in Occupied \ {Ground}}
    /\ suspended' = FALSE
    /\ outcome' = "ok" /\ worker' = "pass"
    /\ UNCHANGED <<entity, tableVars, cmd, try, todo, flagVars, ackVars, gazeboVars>>

-------------------------------------------------------------------------------
(***************************************************************************)
(* Everybody else: CompleteCreates, the factory with its acknowledgement   *)
(* (on the physics thread), the client and the other entities.             *)
(***************************************************************************)
EndCommand ==
    /\ cmd' = NoCommand /\ outcome' = "none" /\ todo' = {}
    /\ cancelled' = FALSE /\ expired' = FALSE

\* Mutant of Sweep: late models are swept after commands only.
SweepAfterCommand ==
    /\ worker = "pass" \/ (worker = "idle" /\ stopping)
    /\ world' = world \ ready
    /\ abandoned' = abandoned \ NamesOf(ready)
    /\ ready' = {}
    /\ worker' = IF stopping THEN "ended" ELSE "idle"
    /\ EndCommand
    /\ UNCHANGED <<controllerVars, entity, tableVars, try, stopping, pending, got, queued,
                   leftover>>

Sweep ==
    /\ worker = "pass" \/ (worker = "idle" /\ (ready # {} \/ stopping))
    /\ world' = world \ ready
    /\ abandoned' = abandoned \ NamesOf(ready)
    /\ ready' = {}
    /\ worker' = IF stopping THEN "ended" ELSE "idle"
    /\ EndCommand
    /\ UNCHANGED <<controllerVars, entity, tableVars, try, stopping, pending, got, queued,
                   leftover>>

Acknowledge(m) ==
    IF stopping THEN UNCHANGED <<got, ready>>
    ELSE IF m.name \in abandoned THEN ready' = ready \cup {m} /\ UNCHANGED got
    ELSE IF m.name \in pending THEN got' = got \cup {m} /\ UNCHANGED ready
    ELSE UNCHANGED <<got, ready>>

\* Gazebo inserts no second model of a name.
Arrive(m) ==
    /\ m \in queued /\ worker # "ended"
    /\ queued' = queued \ {m}
    /\ IF m.name \in NamesOf(world)
       THEN UNCHANGED <<world, got, ready>>
       ELSE world' = world \cup {m} /\ Acknowledge(m)
    /\ UNCHANGED <<controllerVars, entity, tableVars, worker, cmd, try, outcome, todo,
                   flagVars, pending, abandoned, leftover>>

\* The flags are set where they can next be read.
Cancel ==
    /\ worker = "wait" /\ ~cancelled
    /\ cancelled' = TRUE
    /\ UNCHANGED <<controllerVars, entity, tableVars, worker, cmd, try, outcome, todo,
                   expired, stopping, ackVars, gazeboVars>>

Expire ==
    /\ worker \in {"apply", "wait"} /\ ~expired
    /\ expired' = TRUE
    /\ UNCHANGED <<controllerVars, entity, tableVars, worker, cmd, try, outcome, todo,
                   cancelled, stopping, ackVars, gazeboVars>>

\* Creates and removals of independent entities, one of which can hold the ID
\* that the scene's ground needs.
OthersChange(count, taken) ==
    /\ Take
    /\ count + Cardinality(Occupied) <= NumEntities
    /\ taken => count > 0
    /\ <<count, taken>> # <<others, groundTaken>>
    /\ others' = count /\ groundTaken' = taken
    /\ UNCHANGED <<controllerVars, entity, worker, cmd, try, outcome, todo, flagVars, ackVars,
                   gazeboVars>>

Stop ==
    /\ ~stopping
    /\ stopping' = TRUE
    /\ UNCHANGED <<controllerVars, entity, tableVars, worker, cmd, try, outcome, todo,
                   cancelled, expired, ackVars, gazeboVars>>

Worker ==
    \/ \E c \in Commands : Refuse(c) \/ Repeat(c) \/ Suspend(c)
    \/ Precheck \/ \E stuck \in BOOLEAN : RemoveStale(stuck)
    \/ BatchEmpty \/ BatchRefused \/ BatchAnnounce \/ BatchInsert
    \/ WaitCompletes \/ WaitGivesUp \/ Withdraw \/ WaitStops
    \/ \E n \in Names, verified \in BOOLEAN : Install(n, verified)
    \/ Commit \/ Sweep

Next ==
    \/ Worker
    \/ \E m \in queued : Arrive(m)
    \/ Cancel \/ Expire \/ Stop
    \/ \E count \in 0..NumEntities, taken \in BOOLEAN : OthersChange(count, taken)

\* The worker is a thread that runs, and time passes for its deadline.
Progress ==
    \/ Precheck \/ \E stuck \in BOOLEAN : RemoveStale(stuck)
    \/ BatchEmpty \/ BatchRefused \/ BatchAnnounce \/ BatchInsert
    \/ WaitCompletes \/ WaitGivesUp \/ Withdraw \/ WaitStops
    \/ \E n \in Names, verified \in BOOLEAN : Install(n, verified)
    \/ Commit \/ Sweep

Spec == Init /\ [][Next]_vars /\ WF_vars(Progress) /\ WF_vars(Expire)

-------------------------------------------------------------------------------
(***************************************************************************)
(* Properties.                                                             *)
(***************************************************************************)

\* A scene that the controller reports as applied is the physical scene: every
\* name of its document and no other has an entity, with the declared body, whose
\* model is in the world, and the controller moves exactly the obstacles of it
\* (native_scene_controller.cpp:540-568 against simulation_service.cpp:1281-1397).
AppliedIsWhole ==
    ~suspended /\ epoch # NoEpoch =>
        /\ \A n \in Names :
               IF scene[n] = NoBody THEN entity[n] = None
               ELSE /\ entity[n] \in world
                    /\ entity[n].name = n /\ entity[n].body = scene[n]
        /\ moved = {entity[n] : n \in Occupied \ {Ground}}

\* A model that answers late is never taken for the answer to a newer insertion
\* of its name (the abandoned names of simulation_service.cpp:1203-1211, 422-424).
AwaitedIsOwn ==
    worker \in {"insert", "wait", "withdraw", "install"} /\ ~stopping =>
        \A m \in got : m.try = try /\ m.body = cmd.scene[m.name]

\* While the world runs, every scene model in it is an entity's, is awaited, or
\* waits for its removal.  The models of a batch whose verification failed are the
\* exception (RepairedIsExact).
NoOrphan ==
    ~stopping => world \subseteq {entity[n] : n \in Occupied} \cup got \cup ready \cup leftover

\* A late model is nobody's: until its removal its name is fenced, has no entity and
\* is not awaited, whichever documents were applied since.
LateIsApart ==
    ~stopping => \A m \in ready : /\ m.name \in abandoned \ (pending \cup NamesOf(got))
                                  /\ entity[m.name] = None

\* A failed application loses no model that answers after it: what is in the world
\* beside the scene waits for the sweep, and no later scene contains it.  That it
\* enters the world at all, after a correction or a clear too, is LateNeverEnters
\* (simulation_service.cpp:1230-1241, 422-424, 1640-1645).
LateIsAccounted == NoOrphan /\ LateIsApart

\* The table has room for every entity an application is about to install: the
\* bound is checked once, before the removals (simulation_service.cpp:1262-1268).
InstallFits ==
    worker \in {"batch", "insert", "wait", "install"} =>
        Cardinality(Occupied \cup Wanted) + others <= NumEntities

\* An application takes no answer of an earlier one and no more entities than the
\* table has, from its fence to its installation (simulation_service.cpp:1262-1397).
BatchAgrees == TypeOK /\ AwaitedIsOwn /\ InstallFits

\* A step of the controller never returns to a retired epoch, never takes an
\* epoch without retiring the last, never goes back within one and never gives
\* an applied revision a second document, although the fence and the commit are
\* two critical sections (native_scene_controller.cpp:507-530, 540-556).
EpochFence ==
    [][/\ epoch' # epoch => epoch' \notin retired' /\ (epoch = NoEpoch \/ epoch \in retired')
       /\ epoch' = epoch => revision' >= revision
       /\ <<epoch', revision'>> = <<epoch, revision>> => scene' = scene
       /\ retired \subseteq retired']_vars

\* A model that answered after its application gave up leaves the world
\* (simulation_service.cpp:1640-1645).
LateSwept == \A n \in Names : n \in NamesOf(ready) ~> n \notin NamesOf(ready)

\* What README.md:113-114 says of late models: "Corrective snapshots first drain
\* outstanding factory insertions; an older failed request cannot insert a late
\* obstacle after a successful correction or Clear."  While a scene is applied, no
\* scene model enters the world.  The code drains nothing: RealizeBatch refuses names
\* that are abandoned (1203-1207) and returns at once without additions (1199-1200).
LateNeverEnters == [][~suspended /\ epoch # NoEpoch => world' \subseteq world]_vars

\* What README.md:111 says of a full snapshot ("repairs" a partial application):
\* after a successful application no model of a failed one is left.
RepairedIsExact == ~suspended => leftover \cap world = {}
=============================================================================
