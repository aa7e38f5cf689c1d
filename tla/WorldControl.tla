----------------------------- MODULE WorldControl -----------------------------
(***************************************************************************)
(* Time and motion of a world: the physics thread that samples the scene's *)
(* trajectories and the motions of independent obstacles, and the worker   *)
(* that plays, pauses and resets them, resets or removes entities, pauses  *)
(* the world and rewinds its clock.                                        *)
(*                                                                         *)
(* The worker's commands that take several critical sections (reset, set   *)
(* state, remove) are several steps, between which physics goes on.        *)
(* A pose is abstracted to who placed it last; time is counted in steps.   *)
(***************************************************************************)
EXTENDS Integers, FiniteSets

CONSTANTS Ids,            \* independent obstacle entities
          EntryCap,       \* motion entries (256)
          MaxTime,        \* bound of the model: the clock
          MaxRewinds,     \* bound of the model: resets of the clock
          MaxGeneration   \* bound of the model: generations

ASSUME WorldControlAssumption ==
    /\ EntryCap \in Nat /\ MaxTime \in Nat /\ MaxRewinds \in Nat
    /\ MaxGeneration \in Nat
    /\ IsFiniteSet(Ids)

Absent == 0
NoEntry == [generation |-> Absent, start |-> 0]
Entries == [generation : 0..MaxGeneration, start : 0..MaxTime]
MaxElapsed == MaxTime * (MaxRewinds + 1)

VARIABLES
    paused, clock, epoch, generation,      \* the world
    entity, place, entry,                  \* entities and their motions
    playing, elapsed, started, sampled,    \* the scene's motion
    suspended, serial,
    worker, selected, rewind, resume,      \* the command in progress
    asked, failed, rewound                 \* history, read by properties only

worldVars == <<paused, clock, epoch>>
sceneVars == <<playing, elapsed, started, sampled, suspended, serial>>
entityVars == <<generation, entity, place, entry>>
commandVars == <<worker, selected, rewind, resume>>
historyVars == <<asked, failed, rewound>>
vars == <<worldVars, entityVars, sceneVars, commandVars, historyVars>>

TypeOK ==
    /\ paused \in BOOLEAN /\ clock \in 0..MaxTime /\ epoch \in 0..MaxRewinds
    /\ generation \in 0..MaxGeneration
    /\ entity \in [Ids -> 0..MaxGeneration]
    /\ place \in [Ids -> {"none", "initial", "set", "driven"}]
    /\ entry \in [Ids -> Entries]
    /\ playing \in BOOLEAN /\ suspended \in BOOLEAN
    /\ elapsed \in 0..MaxElapsed /\ started \in 0..MaxTime
    /\ sampled \in 0..MaxElapsed
    /\ serial \in {0, 1}
    /\ worker \in {"idle", "reset", "paused", "resume", "resetEntity", "setState", "remove"}
    /\ selected \in SUBSET Ids /\ rewind \in BOOLEAN /\ resume \in BOOLEAN
    /\ asked \in BOOLEAN /\ failed \in BOOLEAN /\ rewound \in BOOLEAN

Init ==
    /\ paused = FALSE /\ clock = 0 /\ epoch = 0 /\ generation = 0
    /\ entity = [i \in Ids |-> Absent] /\ place = [i \in Ids |-> "none"]
    /\ entry = [i \in Ids |-> NoEntry]
    /\ playing = FALSE /\ elapsed = 0 /\ started = 0 /\ sampled = 0
    /\ suspended = FALSE /\ serial = 0
    /\ worker = "idle" /\ selected = {} /\ rewind = FALSE /\ resume = FALSE
    /\ asked = FALSE /\ failed = FALSE /\ rewound = FALSE

-------------------------------------------------------------------------------
Live == {i \in Ids : entity[i] # Absent}
Moving == {i \in Ids : entry[i] # NoEntry}
Since(now, start) == IF now > start THEN now - start ELSE 0
Time(now) == elapsed + (IF playing THEN Since(now, started) ELSE 0)
\* change_serial, of which clients only see that it changed.
Bumped == 1 - serial

\* The physics thread.  A busy mutex makes an update skip its samples.
Advance(scene, motion) ==
    /\ clock < MaxTime
    /\ clock' = clock + 1
    /\ IF scene /\ ~suspended
       THEN /\ sampled' = Time(clock')
            /\ serial' = IF playing /\ sampled # Time(clock') THEN Bumped ELSE serial
       ELSE UNCHANGED <<sampled, serial>>
    /\ place' = [i \in Ids |-> IF motion /\ i \in Moving THEN "driven" ELSE place[i]]
    /\ UNCHANGED <<paused, epoch, generation, entity, entry, playing, elapsed, started,
                   suspended, commandVars, historyVars>>

Tick(scene, motion) == ~paused /\ Advance(scene, motion)

\* Step: the worker runs a paused world; nothing else holds a mutex.
Step == worker = "idle" /\ paused /\ Advance(TRUE, TRUE)

-------------------------------------------------------------------------------
(***************************************************************************)
(* The scene's motion.                                                     *)
(***************************************************************************)
\* Mutant of SceneMotion: a pause forgets the time that was played.
SceneMotionOldTime(operation) ==
    /\ worker = "idle" /\ ~suspended
    /\ elapsed' = IF operation = "reset" THEN 0 ELSE elapsed
    /\ started' = clock
    /\ playing' = (operation = "play")
    /\ sampled' = elapsed' /\ serial' = Bumped /\ rewound' = FALSE
    /\ UNCHANGED <<worldVars, entityVars, suspended, commandVars, asked, failed>>

\* A motion command of the applied revision.
SceneMotion(operation) ==
    /\ worker = "idle" /\ ~suspended
    /\ elapsed' = IF operation = "reset" THEN 0 ELSE Time(clock)
    /\ started' = clock
    /\ playing' = (operation = "play")
    /\ sampled' = elapsed'
    /\ serial' = Bumped
    /\ rewound' = FALSE
    /\ UNCHANGED <<worldVars, entityVars, suspended, commandVars, asked, failed>>

\* An application suspends the samples; its commit restarts a new epoch's time.
Suspend ==
    /\ worker = "idle"
    /\ suspended' = TRUE /\ serial' = Bumped
    /\ UNCHANGED <<worldVars, entityVars, playing, elapsed, started, sampled, commandVars,
                   historyVars>>

Commit(fresh) ==
    /\ worker = "idle" /\ suspended
    /\ suspended' = FALSE
    /\ IF fresh
       THEN elapsed' = 0 /\ started' = clock /\ playing' = FALSE /\ rewound' = FALSE
       ELSE UNCHANGED <<elapsed, started, playing, rewound>>
    /\ sampled' = IF fresh THEN 0 ELSE Time(clock)
    /\ serial' = Bumped
    /\ UNCHANGED <<worldVars, entityVars, commandVars, asked, failed>>

\* NativeSceneController::Reset, of a reset of the whole world.
ResetScene ==
    /\ elapsed' = 0 /\ started' = clock /\ playing' = FALSE
    /\ sampled' = IF suspended THEN sampled ELSE 0
    /\ serial' = Bumped
    /\ UNCHANGED suspended

-------------------------------------------------------------------------------
(***************************************************************************)
(* Entities.                                                               *)
(***************************************************************************)
Create(i) ==
    /\ worker = "idle" /\ i \notin Live /\ generation < MaxGeneration
    /\ generation' = generation + 1
    /\ entity' = [entity EXCEPT ![i] = generation']
    /\ place' = [place EXCEPT ![i] = "initial"]
    /\ UNCHANGED <<worldVars, entry, sceneVars, commandVars, historyVars>>

\* Motions of a batch: all references are resolved before any is changed.
SetMotion(batch) ==
    /\ worker = "idle" /\ batch # {} /\ batch \subseteq Live
    /\ Cardinality(Moving \cup batch) <= EntryCap
    /\ entry' = [i \in Ids |-> IF i \in batch THEN [generation |-> entity[i], start |-> clock]
                               ELSE entry[i]]
    /\ place' = [i \in Ids |-> IF i \in batch THEN "driven" ELSE place[i]]
    /\ UNCHANGED <<worldVars, generation, entity, sceneVars, commandVars, historyVars>>

\* Remove(id, generation) of the motions, which a reset of an entity is too.
Retire(batch) ==
    [i \in Ids |-> IF i \in batch /\ entry[i].generation = entity[i] THEN NoEntry ELSE entry[i]]

Begin(phase, batch) == worker' = phase /\ selected' = batch

\* Mutant of BeginPlace: the motion of the entity is not ended first.
BeginPlaceMoving(phase, i) ==
    /\ worker = "idle" /\ i \in Live
    /\ phase \in {"resetEntity", "setState"}
    /\ Begin(phase, {i})
    /\ UNCHANGED <<worldVars, entityVars, sceneVars, rewind, resume, historyVars>>

\* Reset of the entity, or its state set: its motion ends first.
BeginPlace(phase, i) ==
    /\ worker = "idle" /\ i \in Live
    /\ phase \in {"resetEntity", "setState"}
    /\ entry' = Retire({i})
    /\ Begin(phase, {i})
    /\ UNCHANGED <<worldVars, generation, entity, place, sceneVars, rewind, resume,
                   historyVars>>

\* The chassis of an entity can refuse to be zeroed, before it is placed.
Place(zeroed) ==
    /\ worker \in {"resetEntity", "setState"}
    /\ worker = "setState" => zeroed
    /\ place' = [i \in Ids |-> IF i \notin selected \/ ~zeroed THEN place[i]
                               ELSE IF worker = "setState" THEN "set" ELSE "initial"]
    /\ Begin("idle", {})
    /\ UNCHANGED <<worldVars, generation, entity, entry, sceneVars, rewind, resume,
                   historyVars>>

\* Sensors and chassis of the entity end, then its motion and its model.
BeginRemove(i) ==
    /\ worker = "idle" /\ i \in Live
    /\ Begin("remove", {i})
    /\ UNCHANGED <<worldVars, entityVars, sceneVars, rewind, resume, historyVars>>

\* Mutant of Remove: the motion of the entity stays.
RemoveModelOnly ==
    /\ worker = "remove"
    /\ entity' = [i \in Ids |-> IF i \in selected THEN Absent ELSE entity[i]]
    /\ place' = [i \in Ids |-> IF i \in selected THEN "none" ELSE place[i]]
    /\ Begin("idle", {})
    /\ UNCHANGED <<worldVars, generation, entry, sceneVars, rewind, resume, historyVars>>

Remove ==
    /\ worker = "remove"
    /\ entry' = Retire(selected)
    /\ entity' = [i \in Ids |-> IF i \in selected THEN Absent ELSE entity[i]]
    /\ place' = [i \in Ids |-> IF i \in selected THEN "none" ELSE place[i]]
    /\ Begin("idle", {})
    /\ UNCHANGED <<worldVars, generation, sceneVars, rewind, resume, historyVars>>

-------------------------------------------------------------------------------
(***************************************************************************)
(* Pause and reset of the world.                                           *)
(***************************************************************************)
SetPaused(p) ==
    /\ worker = "idle"
    /\ paused' = p /\ asked' = p /\ failed' = FALSE
    /\ UNCHANGED <<clock, epoch, entityVars, sceneVars, commandVars, rewound>>

BeginReset(batch, whole, time) ==
    /\ worker = "idle"
    /\ time => epoch < MaxRewinds
    /\ IF whole
       THEN batch = Live /\ ResetScene /\ entry' = [i \in Ids |-> NoEntry]
       ELSE batch # {} /\ batch \subseteq Live /\ entry' = Retire(batch) /\ UNCHANGED sceneVars
    /\ Begin("reset", batch)
    /\ rewind' = time
    /\ resume' = (time /\ ~paused)
    /\ rewound' = (rewound \/ (time /\ playing'))
    /\ UNCHANGED <<worldVars, generation, entity, place, asked, failed>>

PauseForReset ==
    /\ worker = "reset"
    /\ paused' = (paused \/ resume)
    /\ worker' = "paused"
    /\ UNCHANGED <<clock, epoch, entityVars, sceneVars, selected, rewind, resume, historyVars>>

\* Under the physics mutex the entities are reset one by one, then the clock.  A
\* chassis that cannot be zeroed ends the command in between.
ResetPlaces(done) ==
    /\ worker = "paused" /\ done \subseteq selected
    /\ place' = [i \in Ids |-> IF i \in done THEN "initial" ELSE place[i]]
    /\ IF done = selected
       THEN /\ worker' = (IF resume THEN "resume" ELSE "idle")
            /\ clock' = IF rewind THEN 0 ELSE clock
            /\ epoch' = IF rewind THEN epoch + 1 ELSE epoch
            /\ UNCHANGED failed
       ELSE /\ worker' = "idle"
            /\ failed' = (failed \/ resume)
            /\ UNCHANGED <<clock, epoch>>
    /\ UNCHANGED <<paused, generation, entity, entry, sceneVars, selected, rewind, resume,
                   asked, rewound>>

Resume ==
    /\ worker = "resume"
    /\ paused' = FALSE
    /\ worker' = "idle"
    /\ UNCHANGED <<clock, epoch, entityVars, sceneVars, selected, rewind, resume, historyVars>>

Command ==
    \/ \E operation \in {"play", "pause", "reset"} : SceneMotion(operation)
    \/ Suspend \/ \E fresh \in BOOLEAN : Commit(fresh)
    \/ \E i \in Ids : Create(i) \/ BeginRemove(i)
    \/ \E batch \in SUBSET Ids : SetMotion(batch)
    \/ \E i \in Ids, phase \in {"resetEntity", "setState"} : BeginPlace(phase, i)
    \/ Step \/ \E p \in BOOLEAN : SetPaused(p)
    \/ \E batch \in SUBSET Ids, whole \in BOOLEAN, time \in BOOLEAN : BeginReset(batch, whole, time)

Continue ==
    \/ \E zeroed \in BOOLEAN : Place(zeroed)
    \/ Remove
    \/ PauseForReset \/ \E done \in SUBSET selected : ResetPlaces(done) \/ Resume

Next ==
    \/ Command \/ Continue
    \/ \E scene \in BOOLEAN, motion \in BOOLEAN : Tick(scene, motion)

Spec == Init /\ [][Next]_vars

-------------------------------------------------------------------------------
(***************************************************************************)
(* Properties.                                                             *)
(***************************************************************************)

\* Physics never moves a model that left the world or belongs to a later entity
\* of the same ID (native_entity_motion.cpp:180-198, simulation_service.cpp:1558).
EntriesLive == \A i \in Moving : entry[i].generation = entity[i] /\ i \in Live

\* A physics step moves no entity that was reset or whose state was set after its
\* last motion (the promise of native_entity_motion.cpp:205-207), although the
\* motion ends and the entity is placed in two critical sections.
PlacedHolds ==
    [][clock' = clock + 1 =>
         \A i \in Ids : place[i] \in {"initial", "set"} => place'[i] = place[i]]_vars

\* A playing scene moves with the clock, at its pace, and a paused one stands
\* still, unless the clock was rewound by a reset that left the scene alone.
PlayingAdvances ==
    [][clock' = clock + 1 /\ ~rewound =>
         Time(clock)' = Time(clock) + (IF playing THEN 1 ELSE 0)]_vars

\* Every command continues the scene where it is, or stops it at its start: play
\* and pause are no jumps (native_scene_controller.cpp:528-531, 614-618).
NoJump ==
    [][clock' = clock =>
         Time(clock)' = Time(clock) \/ (Time(clock)' = 0 /\ ~playing')]_vars

\* The trajectories never move the scene's models unnoticed: every change of the
\* sampled scene time comes with a new serial, which wakes the observers.
SamplesMarked == [][sampled' # sampled => serial' # serial]_vars

\* Scene time follows the clock while the scene plays, stands while it does not, is
\* continuous over commands, and no change of it goes unnoticed.
SceneClock == PlayingAdvances /\ NoJump /\ SamplesMarked

\* Between commands the world is paused exactly when it was last asked to be,
\* unless a reset of time failed (simulation_service.cpp:1520-1591).
PauseIsAsked == worker = "idle" /\ ~failed => paused = asked

\* Motions and pause agree with the commands: no motion is left of an entity that is
\* gone, and no command leaves the world paused by itself (simulation_service.cpp:1514-1594).
WorldAgrees == TypeOK /\ EntriesLive /\ PauseIsAsked
=============================================================================
