# Verification of the XGC2 Gazebo scene host

TLA+ modules, TLC runs and TLAPS proofs about `xgc2_gazebo_scene`, the native
simulation service that runs inside Gazebo Classic, and about the plugins beside it.
Line numbers refer to `src/xgc2_gazebo_scene/src/` unless a path is given; `service` is
`simulation_service.cpp`, `scene` is `native_scene_controller.cpp`, `sensors` is
`native_sensor_controller.cpp`.

## 1. The system

| Component | State | Operations | Interacts with |
|---|---|---|---|
| Operation receipts (`service` 887-1167, 1596-1629) | 128 slots with a phase, `queue_`, held replies, counters | submit, query, cancel, wait, drain, execute, stop | HTTP server, worker |
| Worker wake-up (`service` 322-346, 370-394, 415-441, 960-970, 1713-1762) | `queue_cv_`, flags, deadlines | test, wait, notify | all threads |
| Entity table and creates (`service` 1168-1178, 1429-1459, 1492-1586, 1630-1712) | 256 entities, `pending_creates_`, receipts | create, remove, complete | Gazebo's factory, sensors, chassis |
| Describe and health (`service` 521-640, 911-959; `native_component_binding.hpp`) | component states and revisions, observers | attach, report, describe, observe | components |
| Scene controller and `ApplyScene` (`scene`, `service` 1197-1398) | epoch, revision, suspended, models, abandoned models | apply, motion, sample | factory, physics thread |
| World, entity motion (`service` 1460-1594, `native_entity_motion.cpp`) | clock, pause, motions, placements | play, pause, reset, place, remove | physics thread |
| Sensor controller (`sensors`) | 32 records, acknowledgement states | create, configure, remove | sensor plugins |
| Chassis HOLD host (`chassis_hold.cpp`, `chassis_command_queue.cpp`) | seats, roster, stamps | reserve, enroll, close, admit, tick | physics, ROS |
| ROS master watch (`ros_master_registration.cpp`) | master identity, registrations | probe, register, stop | ROS |
| ROS data plugin (`simulation_ros_data_plugin.cpp`) | requested flag, eventfd | request, publish, stop | ROS, physics |
| Contact monitor (`gazebo_scene_system_plugin.cpp`, `physical_contact_filter.cpp`) | latch, model table | contact, reset, refresh | Gazebo transport |
| Scene compiler (`scene_model.cpp`, `scene` 290-380) | none | compile, verify | scene controller |
| Obstacle animation (`obstacle_path_plugin.cpp`) | key frames | load | physics |
| Startup, indexes, lidar, rendering, clients, assets | see section 7 | | |

Threads: one **IO** thread runs every HTTP handler (each begins with a whole `Drain`)
and polls every 25 ms; one **worker** (`Work`) executes commands one at a time and then
passes over the pending creates; **Gazebo's** factory, sensor and physics threads
acknowledge natively; a HOLD tick thread, the thread that dispatches ROS callbacks, the
watcher of the master and the data worker run beside them. Nothing is persisted, so
that there is no crash recovery; the stop is the failure that every component handles.

What is hard: wake-ups through one condition variable; receipts that end (cancelled,
out of time, stopped) while the native effect goes on; answers in any order from three
sources; slots, entities, IDs, names and records that are reused while answers to their
former owners are on the way; one operation made of several critical sections, with
physics or another model between them; `stopping_` read without a lock.

Correctness, per component: *receipts*: one slot per operation, one receipt per request
ID, immutable once terminal, true about effects, reached by every operation; *worker*:
never asleep over work; *entities*: a reservation belongs to one create until its model
or its removal, success means the whole robot; *health*: revisions never fall and wake
whoever waits for them; *scene*: a reported scene is the physical one, epochs never
return, a late model of a failed application never stays; *world*: physics never moves
what a command placed or removed, scene time is continuous; *sensors*: a record until
the release is confirmed, none beyond its entity; *chassis*: an ID bound to one model, a
held model stands, no command from before the last release; *ROS*: a replaced master
ends the process, no callback for an owner that left, no wake-up lost; *contacts*: no
collision of known models is missed and none is reported wrongly; *compiler*: the space
of the document's parts and no other; *animation*: closed, at its pace, through its
waypoints.

`PROJECT.json` lists the components, the hazards with the properties aimed at them, and
for each definition the lines that it stands for.

## 2. Modules

**Receipts.** `OperationLog` is the promise of the receipts alone: requests get a
receipt, it becomes terminal once, and a retained request ID is executed once.
`Operations` has the slots of the code (`phase`, `queue`, `pending`, `waiters`) and, as
history, whether a command ran. The IO thread's place is `io` (a handler is `Drain`,
then its own step), the worker's is `worker`, with the two stores that end a command
(`phase`, then `--pending_`) as two steps. It implements `OperationLog`.

**Wake-ups.** `WorkerWake` splits the worker at its test of the flags (1729), its wait
(1730) and its return, holding `queue_mutex_` from the computation of the deadline to
the wait. Each sender is split into its store and its notification, with the mutex
where the code takes it; a sensor callback notifies after it unlocked. `late` is the set
of callbacks between the two, `alarm` the creates whose cancellation this wait's
deadline knows of. Wake-ups without cause are allowed.

**Creates.** `EntityCreates` has the entity table, `pending_creates_` (`pendingAt`,
`attached`, `arrived`), receipts, the sensor records of created models and the chassis
roster. The pass over the pending creates is one step per test of `stopping_`, so that
the stop comes between them: `Look` (copy of the entry), `TestDue` (1657-1671), one of
`Settle...` (1672-1710). Commands other than create and remove leave the table alone
and are `OtherCommand`.

**Scene.** `SceneApply` has the fence of `NativeSceneController::Execute`, the
replacement of models by the worker and a factory that answers at any time or never.
Models carry the number of their application (`try`), which the code does not see: it
knows names only. `Suspend` is the first critical section, `Commit` the second; a batch
goes through removals, insertions, the wait, the verification (which may fail after any
name) and the installation. `Withdraw` removes what came and abandons what did not,
`Sweep` is the removal of late models in the worker's pass. A late model that is in the
world and not swept yet is in `ready`.

**World.** `WorldControl` has the clock, the pause, the motions of independent obstacles
(`entry` with its generation) and the scene's time (`elapsed`, `started`, `playing`).
Commands that take several critical sections are several steps; `Tick` is the physics
thread, whose two `try_lock`s may each fail. A pose is who placed it last.

**Sensors.** `SensorRecords` has the records, the native sensors and the registry of
acknowledgements. A sensor is the number of its creation (its token and generation).
The wait of a command is `testing` or `asleep`: `Notify` of a cancellation or a stop
comes separately from its store.

**Chassis.** `ChassisSeats` has the host's map, the domain's roster, the models and the
queue of ROS callbacks. The close is three steps (`CloseSeat`, `Unroster`, `Erase`); a
dispatch and a control step hold the seat's mutex from the question to the domain
(`dispatching`, `controlling`) to the write.

**ROS.** `RosLink` has the watcher (its place in the loop), the registrations (`owner`,
`armed`, `applied`, `calling`), masters that come and go, and the data source with its
coalesced wake-ups (`requested`, `signal`), its worker and its stop.

**Health.** `ComponentHealth` has the state, revision and attachment of each component,
the owners that change them by separate stores, the IO thread that loads them one by one
(`at`, `view`), and held clients.

**Plugins.** `ContactMonitor` (table, snapshot, messages in flight, latch),
`ObstaclePath` (waypoints to key frames, over integer distances) and `SceneCompiler`
(document to models, and the verification of what Gazebo made; poses are heights, solids
are sets of points) share no state; `MCPlugins` explores each from its own initial
states. Histories of `ContactMonitor` are the contacts that are owed a verdict (`owed`)
and how many messages in flight are older than the last reset (`before`).

The `MC...` modules instantiate them for TLC, the `...Proofs` modules hold the theorems.
`Mutant of ...` comments mark variants that a run uses to show that its property depends
on the definition; no action uses them.

## 3. Runs

| Run | Question | Bounds |
|---|---|---|
| `operations` | Slots, receipts and counters (`IInv`) under all interleavings with cancel, deadline and stop; do they implement `OperationLog`? | 2 slots, 2 requests, queue limit 1: the limit is reached, a slot is reused |
| `operations_live` | Does every accepted operation end, also when the factory never answers; does a queued cancel win; is every wait counted and answered? | 1 slot, 2 requests, 2 clients, waiter limit 1 |
| `worker` | Is a wake-up or a scene change lost while the worker decides to wait? Is every command taken, every create closed? | 1 command with a model and a sensor that notifies late; or 1 observer and 1 change of the scene, with a command that nothing but its cancellation ends |
| `worker_stop` | Does the join of the stop return? **No** | 1 command with a model and a sensor |
| `entity_creates` | Reservations, records, receipts, success and reconciliation with late and lost answers | 3 creates (2 of one ID), 1 entry, 1 sensor record: conflict and both exhaustions occur |
| `scene_apply` | Is an applied scene the physical one, are epochs fenced, are late models fenced and swept? | 2 obstacles and the ground, 2 documents, 2 epochs with 1 retired, 2 revisions, 3 entities, 3 applications: a failed one, its correction and a third that meets both |
| `world_control` | Does physics respect placements, removals and the pause? Is scene time right? | 2 obstacles, 2 generations, 1 motion entry, 2 clock steps, 1 rewind, symmetry of the obstacles |
| `sensor_records` | Records against native sensors, entities and stale commands; does every wait end? | 1 client ID, 1 parent, 2 records, 3 creations, 2 revisions: the table is full, an ID is reused |
| `chassis_seats` | One model per robot, a truthful roster, holds that hold, no stale command | 2 models of 1 robot, 3 clock steps, 2 queued callbacks |
| `ros_link` | Registrations, replaced masters, published data, the stop | 2 owners, 3 masters, two of them with one PID, 2 senders, 1 clock step |
| `component_health` | Owners that come and go; revisions that observers wait for | 1 component, 2 owners, 1 client, observer limit 1, 3 reports |
| `plugins` | Animation, contact verdict, compilation and verification | paths of up to 4 corners of a 3 by 4 rectangle; 3 models and 2 messages; a family of documents with every single damage |

Two actors compete for each resource, and each limit of a table is reached except the
sixteen-client refusals of health (one client cannot exceed a limit of one) and the 512
registrations of the watcher. The constants that bound the model and not the code
(`MaxTime`, `MaxTries`, `MaxRewinds`, `MaxSensors`, ...) are named so where they are
declared, and the theorems hold for all their values. The revisions of health are bounded
by 3, so that an owner leaves and the next one attaches and reports.

In `ros_link` the environment exercises one part at a time: two owners with a master and
its replacement, or all three masters, or the data under a master that answers; in
`worker` the scene or the native answers (`SpecOfOne` of `MCRosLink` and `MCWorkerWake`).
Only steps that no fairness demands are held back. The parts of the link meet in the
registration of the data source, which is in all, those of the worker in its cycle.

Runs whose cfg says `CHECK_DEADLOCK FALSE` really end: their requests, tries or clock
steps are used up, or the stop has ended the last thread. `entity_creates` and the
worker's runs are checked for deadlock.

An invariant that a run names is often the conjunction of a type invariant and of named
parts, each stated and explained in its module: `IInv`, `EntityInv`, `WakesAgree`
(`NoLostWake`, `RequestKept`), `BatchAgrees` (`AwaitedIsOwn`, `InstallFits`),
`LateIsAccounted` (`NoOrphan`, `LateIsApart`), `RecordsAgree` (`NoOrphan`, `GoneWithParent`), `SeatsAgree` (`OneModelPerRobot`,
`RosterIsEnrolled`, `QueueIsKept`), `LinkAgrees` (`NoneForgotten`, `DataIsCurrent`, `StoppedIsQuiet`),
`WorldAgrees` (`EntriesLive`, `PauseIsAsked`), `HealthAgrees`,
`AnimationIsSound`, `CompiledIsExact`; `SceneClock` is a conjunction of action properties,
`VerdictAgrees` is one of the invariant `CollisionIsReported` and the action property
`NoFalseVerdict`, `ReplacementEnds` one of the action property `BoundForGood` and two
liveness properties.

### What the runs found

* **Stop can hang** (`worker_stop`). `Stop` sets `stopping_` (371) and notifies (388)
  without `queue_mutex_`. A worker between its test (1729) and its wait (1730) misses
  both; without an open create it waits without a deadline, and `worker_.join()` waits
  for it. The sensor callback of the same class locks for exactly this reason (324).

The modules also state expectations that the code does not meet and that no run holds
against it. To see a counterexample, put the name into the cfg of the module (under
`PROPERTIES`, or `INVARIANTS` for the two marked with *i*):

* `ObserverAnswered` (WorkerWake): the observe handler (968) and the physics callback
  (341) notify without the mutex, so that a scene observer can wait until its deadline.
* `SucceededIsRealized` (EntityCreates): `stopping_` set between 1657 and 1676 ends a
  create as succeeded without a model.
* `UnboundIsUnavailable` (EntityCreates): `docs/chassis-hold.md:48-49` promises
  `unavailable`, the code answers `deadline_exceeded` (1665), and a test asserts that.
* `KeptIsRemovable` (EntityCreates, with `RetrySpec`): an entity whose sensor was
  released before the create named it makes every DELETE of its parent fail (1702).
* `RepairedIsExact` (SceneApply, *i*): when the verification of one name fails, the
  models of the names after it stay in the world, unknown to the table (1365); README.md
  of the package (111) says that a full snapshot repairs.
* `LateNeverEnters` (SceneApply): README.md of the package (113-114) says that a correction
  first drains outstanding insertions, and that an older failed request cannot insert a
  late obstacle after a successful correction or clear. `RealizeBatch` drains nothing: it
  refuses a name that is still abandoned (1199-1207), and a clear, or a correction with
  other names, is applied meanwhile. Gazebo then makes the abandoned model, which stands in
  the world until the worker's pass removes it (1640-1645). `LateIsAccounted` and
  `LateSwept` say what does hold: the model is nobody's until then, and it goes.
* `VerdictIsOfEpoch` (ContactMonitor; `MCPlugins.cfg`): README.md of the package (147-149)
  says that a reset clears status and detail, "defining a fresh physical-regression
  epoch". `OnContacts` judges every message alike (`gazebo_scene_system_plugin.cpp:154`),
  and one that the transport delivers after the reset latches the verdict of the new epoch.
* `HeldIsUnchanged` (ComponentHealth, *i*): health loads a state before its revision
  (527) and an owner stores the state first; an observer can be held at a revision whose
  state it has not seen, until the next report.

Further observations from the modelling, without a statement of the repository against
them: a reset of entities with `reset_time` and without the scene leaves a playing scene
frozen until the clock has passed its start (`rewound` of WorldControl); a ground that is
kept is not verified again on a retry (1295-1304, 1372); a sensor ID chosen by a client
may equal the generated `attached-<n>` of another record (`sensors` 392), which the
generation of fenced requests tells apart; a failed sensor creation leaves a tombstone
that reports revision 1 as applied without a configuration; a contact message before the
first update meets an empty table (`gazebo_scene_system_plugin.cpp:126-131`), and one whose
models change before its delivery is judged by their roles at the delivery; a ROS master
that is replaced between the two calls of a probe leaves the watcher with the PID of the
one and the run ID of the other (`ros_master_registration.cpp:213-236`); of an authored
resource only that it stands still at its place is verified (`scene_model.cpp:629-633`).

## 4. Fairness

* `Operations`: weak fairness of the IO thread (it polls with a bound) and of the worker
  (it never waits for a native answer without a deadline); deadlines pass; strong
  fairness of `Drain`, which handlers keep disabling and every poll repeats.
* `WorkerWake`: the same, and a wait that has a deadline fires. A callback that began
  takes its mutex in the end: strong fairness, because the worker holds the mutex again
  and again. Nobody is obliged to answer, to cancel or to ask.
* `EntityCreates`: the worker keeps passing over the pending creates (weak fairness of
  the pass and of `OtherCommand`); that it is woken is what `WorkerWake` shows.
* `SceneApply`: the worker progresses and the deadline of a batch passes; Gazebo's
  factory, clients and the stop are free.
* `SensorRecords`: the worker progresses and who stored a cancellation or the stop
  notifies. `Interrupted` holds without the deadline and without any answer of Gazebo.
* `ChassisSeats`: a dispatch and a control step that began end; the tick, which runs
  every 10 ms, gets the seat's mutex among them (strong fairness).
* `RosLink`: the watcher, its period, the data worker and a sender that began progress;
  the stopper gets its locks and a probe that can be answered is answered in the end
  and its run ID is read in the end (strong fairness: masters that keep vanishing disable
  all of these again and again).
* `ComponentHealth`: the IO thread ends what it began, drains between requests and is
  joined between polls. `WorldControl` and the plugins have safety properties only.

## 5. Proofs

All for every value of the constants, from the named ASSUMEs of the modules alone
(finite sets, limits that are natural numbers, identities that are not members of the
sets, documents that their schema accepts). TLC checks the properties on the small
instances, TLAPS proves all of the safety properties of the runs without a
bound. Each proof goes through an inductive invariant, because the properties do not
follow from themselves step by step:

* `OperationsProofs`: `IInv`. That a slot has one owner needs the exact place of the
  worker (`WorkerState`), and what a receipt says of effects needs the history of runs.
  There is a lemma per step, shared where several steps end a command (`CompleteStep`);
  `QuiescedAtEnd` follows. `SlotsImplementLog` is the refinement: under `IInv` every
  step maps to a step of `OperationLog` or to a stutter. It also needs that a
  receipt reports an end exactly when its slot is retained (`ReportedStates`).
* `WorkerWakeProofs`: `NoLostWake` needs that an answer that is complete has a visit to
  come (`WakeInv`), `RequestKept` that a held observer makes the scene active
  (`RequestInv`).
* `EntityCreatesProofs`: `EntityInv` adds that a pass visits pending creates once and
  that a slot is attached exactly while its receipt is open; with it `ReceiptsFinal`, and
  `OkIsWhole`, which needs that a record is of a sensor that was staged for it
  (`SensorKnown`).
* `SceneProofs`, the application: `SceneInv`. `AppliedIsWhole` speaks of rest; in between an
  application must keep that the fence was passed (`FencePassed`), that the models of
  the world are told apart by what they are for (`ModelsApart`), that what is stale is
  gone before the insertion (`StaleGone`), that the batch is what the document wants
  (`BatchKept`), and that every unanswered model is awaited or abandoned
  (`UnansweredKnown`). From it `AwaitedIsOwn`, `NoOrphan`, `LateIsAccounted`, `InstallFits`
  and the action property `EpochFence`.
* `SceneProofs`, the compiler: `CompilerInv` says that what was consumed is the document
  whole, and that what was made is one of its models with one damage at most. The steps
  are few; the work is in the data. `CompiledIsExact` needs that the ends and the shaft of
  a capsule together are the points within a radius of its axis (`CapsuleIsUnion`, by
  the nearest point of the segment), that flattening the collisions of the parts loses and
  confuses none (`Flattened`, `FlattenedApart`), and that names follow from identities.
  `VerdictIsExact` needs that equally many collisions, of which each expected one is
  found, are the expected ones (`PartsAreMeant`), and that a damaged collision that
  matches is what was meant (`Tells`). Folds are followed by `LeastNumber`: a set of
  numbers for which a fact fails has a least one.
* `SceneProofs`, the animation: `PathsAreSound`. One step makes the whole animation, so
  that the invariant is the property itself and the work is again in the data, which the
  code computes in loops. `Recursion` shows, by counting up to the length (`UpTo`), that a
  loop that starts somewhere and takes its steps defines a function; with it the times of
  the poses (`KnotsAre`), the kept frames (`FramesAre`) and the places visited
  (`VisitsAre`) are known step by step. A segment takes no time exactly when its ends are
  the same pose (`DurationIs`), so that of frames with one time any may stand for all, and
  what is left is driven and passes the same places (`FramesDrive`). That the poses
  face where they drive and close is `RoundWithAngle`; that the path passes the waypoints
  there and back is `ClosedIs`. Assumed are a bearing in (-180, 180] degrees, a positive
  distance between different points, and positive speeds, which the code checks.
* `SensorRecordsProofs`: `SensorInv`: a number is given to one record only and a released
  sensor is gone (`RecordsKnown`), and a removal that works through an entity holds every
  record of it in `todo` or in hand (`Working`). From it `NoOrphan`, `GoneWithParent`,
  `Fenced`.
* `WorldControlProofs`: `WorldInv`: bounds of scene time, live entries, no entry for what
  a command placed (`PlacedStill`), the pause of a reset and its resumption
  (`PauseKept`), and what a suspended or paused scene keeps (`SceneKept`). From it
  `PauseIsAsked`, `PlacedHolds`, and the three parts of `SceneClock`.
* `RosLinkProofs`: `RosInv`: where the watcher is when an owner is armed and not yet
  called (`LinkKept`), and where a wake-up is on its way (`DataKept`). From it
  `NoneForgotten`, `NeverAfterRemoval`, `DataIsCurrent`, `StoppedIsQuiet`. `BindingKept`
  (who has a run ID has a PID) gives `BoundForGood`, the safety half of `ReplacementEnds`.
* `HostProofs`, three parts beside the service:
  - *Chassis*: `SeatsInv`: the map, the roster and the holders of the seats' mutexes. From
    it `OneModelPerRobot`, `RosterIsEnrolled`, `HeldIsZero`, `ClosedIsSilent`. `QueueInv`
    is about the queue alone: a callback is of a seat that has a message, which is at
    least as new as the callback and no newer than the clock, and a seat has one callback
    at most. From it `SeatsAgree`, `AdmittedIsFresh`.
  - *Health*: `OwnersInv`: a component has one owner at a time, and shows what it said.
    From it `HealthAgrees`. The revision of the host is a sum over the components that the
    IO thread loads one by one. `RevisionInv` keeps partial sums as
    witnesses (`Sums`), each of which adds no more than a component's present revision:
    what was read is bounded by one of them, and what a client has seen by what is read
    with the rest of one. From it `RevisionNeverFalls`.
  - *Contacts*: `ContactInv`: the table is that of the snapshot (`TableFits`), and a
    contact that is owed a verdict is of two models that the snapshot has as they are
    (`KnownFits`). From it `CollisionIsReported`. What the table forbids of known models is
    a collision by the documented roles (`ForbiddenIsCollision`), from which
    `NoFalseVerdict`; the two are `VerdictAgrees`.

Only model-checked: all liveness, because it needs fairness and ENABLED, which are out of
the prover's reach. That is `AcceptedTerminates`, `QueuedCancelWins`, `WaitersAnswered`,
`HoldTakesEffect`, `LateReconciled`, `ObserversLearn`, `ReplacementEnds`, `StopEnds`,
`LateSwept`, `Interrupted`, `CommandTaken` and `OpenCreateCloses`. Where a
proof counts over data, no library theorem with an operator as parameter is needed:
`LeastNumber` and `UpTo` of `SceneProofs` take sets.

## 6. What remains

1. A composition of `EntityCreates` with `SceneApply` in one table, whose bound is shared
   (`others` of `SceneApply` is a constant count within one application).
2. The stage `stopped` of a chassis (feedback of standstill), and a new watcher that
   starts while the old one is being joined.
3. A client's held request (`python/`) over the receipts.

## 7. Not modelled

* Numeric code without interleavings: sine, linear and elliptic obstacle trajectories,
  the interpolation of scene and entity motions, convex meshes
  (`convex_mesh_geometry.cpp`), ray casting, projection and scan schedules of the lidar.
* JSON, XML-RPC, formatting and messages; sealed assets and mesh files; the length of
  the ROS back-off; Gazebo's rendering; the choice of the one world at startup and the
  reading of its configuration, which run once before any other thread.
* Client scripts, world assets, generators and packaging: sequential, data, or one-shot.
* Gazebo, the XRPC HTTP server, the HOLD domain and ROS are external; their behaviour is
  what this code relies on: a factory that may answer late or never, a server that
  completes each reply once, a domain whose tick writes and records as one step.
  Atomics are sequentially consistent in the models.
* Steps that the models merge: `SensorRecords` takes the release of the lock between the
  wait of a command and its lookup of the record as one step, because whatever happens
  there leaves the record in the same states; `RosLink` counts a snapshot that is refused
  (more than 256 models, a bad name) as tried, like the code, which does not repeat it.
* `EntityCreates` leaves out a DELETE of an attached sensor while its create is pending. It
  treats several sensors of a model like the first and leaves exceptions of `RemoveModel`
  out; `InsertModelSDF` that throws keeps its entity, as in the code.
