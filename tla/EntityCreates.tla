----------------------------- MODULE EntityCreates -----------------------------
(***************************************************************************)
(* The entity table of a world and the creates that fill it.  A create     *)
(* reserves an entity, hands an SDF model to Gazebo's factory and stays    *)
(* pending until the model, its sensors and its chassis answered.  Its     *)
(* receipt can end earlier (cancelled, out of time, world stopped); the    *)
(* reservation is then kept, so that a late answer is reconciled with the  *)
(* table and not with the receipt.                                         *)
(*                                                                         *)
(* A create stands for its generation, its native model name (both are     *)
(* unique) and, when it has them, one sensor and one chassis plugin.       *)
(***************************************************************************)
EXTENDS Integers, FiniteSets

CONSTANTS Ops,          \* create commands
          Ids,          \* entity IDs
          IdOf,         \* the ID a create asks for
          Sensed,       \* creates whose model has a sensor
          Chassis,      \* creates whose model has a chassis plugin
          NumEntities,  \* kEntities
          SensorCap,    \* managed sensor records
          NoOp

ASSUME EntityCreatesAssumption ==
    /\ IdOf \in [Ops -> Ids]
    /\ Sensed \subseteq Ops /\ Chassis \subseteq Ops
    /\ NumEntities \in Nat /\ SensorCap \in Nat
    /\ NoOp \notin Ops
    /\ IsFiniteSet(Ops)

Table == 1..NumEntities
NoEntry == 0

VARIABLES
    \* entities_: the create that made the entity of a table entry, whose native
    \* model the entry points to, and native_ready.
    entity, model, ready,
    \* pending_creates_: the table entry reserved, is a slot attached, did the
    \* factory acknowledge.
    pendingAt, attached, arrived,
    receipt, cancelled, expired,
    \* Gazebo: the models, their sensors' AckState, the enrolled chassis.
    native, sensor, bound,
    \* NativeSensorController: occupied records, and those with a native name.
    records, named,
    stopping,
    \* Worker: its place, the create it visits, whether it saw a model, what is
    \* left of the pass.
    worker, visited, seen, left

tableVars == <<entity, model, ready>>
pendingVars == <<pendingAt, attached, arrived>>
receiptVars == <<receipt, cancelled, expired>>
nativeVars == <<native, sensor, bound>>
sensorVars == <<records, named>>
workerVars == <<worker, visited, seen, left>>
vars == <<tableVars, pendingVars, receiptVars, nativeVars, sensorVars, stopping,
          workerVars>>

Codes == {"ok", "cancelled", "deadline_exceeded", "unavailable", "conflict",
          "resource_exhausted", "internal"}
Pending == {o \in Ops : pendingAt[o] # NoEntry}

TypeOK ==
    /\ entity \in [Table -> Ops \cup {NoOp}]
    /\ model \in [Table -> Ops \cup {NoOp}]
    /\ ready \in [Table -> BOOLEAN]
    /\ pendingAt \in [Ops -> Table \cup {NoEntry}]
    /\ attached \in SUBSET Pending
    /\ arrived \in SUBSET Pending
    /\ receipt \in [Ops -> {"none", "open"} \cup Codes]
    /\ cancelled \in SUBSET Ops
    /\ expired \in SUBSET Ops
    /\ native \in [Ops -> {"none", "requested", "loaded", "acknowledged", "removed"}]
    /\ sensor \in [Ops -> {"none", "staged", "initialized", "released"}]
    /\ bound \in SUBSET Chassis
    /\ records \in SUBSET Sensed
    /\ named \in SUBSET records
    /\ stopping \in BOOLEAN
    /\ worker \in {"idle", "pass", "due", "settle", "ended"}
    /\ visited \in Ops \cup {NoOp}
    /\ worker \in {"due", "settle"} => visited \in Pending
    /\ seen \in BOOLEAN
    /\ left \in SUBSET Ops

Init ==
    /\ entity = [e \in Table |-> NoOp]
    /\ model = [e \in Table |-> NoOp]
    /\ ready = [e \in Table |-> FALSE]
    /\ pendingAt = [o \in Ops |-> NoEntry]
    /\ attached = {} /\ arrived = {}
    /\ receipt = [o \in Ops |-> "none"]
    /\ cancelled = {} /\ expired = {}
    /\ native = [o \in Ops |-> "none"]
    /\ sensor = [o \in Ops |-> "none"]
    /\ bound = {} /\ records = {} /\ named = {}
    /\ stopping = FALSE
    /\ worker = "idle" /\ visited = NoOp /\ seen = FALSE /\ left = {}

Occupied(e) == entity[e] # NoOp
Taken(id) == \E e \in Table : Occupied(e) /\ IdOf[entity[e]] = id

-------------------------------------------------------------------------------
(***************************************************************************)
(* Commands.  CompleteCreates follows every one of them.                   *)
(***************************************************************************)
BeginPass ==
    /\ worker' = "pass"
    /\ left' = Pending'
    /\ UNCHANGED <<visited, seen>>

\* The result of a command that created nothing.
RefuseCreate(o, code) ==
    /\ worker = "idle" /\ ~stopping
    /\ receipt[o] = "none"
    /\ \/ code = "conflict" /\ Taken(IdOf[o])
       \/ code = "resource_exhausted" /\ ~Taken(IdOf[o])
          /\ \/ \A e \in Table : Occupied(e)
             \/ o \in Sensed /\ Cardinality(records) >= SensorCap
    /\ receipt' = [receipt EXCEPT ![o] = code]
    /\ UNCHANGED <<tableVars, pendingVars, cancelled, expired, nativeVars, sensorVars,
                   stopping>>
    /\ BeginPass

\* The first entity that is not occupied.
FreeEntry(e) ==
    /\ e \in Table /\ ~Occupied(e)
    /\ \A f \in Table : f < e => Occupied(f)

\* The entity is reserved before the model is inserted; its sensor's record too.
Reserve(o, e) ==
    /\ worker = "idle" /\ ~stopping
    /\ receipt[o] = "none"
    /\ ~Taken(IdOf[o])
    /\ FreeEntry(e)
    /\ o \in Sensed => Cardinality(records) < SensorCap
    /\ entity' = [entity EXCEPT ![e] = o]
    /\ model' = [model EXCEPT ![e] = NoOp]
    /\ ready' = [ready EXCEPT ![e] = FALSE]
    /\ records' = IF o \in Sensed THEN records \cup {o} ELSE records
    /\ sensor' = [sensor EXCEPT ![o] = IF o \in Sensed THEN "staged" ELSE "none"]
    /\ UNCHANGED <<named, cancelled, expired, bound, stopping>>

Create(o, e) ==
    /\ Reserve(o, e)
    /\ pendingAt' = [pendingAt EXCEPT ![o] = e]
    /\ attached' = attached \cup {o}
    /\ native' = [native EXCEPT ![o] = "requested"]
    /\ receipt' = [receipt EXCEPT ![o] = "open"]
    /\ UNCHANGED arrived
    /\ BeginPass

\* InsertModelSDF throws: the entry leaves pending_creates_, the entity stays.
CreateThrows(o, e) ==
    /\ Reserve(o, e)
    /\ receipt' = [receipt EXCEPT ![o] = "internal"]
    /\ UNCHANGED <<pendingVars, native>>
    /\ BeginPass

\* RemoveParent succeeds: a sensor without a native name must be initialized
\* first, one with a name is removed until its release is acknowledged.
ReleaseSensors(o) ==
    /\ o \in records => o \in named \/ sensor[o] = "initialized"
    /\ records' = records \ {o}
    /\ named' = named \ {o}
    /\ sensor' = [sensor EXCEPT ![o] = IF o \in records THEN "released" ELSE @]

\* DELETE with o's generation: only the entity that o made, once it has a model.
Remove(o) ==
    /\ worker = "idle" /\ ~stopping
    /\ \E e \in Table :
          /\ entity[e] = o /\ model[e] # NoOp
          /\ entity' = [entity EXCEPT ![e] = NoOp]
          /\ model' = [model EXCEPT ![e] = NoOp]
          /\ ready' = [ready EXCEPT ![e] = FALSE]
          /\ native' = [native EXCEPT ![model[e]] = "removed"]
    /\ ReleaseSensors(o)
    /\ bound' = {p \in bound : IdOf[p] # IdOf[o]}
    /\ UNCHANGED <<pendingVars, receiptVars, stopping>>
    /\ BeginPass

\* The sensor's release is not acknowledged in time: it has its name now and goes
\* away later, the record and the entity stay.
RemoveHalfway(o) ==
    /\ worker = "idle" /\ ~stopping
    /\ \E e \in Table : entity[e] = o /\ model[e] # NoOp
    /\ o \in records /\ (o \in named \/ sensor[o] = "initialized")
    /\ named' = named \cup {o}
    /\ UNCHANGED <<tableVars, pendingVars, receiptVars, nativeVars, records, stopping>>
    /\ BeginPass

\* Any other command, or a wake-up without one.
OtherCommand ==
    /\ worker = "idle" /\ ~stopping
    /\ UNCHANGED <<tableVars, pendingVars, receiptVars, nativeVars, sensorVars,
                   stopping>>
    /\ BeginPass

-------------------------------------------------------------------------------
(***************************************************************************)
(* CompleteCreates.  stopping_ is read three times for each entry, and     *)
(* nothing keeps Stop from setting it in between.                          *)
(***************************************************************************)
Look(o) ==
    /\ worker = "pass" /\ o \in left
    /\ left' = left \ {o}
    /\ visited' = o
    /\ seen' = (o \in arrived)
    /\ worker' = "due"
    /\ UNCHANGED <<tableVars, pendingVars, receiptVars, nativeVars, sensorVars, stopping>>

\* Mutant of EndReceipt: the slot stays attached.
EndReceiptAttached(o, code) ==
    /\ receipt' = [receipt EXCEPT ![o] = code]
    /\ UNCHANGED <<tableVars, pendingVars>>

\* Mutant of EndReceipt: the pending entry goes with the slot.
EndReceiptForgotten(o, code) ==
    /\ receipt' = [receipt EXCEPT ![o] = code]
    /\ attached' = attached \ {o}
    /\ arrived' = arrived \ {o}
    /\ pendingAt' = [pendingAt EXCEPT ![o] = NoEntry]
    /\ UNCHANGED tableVars

\* Mutant of EndReceipt: the reserved entity is given back with the receipt.
EndReceiptUnreserved(o, code) ==
    /\ receipt' = [receipt EXCEPT ![o] = code]
    /\ attached' = attached \ {o}
    /\ entity' = [entity EXCEPT ![pendingAt[o]] = NoOp]
    /\ UNCHANGED <<model, ready, pendingAt, arrived>>

\* The receipt may be evicted and reused independently of a late answer.
EndReceipt(o, code) ==
    /\ receipt' = [receipt EXCEPT ![o] = code]
    /\ attached' = attached \ {o}
    /\ UNCHANGED <<tableVars, pendingAt, arrived>>

DueCode(o) ==
    IF stopping THEN "unavailable"
    ELSE IF o \in cancelled THEN "cancelled" ELSE "deadline_exceeded"

TestDue ==
    /\ worker = "due"
    /\ worker' = "settle"
    /\ IF visited \in attached /\ (stopping \/ visited \in cancelled \cup expired)
       THEN EndReceipt(visited, DueCode(visited))
       ELSE UNCHANGED <<receipt, pendingVars, tableVars>>
    /\ UNCHANGED <<cancelled, expired, nativeVars, sensorVars, stopping, visited, seen,
                   left>>

Settle ==
    /\ worker = "settle"
    /\ worker' = "pass" /\ visited' = NoOp /\ seen' = FALSE
    /\ UNCHANGED <<cancelled, expired, nativeVars, stopping, left>>

KeepPending ==
    UNCHANGED <<tableVars, pendingVars, receipt, sensorVars>>

SettleNoModel == Settle /\ ~stopping /\ ~seen /\ KeepPending

Bound(id) == \E p \in bound : IdOf[p] = id

\* Mutant of Awaiting: the chassis is not waited for.
AwaitingSensor(o) == o \in records /\ sensor[o] = "staged"

\* A sensor is not initialized yet, or the chassis is not in the roster.
Awaiting(o) ==
    \/ o \in records /\ sensor[o] = "staged"
    \/ o \in Chassis /\ ~Bound(IdOf[o])

SensorLost(o) == o \in records /\ sensor[o] = "released"

SettleAwaiting ==
    /\ Settle /\ ~stopping /\ seen
    /\ Awaiting(visited) /\ ~SensorLost(visited)
    /\ KeepPending

\* The entry is erased; an attached slot gets its result.
EraseWith(code) ==
    /\ pendingAt' = [pendingAt EXCEPT ![visited] = NoEntry]
    /\ attached' = attached \ {visited}
    /\ arrived' = arrived \ {visited}
    /\ receipt' = IF visited \in attached
                  THEN [receipt EXCEPT ![visited] = code] ELSE receipt

Attach(isReady) ==
    LET e == pendingAt[visited] IN
    /\ model' = [model EXCEPT ![e] = visited]
    /\ ready' = [ready EXCEPT ![e] = isReady]
    /\ UNCHANGED entity

SettleReady ==
    /\ Settle /\ ~stopping /\ seen
    /\ ~Awaiting(visited) /\ ~SensorLost(visited)
    /\ Attach(TRUE)
    /\ named' = named \cup ({visited} \cap records)
    /\ EraseWith("ok")
    /\ UNCHANGED records

\* A sensor went away during its initialization: the model is kept, not ready.
SettleLost ==
    /\ Settle /\ ~stopping /\ seen
    /\ SensorLost(visited)
    /\ Attach(FALSE)
    /\ EraseWith("unavailable")
    /\ UNCHANGED sensorVars

\* The world stops between two of the tests: reconcile gives up without an error,
\* or the sensor controller, which is stopped a little later, throws.
SettleStopped ==
    /\ Settle /\ stopping
    /\ \E code \in {"ok"} \cup {c \in {"unavailable"} : seen} : EraseWith(code)
    /\ UNCHANGED <<tableVars, sensorVars>>

EndPass ==
    /\ worker = "pass" /\ left = {}
    /\ worker' = "idle"
    /\ UNCHANGED <<tableVars, pendingVars, receiptVars, nativeVars, sensorVars, stopping,
                   visited, seen, left>>

\* No command follows the stop: one more pass, over what is pending.
Leave ==
    /\ worker = "idle" /\ stopping
    /\ UNCHANGED <<tableVars, pendingVars, receiptVars, nativeVars, sensorVars, stopping>>
    /\ \/ Pending # {} /\ BeginPass
       \/ Pending = {} /\ worker' = "ended" /\ UNCHANGED <<visited, seen, left>>

PassStep ==
    \/ \E o \in Ops : Look(o)
    \/ TestDue
    \/ SettleNoModel \/ SettleAwaiting \/ SettleReady \/ SettleLost \/ SettleStopped
    \/ EndPass
    \/ Leave

Command ==
    \/ \E o \in Ops : \/ \E code \in Codes : RefuseCreate(o, code)
                      \/ \E e \in Table : Create(o, e) \/ CreateThrows(o, e)
                      \/ Remove(o)
                      \/ RemoveHalfway(o)
    \/ OtherCommand

-------------------------------------------------------------------------------
(***************************************************************************)
(* The IO thread, the clock and Gazebo's threads.                          *)
(***************************************************************************)
Cancel(o) ==
    /\ receipt[o] = "open" /\ o \notin cancelled
    /\ cancelled' = cancelled \cup {o}
    /\ UNCHANGED <<tableVars, pendingVars, receipt, expired, nativeVars, sensorVars,
                   stopping, workerVars>>

Expire(o) ==
    /\ receipt[o] = "open" /\ o \notin expired
    /\ expired' = expired \cup {o}
    /\ UNCHANGED <<tableVars, pendingVars, receipt, cancelled, nativeVars, sensorVars,
                   stopping, workerVars>>

NativeStep == UNCHANGED <<tableVars, receiptVars, sensorVars, stopping, workerVars,
                          pendingAt, attached>>

\* The factory loads the model, its sensors and its plugins.
Load(o) ==
    /\ native[o] = "requested"
    /\ native' = [native EXCEPT ![o] = "loaded"]
    /\ NativeStep /\ UNCHANGED <<arrived, sensor, bound>>

\* The model plugin answers, in Gazebo's thread.
Acknowledge(o) ==
    /\ native[o] = "loaded"
    /\ native' = [native EXCEPT ![o] = "acknowledged"]
    /\ arrived' = IF ~stopping /\ o \in Pending THEN arrived \cup {o} ELSE arrived
    /\ NativeStep /\ UNCHANGED <<sensor, bound>>

Loaded(o) == native[o] \in {"loaded", "acknowledged"}

AcknowledgeSensor(o) ==
    /\ Loaded(o) /\ sensor[o] = "staged"
    /\ sensor' = [sensor EXCEPT ![o] = "initialized"]
    /\ NativeStep /\ UNCHANGED <<arrived, native, bound>>

ReleaseSensor(o) ==
    /\ Loaded(o) /\ sensor[o] \in {"staged", "initialized"}
    /\ sensor' = [sensor EXCEPT ![o] = "released"]
    /\ NativeStep /\ UNCHANGED <<arrived, native, bound>>

\* The chassis plugin joins the roster; an ID is bound to one model at a time.
Enroll(o) ==
    /\ o \in Chassis /\ Loaded(o) /\ ~Bound(IdOf[o])
    /\ bound' = bound \cup {o}
    /\ NativeStep /\ UNCHANGED <<arrived, native, sensor>>

Stop ==
    /\ ~stopping
    /\ stopping' = TRUE
    /\ UNCHANGED <<tableVars, pendingVars, receiptVars, nativeVars, sensorVars, workerVars>>

Done == worker = "ended" /\ UNCHANGED vars

Next ==
    \/ PassStep \/ Command
    \/ \E o \in Ops : \/ Cancel(o) \/ Expire(o)
                      \/ Load(o) \/ Acknowledge(o)
                      \/ AcknowledgeSensor(o) \/ ReleaseSensor(o) \/ Enroll(o)
    \/ Stop
    \/ Done

Spec == Init /\ [][Next]_vars

\* The worker runs, and is woken (module WorkerWake).
FairSpec == Spec /\ WF_vars(PassStep) /\ WF_vars(OtherCommand)

\* A client repeats its DELETE as long as it can succeed.
RetrySpec == FairSpec /\ \A o \in Ops : SF_vars(Remove(o))

-------------------------------------------------------------------------------
(***************************************************************************)
(* Properties.                                                             *)
(***************************************************************************)
\* A create that waits for its native answers keeps its entry of the table to
\* itself, also when its receipt has ended: the pointer in pending_creates_ never
\* reaches an entity that was given to another command.
PendingReserved ==
    \A o \in Pending : entity[pendingAt[o]] = o /\ model[pendingAt[o]] = NoOp

\* No sensor record outlives the entity its model was created for: RemoveParent
\* leaves nothing that keeps the shared capacity from later creates.
NoOrphanSensors ==
    \A o \in records : \E e \in Table : entity[e] = o

\* What these rest on: a pass visits pending creates, each at most once, and a slot
\* is attached to a create exactly as long as its receipt is open.
Visits ==
    /\ \A o \in attached : receipt[o] = "open"
    /\ worker \in {"pass", "due", "settle"} => left \subseteq Pending
    /\ worker \in {"due", "settle"} => visited \in Pending \ left

\* The entity table, the creates that wait for Gazebo and the sensor records agree: no
\* entry, record or receipt of a waiting create is given to another command.
EntityInv == TypeOK /\ PendingReserved /\ NoOrphanSensors /\ Visits

\* What a client was told of a create is final: no late answer changes it.
ReceiptsFinal ==
    [][\A o \in Ops : receipt[o] \in Codes => receipt'[o] = receipt[o]]_vars

\* While the world runs, "succeeded" means a model in the table with its sensors
\* initialized or gone again and a chassis of its ID in the roster.
OkIsWhole ==
    [][\A o \in Ops :
         receipt[o] = "open" /\ receipt'[o] = "ok" /\ ~stopping =>
            /\ \E e \in Table : entity'[e] = o /\ model'[e] = o /\ ready'[e]
            /\ o \in records => o \in named' /\ sensor[o] = "initialized"
            /\ o \in Chassis => Bound(IdOf[o])]_vars

\* A late answer is reconciled: a create whose receipt ended early and whose model,
\* sensors and chassis are there gets its entity, unless the world stops first.
LateReconciled ==
    \A o \in Ops :
       receipt[o] \in {"cancelled", "deadline_exceeded"} /\ native[o] = "acknowledged"
          /\ ~Awaiting(o)
       ~> (stopping \/ native[o] = "removed" \/ \E e \in Table : model[e] = o)

\* As the messages of the code and its README have it, a create succeeds with its
\* native model.  Stop between two readings of stopping_ makes it succeed without.
SucceededIsRealized ==
    [][\A o \in Ops :
         receipt[o] = "open" /\ receipt'[o] = "ok" =>
            \E e \in Table : entity'[e] = o /\ model'[e] = o]_vars

\* docs/chassis-hold.md: a create whose chassis plugin did not bind fails with
\* unavailable.
UnboundIsUnavailable ==
    [][\A o \in Chassis :
         /\ receipt[o] = "open" /\ receipt'[o] # "open"
         /\ o \in arrived /\ o \notin cancelled /\ ~Bound(IdOf[o])
         => receipt'[o] = "unavailable"]_vars

\* The entity kept for explicit reconciliation can be removed by it.
KeptIsRemovable ==
    \A o \in Ops :
       (\E e \in Table : model[e] = o) ~> (stopping \/ native[o] = "removed")
===============================================================================
