----------------------------- MODULE SensorRecords -----------------------------
(***************************************************************************)
(* The managed sensors of a world: the records of NativeSensorController,  *)
(* the native sensors that Gazebo initializes and releases in its own      *)
(* time, and the worker that waits for both with a deadline, a             *)
(* cancellation and the stop against it.                                   *)
(*                                                                         *)
(* A sensor is the number of its creation: its token and its generation.   *)
(* The sensors that a model brings along are addressed by that number too  *)
(* ("attached-<n>"), the ones created alone by an ID of the client.        *)
(***************************************************************************)
EXTENDS Integers, FiniteSets

CONSTANTS Ids, Parents,
          NumRecords,      \* records_.size()
          MaxSensors,      \* bound of the model: creations
          MaxRevision,     \* bound of the model: configurations of one sensor
          NoParent, NoId

ASSUME SensorRecordsAssumption ==
    /\ NumRecords \in Nat /\ MaxSensors \in Nat /\ MaxRevision \in Nat \ {0}
    /\ NoParent \notin Parents /\ NoId \notin Ids

Slots == 1..NumRecords
Sensors == 1..MaxSensors
Free == [sensor |-> 0]
Records == [sensor : Sensors, id : Ids \cup Sensors, parent : Parents,
            named : BOOLEAN, desired : 1..MaxRevision, applied : 0..MaxRevision]

VARIABLES
    records, next,
    parent,                \* the entity table: none, pending, present, gone
    native,                \* none, pending (its initialization), live, leaving, gone
    registry, initialized, released,       \* tokens known to acknowledgements, AckState
    command, place, slot, todo,            \* the worker
    waiter,                \* in Wait: testing, decided (to sleep), asleep; the first
                           \* two hold the mutex of the sensor's AckState
    expired, cancelled, stopping,
    notify                 \* who stored a flag and has still to notify

recordVars == <<records, next, parent>>
nativeVars == <<native, registry, initialized, released>>
workerVars == <<command, place, slot, todo, waiter>>
flagVars == <<expired, cancelled, stopping, notify>>
vars == <<recordVars, nativeVars, workerVars, flagVars>>

Occupied(r) == records[r] # Free
OfParent(p) == {r \in Slots : Occupied(r) /\ records[r].parent = p}

-------------------------------------------------------------------------------
(***************************************************************************)
(* Requests.  Generation 0 in Find means any generation.                   *)
(***************************************************************************)
Requests == [kind : {"create", "configure", "remove"}, id : Ids \cup Sensors,
             parent : Parents \cup {NoParent}, generation : 0..MaxSensors,
             expected : 0..MaxRevision]
ParentRequest(p) == [kind |-> "removeParent", id |-> NoId, parent |-> p,
                     generation |-> 0, expected |-> 0]
NoCommand == [kind |-> "none", id |-> NoId, parent |-> NoParent,
              generation |-> 0, expected |-> 0]

\* Mutant of Prepare: a generation and a revision of zero stand for any.
PrepareUnfenced(q) ==
    \/ /\ q.kind = "create" /\ q.id \in Ids /\ q.parent \in Parents
       /\ q.generation = 0 /\ q.expected = 0
    \/ q.kind = "configure" /\ q.parent = NoParent
    \/ q.kind = "remove" /\ q.parent = NoParent /\ q.expected = 0

\* What the validation of a request lets through.
Prepare(q) ==
    \/ /\ q.kind = "create" /\ q.id \in Ids /\ q.parent \in Parents
       /\ q.generation = 0 /\ q.expected = 0
    \/ q.kind = "configure" /\ q.parent = NoParent /\ q.generation > 0
    \/ q.kind = "remove" /\ q.parent = NoParent /\ q.generation > 0 /\ q.expected = 0

\* The records a command that names a sensor finds.
Find(c) == {r \in Slots : /\ Occupied(r) /\ records[r].id = c.id
                          /\ c.generation \in {0, records[r].sensor}}

TypeOK ==
    /\ records \in [Slots -> Records \cup {Free}]
    /\ next \in 1..(MaxSensors + 1)
    /\ parent \in [Parents -> {"none", "pending", "present", "gone"}]
    /\ native \in [Sensors -> {"none", "pending", "live", "leaving", "gone"}]
    /\ registry = {records[r].sensor : r \in {q \in Slots : Occupied(q)}}
    /\ initialized \in SUBSET Sensors /\ released \in SUBSET Sensors
    /\ command \in Requests \cup {ParentRequest(p) : p \in Parents} \cup {NoCommand}
    /\ place \in {"idle", "execute", "next", "init", "release"}
    /\ (place = "idle") <=> (command = NoCommand)
    /\ slot \in Slots \cup {0} /\ todo \in SUBSET Slots
    /\ waiter \in {"none", "testing", "decided", "asleep"}
    /\ (waiter # "none") <=> (place \in {"init", "release"})
    /\ waiter # "none" => Occupied(slot)
    /\ expired \in BOOLEAN /\ cancelled \in BOOLEAN /\ stopping \in BOOLEAN
    /\ notify \in SUBSET {"cancel", "stop"}

Init ==
    /\ records = [r \in Slots |-> Free] /\ next = 1
    /\ parent = [p \in Parents |-> "none"]
    /\ native = [n \in Sensors |-> "none"]
    /\ registry = {} /\ initialized = {} /\ released = {}
    /\ command = NoCommand /\ place = "idle" /\ slot = 0 /\ todo = {} /\ waiter = "none"
    /\ expired = FALSE /\ cancelled = FALSE /\ stopping = FALSE /\ notify = {}

-------------------------------------------------------------------------------
(***************************************************************************)
(* The life of a command.                                                  *)
(***************************************************************************)
Submit(q) ==
    /\ place = "idle" /\ ~stopping
    /\ Prepare(q)
    /\ command' = q /\ place' = "execute"
    /\ expired' = FALSE /\ cancelled' = FALSE /\ notify' = notify \ {"cancel"}
    /\ UNCHANGED <<recordVars, nativeVars, slot, todo, waiter, stopping>>

\* DELETE of an entity, which takes its sensors along.
SubmitRemoveParent(p) ==
    /\ place = "idle" /\ ~stopping /\ parent[p] = "present"
    /\ command' = ParentRequest(p) /\ place' = "execute"
    /\ expired' = FALSE /\ cancelled' = FALSE /\ notify' = notify \ {"cancel"}
    /\ UNCHANGED <<recordVars, nativeVars, slot, todo, waiter, stopping>>

End ==
    /\ command' = NoCommand /\ place' = "idle"
    /\ slot' = 0 /\ todo' = {} /\ waiter' = "none"
    /\ UNCHANGED flagVars

\* Execute ends in an error before anything changed.
Refuse ==
    /\ place = "execute"
    /\ \/ stopping \/ expired
       \/ /\ command.kind = "create"
          /\ \/ \E r \in Slots : Occupied(r) /\ records[r].id = command.id
             \/ \A r \in Slots : Occupied(r)
             \/ parent[command.parent] # "present"
       \/ command.kind \in {"configure", "remove"} /\ Find(command) = {}
       \/ /\ command.kind = "configure"
          /\ \E r \in Find(command) :
                \/ records[r].desired # command.expected
                \/ parent[records[r].parent] # "present"
                \/ records[r].sensor \notin initialized \ released
    /\ End
    /\ UNCHANGED <<recordVars, nativeVars>>

Starts(kind) == place = "execute" /\ command.kind = kind /\ ~stopping /\ ~expired

-------------------------------------------------------------------------------
(***************************************************************************)
(* Creation.                                                               *)
(***************************************************************************)
FirstFree(r) == ~Occupied(r) /\ \A q \in Slots : q < r => Occupied(q)

Record(id, p, named, applied) ==
    [sensor |-> next, id |-> id, parent |-> p, named |-> named,
     desired |-> 1, applied |-> applied]

Creatable(r) ==
    /\ Starts("create") /\ next <= MaxSensors
    /\ \A q \in Slots : Occupied(q) => records[q].id # command.id
    /\ FirstFree(r)
    /\ parent[command.parent] = "present"

\* Gazebo knows the sensor by name and will initialize it.
Create(r) ==
    /\ Creatable(r)
    /\ records' = [records EXCEPT ![r] = Record(command.id, command.parent, TRUE, 1)]
    /\ next' = next + 1
    /\ registry' = registry \cup {next}
    /\ native' = [native EXCEPT ![next] = "pending"]
    /\ place' = "init" /\ slot' = r /\ waiter' = "testing"
    /\ UNCHANGED <<parent, initialized, released, command, todo, flagVars>>

\* Gazebo rejects the sensor: nothing remains of it.
CreateRejected(r) ==
    /\ Creatable(r)
    /\ next' = next + 1
    /\ End
    /\ UNCHANGED <<records, parent, nativeVars>>

\* A model with up to Cardinality(new) sensors: all of its records or none.
PrepareParentSensors(p, new) ==
    /\ place = "idle" /\ ~stopping /\ parent[p] = "none"
    /\ \A r \in new : ~Occupied(r) /\ \A q \in 1..r : Occupied(q) \/ q \in new
    /\ next + Cardinality(new) <= MaxSensors + 1
    /\ LET number(r) == next + Cardinality({q \in new : q < r})
       IN  /\ records' = [r \in Slots |-> IF r \in new
                             THEN [Record(number(r), p, FALSE, 0) EXCEPT !.sensor = number(r)]
                             ELSE records[r]]
           /\ registry' = registry \cup {number(r) : r \in new}
           /\ native' = [n \in Sensors |-> IF \E r \in new : n = number(r) THEN "pending"
                                           ELSE native[n]]
    /\ next' = next + Cardinality(new)
    /\ parent' = [parent EXCEPT ![p] = "pending"]
    /\ UNCHANGED <<initialized, released, workerVars, flagVars>>

\* All sensors answered: they get their names; one that went away leaves the
\* entity in the table with the records as they are.
CompleteParentSensors(p) ==
    /\ place = "idle" /\ ~stopping /\ parent[p] = "pending"
    /\ LET own == OfParent(p)
           lost == \E r \in own : records[r].sensor \in released
       IN  /\ lost \/ \A r \in own : records[r].sensor \in initialized
           /\ records' = [r \in Slots |-> IF r \in own /\ ~lost
                             THEN [records[r] EXCEPT !.named = TRUE, !.applied = records[r].desired]
                             ELSE records[r]]
    /\ parent' = [parent EXCEPT ![p] = "present"]
    /\ UNCHANGED <<next, nativeVars, workerVars, flagVars>>

Configure(r) ==
    /\ Starts("configure") /\ r \in Find(command)
    /\ records[r].desired = command.expected /\ command.expected < MaxRevision
    /\ parent[records[r].parent] = "present"
    /\ records[r].sensor \in initialized \ released
    /\ records' = [records EXCEPT ![r].desired = @ + 1, ![r].applied = records[r].desired + 1]
    /\ End
    /\ UNCHANGED <<next, parent, nativeVars>>

-------------------------------------------------------------------------------
(***************************************************************************)
(* Waiting for an acknowledgement.                                         *)
(***************************************************************************)
Waited == records[slot].sensor
Answered == Waited \in (IF place = "init" THEN initialized \cup released ELSE released)
WaitFails == \/ stopping \/ cancelled
             \/ ~Answered /\ expired
             \/ place = "init" /\ Waited \in released
WaitDone == waiter = "testing" /\ Answered /\ ~WaitFails

Decide ==
    /\ waiter = "testing" /\ ~Answered /\ ~WaitFails
    /\ waiter' = "decided"
    /\ UNCHANGED <<recordVars, nativeVars, command, place, slot, todo, flagVars>>

FallAsleep ==
    /\ waiter = "decided" /\ waiter' = "asleep"
    /\ UNCHANGED <<recordVars, nativeVars, command, place, slot, todo, flagVars>>

\* The deadline ends a sleep too.
WakeUp ==
    /\ waiter = "asleep" /\ expired
    /\ waiter' = "testing"
    /\ UNCHANGED <<recordVars, nativeVars, command, place, slot, todo, flagVars>>

\* Who notifies takes the mutex of the sensor's AckState first.
Reach(n) == waiter = "decided" => Waited # n
Woken(n) == IF waiter = "asleep" /\ Waited = n THEN "testing" ELSE waiter

\* A removal of a sensor that is still to be initialized may be ignored.
RemoveSensor(n) ==
    \/ native[n] \in {"live", "pending"} /\ native' = [native EXCEPT ![n] = "leaving"]
    \/ native[n] # "live" /\ UNCHANGED native

CreateDone ==
    /\ place = "init" /\ command.kind = "create" /\ WaitDone
    /\ End
    /\ UNCHANGED <<recordVars, nativeVars>>

\* Mutant of CreateFails: a failed creation gives its record back.
CreateFailsForgets ==
    /\ place = "init" /\ command.kind = "create" /\ waiter = "testing" /\ WaitFails
    /\ RemoveSensor(Waited)
    /\ records' = [records EXCEPT ![slot] = Free]
    /\ registry' = registry \ {Waited}
    /\ End
    /\ UNCHANGED <<next, parent, initialized, released>>

\* The record stays until its sensor's release is confirmed by a DELETE.
CreateFails ==
    /\ place = "init" /\ command.kind = "create" /\ waiter = "testing" /\ WaitFails
    /\ RemoveSensor(Waited)
    /\ End
    /\ UNCHANGED <<recordVars, registry, initialized, released>>

-------------------------------------------------------------------------------
(***************************************************************************)
(* Removal.                                                                *)
(***************************************************************************)
Begin ==
    /\ \/ Starts("remove") /\ Find(command) # {} /\ todo' = Find(command)
       \/ Starts("removeParent") /\ todo' = OfParent(command.parent)
    /\ place' = "next"
    /\ UNCHANGED <<recordVars, nativeVars, command, slot, waiter, flagVars>>

\* The next record; a sensor without a name is waited for first.
NextRemoval(r) ==
    /\ place = "next" /\ r \in todo /\ \A q \in todo : r <= q
    /\ slot' = r /\ todo' = todo \ {r} /\ waiter' = "testing"
    /\ IF records[r].named
       THEN place' = "release" /\ RemoveSensor(records[r].sensor)
       ELSE place' = "init" /\ UNCHANGED native
    /\ UNCHANGED <<recordVars, registry, initialized, released, command, flagVars>>

Named ==
    /\ place = "init" /\ command.kind # "create" /\ WaitDone
    /\ records' = [records EXCEPT ![slot].named = TRUE]
    /\ RemoveSensor(Waited)
    /\ place' = "release" /\ waiter' = "testing"
    /\ UNCHANGED <<next, parent, registry, initialized, released, command, slot, todo, flagVars>>

Forget ==
    /\ place = "release" /\ WaitDone
    /\ records' = [records EXCEPT ![slot] = Free]
    /\ registry' = registry \ {Waited}
    /\ place' = "next" /\ slot' = 0 /\ waiter' = "none"
    /\ UNCHANGED <<next, parent, native, initialized, released, command, todo, flagVars>>

RemovalFails ==
    /\ waiter = "testing" /\ command.kind # "create" /\ WaitFails
    /\ End
    /\ UNCHANGED <<recordVars, nativeVars>>

Removed ==
    /\ place = "next" /\ todo = {}
    /\ parent' = IF command.kind = "removeParent"
                 THEN [parent EXCEPT ![command.parent] = "gone"] ELSE parent
    /\ End
    /\ UNCHANGED <<records, next, nativeVars>>

-------------------------------------------------------------------------------
(***************************************************************************)
(* Gazebo's sensor threads, the IO thread, time and the stop.              *)
(***************************************************************************)
\* A token that is not registered is not answered for.
Acknowledge(n) ==
    /\ native[n] = "pending" /\ Reach(n)
    /\ native' = [native EXCEPT ![n] = "live"]
    /\ initialized' = initialized \cup ({n} \cap registry)
    /\ waiter' = Woken(n)
    /\ UNCHANGED <<recordVars, registry, released, command, place, slot, todo, flagVars>>

\* A sensor goes away when it is removed, or with its link.
Release(n) ==
    /\ native[n] \in {"pending", "live", "leaving"} /\ Reach(n)
    /\ native' = [native EXCEPT ![n] = "gone"]
    /\ released' = released \cup ({n} \cap registry)
    /\ waiter' = Woken(n)
    /\ UNCHANGED <<recordVars, registry, initialized, command, place, slot, todo, flagVars>>

Expire ==
    /\ place # "idle" /\ ~expired /\ expired' = TRUE
    /\ UNCHANGED <<recordVars, nativeVars, workerVars, cancelled, stopping, notify>>

Cancel ==
    /\ place \notin {"idle", "execute"} /\ ~cancelled
    /\ cancelled' = TRUE /\ notify' = notify \cup {"cancel"}
    /\ UNCHANGED <<recordVars, nativeVars, workerVars, expired, stopping>>

Stop ==
    /\ ~stopping
    /\ stopping' = TRUE /\ notify' = notify \cup {"stop"}
    /\ UNCHANGED <<recordVars, nativeVars, workerVars, expired, cancelled>>

\* Mutant of Notify: a notification does not take the mutex.
NotifyUnlocked(who) ==
    /\ who \in notify
    /\ notify' = notify \ {who}
    /\ waiter' = IF waiter = "asleep" /\ Waited \in registry THEN "testing" ELSE waiter
    /\ UNCHANGED <<recordVars, nativeVars, command, place, slot, todo, expired, cancelled,
                   stopping>>

\* The handler of a cancellation and the stop notify every registered AckState,
\* under its mutex.
Notify(who) ==
    /\ who \in notify /\ waiter # "decided"
    /\ notify' = notify \ {who}
    /\ waiter' = IF waiter = "asleep" /\ Waited \in registry THEN "testing" ELSE waiter
    /\ UNCHANGED <<recordVars, nativeVars, command, place, slot, todo, expired, cancelled,
                   stopping>>

Worker ==
    \/ Refuse \/ Begin \/ Removed \/ Named \/ Forget \/ RemovalFails
    \/ CreateDone \/ CreateFails \/ Decide \/ FallAsleep \/ WakeUp
    \/ \E r \in Slots : Create(r) \/ CreateRejected(r) \/ Configure(r) \/ NextRemoval(r)

Next ==
    \/ Worker
    \/ \E q \in Requests : Submit(q)
    \/ \E p \in Parents : \/ SubmitRemoveParent(p) \/ CompleteParentSensors(p)
                          \/ \E new \in SUBSET Slots : PrepareParentSensors(p, new)
    \/ \E n \in Sensors : Acknowledge(n) \/ Release(n)
    \/ Expire \/ Cancel \/ Stop
    \/ \E who \in {"cancel", "stop"} : Notify(who)

\* The worker runs and a handler that stored its flag goes on to notify; neither
\* Gazebo's answers nor the deadline are needed.
Spec == Init /\ [][Next]_vars /\ WF_vars(Worker) /\ \A who \in {"cancel", "stop"} : WF_vars(Notify(who))

-------------------------------------------------------------------------------
(***************************************************************************)
(* Properties.                                                             *)
(***************************************************************************)

\* A sensor that exists in Gazebo, or may still come to exist, has a record
\* through which a client can remove it, whatever failed before: a failed
\* creation leaves a tombstone (native_sensor_controller.cpp:532-535).
NoOrphan ==
    \A n \in Sensors : native[n] \in {"pending", "live", "leaving"} =>
        \E r \in Slots : records[r].sensor = n

\* When an entity left the table no sensor of it is left in a record, neither
\* one of its model nor one created on it later, also when earlier removals
\* failed half-way (native_sensor_controller.cpp:587-601).
GoneWithParent ==
    \A r \in Slots : Occupied(r) => parent[records[r].parent] # "gone"

\* Records, native sensors and entities agree: a record as long as its sensor may
\* exist, and none any more when its entity is gone (native_sensor_controller.cpp:587-601).
RecordsAgree == TypeOK /\ NoOrphan /\ GoneWithParent

\* A configuration and a removal only reach the sensor, and the revision, that
\* the client has seen: no later sensor of the same ID, no configuration it does
\* not know of (native_sensor_controller.cpp:249-252, 263-271, 552-553).
Fenced ==
    [][\A r \in Slots : Occupied(r) /\ records'[r] # records[r] =>
          /\ records'[r] = Free /\ command.kind = "remove" =>
                command.generation = records[r].sensor
          /\ records'[r] # Free /\ records'[r].desired # records[r].desired =>
                /\ command.generation = records[r].sensor
                /\ command.expected = records[r].desired]_vars

\* A cancellation and the stop end a command that waits for Gazebo, however long
\* Gazebo and the deadline take (native_sensor_controller.cpp:602-624).
Interrupted == (cancelled \/ stopping) ~> place = "idle"
=============================================================================
