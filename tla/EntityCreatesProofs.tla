------------------------- MODULE EntityCreatesProofs -------------------------
(***************************************************************************)
(* Proofs about the entity table, for any number of creates, IDs, entries  *)
(* and sensor records, any assignment of IDs, sensors and chassis.         *)
(*                                                                         *)
(* One lemma per conjunct of the invariant, each with one case per action  *)
(* of the next-state relation: commands, pass, clients, Gazebo, stop.      *)
(***************************************************************************)
EXTENDS EntityCreates, TLAPS

\* No entry of the table is the entry that stands for none.
LEMMA EntryFacts == NoEntry \notin Table /\ NoOp \notin Ops
  BY EntityCreatesAssumption DEF NoEntry, Table

\* An empty world satisfies the invariant.
LEMMA InitEntities == Init => EntityInv
  BY EntityCreatesAssumption, EntryFacts
     DEF Init, EntityInv, TypeOK, Pending, PendingReserved, NoOrphanSensors,
         Visits

\* Every step keeps the types: an answer or a slot is recorded for pending creates
\* only, and a pass writes to the entry that the visited create reserved.
LEMMA TypeStep ==
    ASSUME EntityInv, [Next]_vars
    PROVE  TypeOK'
<1> USE EntityCreatesAssumption, EntryFacts
    DEF tableVars, pendingVars, receiptVars, nativeVars, sensorVars, workerVars,
        EntityInv, TypeOK, Pending, PendingReserved, Visits, Codes, NoOrphanSensors
<1>1. ASSUME NEW o \in Ops, NEW code \in Codes, RefuseCreate(o, code) PROVE TypeOK'
  BY <1>1 DEF RefuseCreate, BeginPass
<1>2. ASSUME NEW o \in Ops, NEW e \in Table, Create(o, e) PROVE TypeOK'
  BY <1>2 DEF Create, Reserve, FreeEntry, Occupied, BeginPass
<1>3. ASSUME NEW o \in Ops, NEW e \in Table, CreateThrows(o, e) PROVE TypeOK'
  BY <1>3 DEF CreateThrows, Reserve, FreeEntry, Occupied, BeginPass
<1>4. ASSUME NEW o \in Ops, Remove(o) PROVE TypeOK'
  BY <1>4 DEF Remove, ReleaseSensors, BeginPass
<1>5. ASSUME NEW o \in Ops, RemoveHalfway(o) PROVE TypeOK'
  BY <1>5 DEF RemoveHalfway, BeginPass
<1>6. CASE OtherCommand
  BY <1>6 DEF OtherCommand, BeginPass
<1>7. ASSUME NEW o \in Ops, Look(o) PROVE TypeOK'
  BY <1>7 DEF Look
<1>8. CASE TestDue
  BY <1>8 DEF TestDue, EndReceipt, DueCode
<1>9. CASE SettleNoModel
  BY <1>9 DEF SettleNoModel, Settle, KeepPending
<1>10. CASE SettleAwaiting
  BY <1>10 DEF SettleAwaiting, Settle, KeepPending
<1>11. CASE SettleReady
  BY <1>11 DEF SettleReady, Settle, Attach, EraseWith
<1>12. CASE SettleLost
  BY <1>12 DEF SettleLost, Settle, Attach, EraseWith
<1>13. CASE SettleStopped
  <2>1. PICK code \in Codes : EraseWith(code)
    BY <1>13 DEF SettleStopped
  <2>2. receipt' \in [Ops -> {"none", "open"} \cup Codes]
    BY <2>1 DEF EraseWith
  <2>3. QED
    BY <1>13, <2>1, <2>2 DEF SettleStopped, Settle, EraseWith
<1>14. CASE EndPass
  BY <1>14 DEF EndPass
<1>15. CASE Leave
  BY <1>15 DEF Leave, BeginPass
<1>16. ASSUME NEW o \in Ops, Cancel(o) PROVE TypeOK'
  BY <1>16 DEF Cancel
<1>17. ASSUME NEW o \in Ops, Expire(o) PROVE TypeOK'
  BY <1>17 DEF Expire
<1>18. ASSUME NEW o \in Ops, Load(o) PROVE TypeOK'
  BY <1>18 DEF Load, NativeStep
<1>19. ASSUME NEW o \in Ops, Acknowledge(o) PROVE TypeOK'
  BY <1>19 DEF Acknowledge, NativeStep
<1>20. ASSUME NEW o \in Ops, AcknowledgeSensor(o) PROVE TypeOK'
  BY <1>20 DEF AcknowledgeSensor, NativeStep
<1>21. ASSUME NEW o \in Ops, ReleaseSensor(o) PROVE TypeOK'
  BY <1>21 DEF ReleaseSensor, NativeStep
<1>22. ASSUME NEW o \in Ops, Enroll(o) PROVE TypeOK'
  BY <1>22 DEF Enroll, NativeStep
<1>23. CASE Stop
  BY <1>23 DEF Stop
<1>24. CASE UNCHANGED vars
  BY <1>24 DEF vars
<1> HIDE DEF EntityInv, TypeOK, Pending, PendingReserved, Visits, NoOrphanSensors
<1>25. QED
  BY <1>1, <1>2, <1>3, <1>4, <1>5, <1>6, <1>7, <1>8, <1>9, <1>10, <1>11, <1>12, <1>13,
     <1>14, <1>15, <1>16, <1>17, <1>18, <1>19, <1>20, <1>21, <1>22, <1>23, <1>24
     DEF Next, PassStep, Command, Done

\* A free entry is nobody's, a removed entity has a model, and the visited create
\* leaves pending_creates_ in the step that gives its entity the model.
LEMMA ReservedStep ==
    ASSUME EntityInv, TypeOK', [Next]_vars
    PROVE  PendingReserved'
<1> USE EntityCreatesAssumption, EntryFacts
    DEF tableVars, pendingVars, receiptVars, nativeVars, sensorVars, workerVars,
        EntityInv, TypeOK, Pending, PendingReserved, Visits
<1>1. ASSUME NEW o \in Ops, NEW code \in Codes, RefuseCreate(o, code) PROVE PendingReserved'
  BY <1>1 DEF RefuseCreate, BeginPass
<1>2. ASSUME NEW o \in Ops, NEW e \in Table, Create(o, e) PROVE PendingReserved'
  BY <1>2 DEF Create, Reserve, FreeEntry, Occupied, BeginPass
<1>3. ASSUME NEW o \in Ops, NEW e \in Table, CreateThrows(o, e) PROVE PendingReserved'
  BY <1>3 DEF CreateThrows, Reserve, FreeEntry, Occupied, BeginPass
<1>4. ASSUME NEW o \in Ops, Remove(o) PROVE PendingReserved'
  BY <1>4 DEF Remove, ReleaseSensors, BeginPass
<1>5. ASSUME NEW o \in Ops, RemoveHalfway(o) PROVE PendingReserved'
  BY <1>5 DEF RemoveHalfway, BeginPass
<1>6. CASE OtherCommand
  BY <1>6 DEF OtherCommand, BeginPass
<1>7. ASSUME NEW o \in Ops, Look(o) PROVE PendingReserved'
  BY <1>7 DEF Look
<1>8. CASE TestDue
  BY <1>8 DEF TestDue, EndReceipt, DueCode
<1>9. CASE SettleNoModel
  BY <1>9 DEF SettleNoModel, Settle, KeepPending
<1>10. CASE SettleAwaiting
  BY <1>10 DEF SettleAwaiting, Settle, KeepPending
<1>11. CASE SettleReady
  BY <1>11 DEF SettleReady, Settle, Attach, EraseWith
<1>12. CASE SettleLost
  BY <1>12 DEF SettleLost, Settle, Attach, EraseWith
<1>13. CASE SettleStopped
  BY <1>13 DEF SettleStopped, Settle, EraseWith
<1>14. CASE EndPass
  BY <1>14 DEF EndPass
<1>15. CASE Leave
  BY <1>15 DEF Leave, BeginPass
<1>16. ASSUME NEW o \in Ops, Cancel(o) PROVE PendingReserved'
  BY <1>16 DEF Cancel
<1>17. ASSUME NEW o \in Ops, Expire(o) PROVE PendingReserved'
  BY <1>17 DEF Expire
<1>18. ASSUME NEW o \in Ops, Load(o) PROVE PendingReserved'
  BY <1>18 DEF Load, NativeStep
<1>19. ASSUME NEW o \in Ops, Acknowledge(o) PROVE PendingReserved'
  BY <1>19 DEF Acknowledge, NativeStep
<1>20. ASSUME NEW o \in Ops, AcknowledgeSensor(o) PROVE PendingReserved'
  BY <1>20 DEF AcknowledgeSensor, NativeStep
<1>21. ASSUME NEW o \in Ops, ReleaseSensor(o) PROVE PendingReserved'
  BY <1>21 DEF ReleaseSensor, NativeStep
<1>22. ASSUME NEW o \in Ops, Enroll(o) PROVE PendingReserved'
  BY <1>22 DEF Enroll, NativeStep
<1>23. CASE Stop
  BY <1>23 DEF Stop
<1>24. CASE UNCHANGED vars
  BY <1>24 DEF vars
<1> HIDE DEF EntityInv, TypeOK, Pending, PendingReserved, Visits, NoOrphanSensors
<1>25. QED
  BY <1>1, <1>2, <1>3, <1>4, <1>5, <1>6, <1>7, <1>8, <1>9, <1>10, <1>11, <1>12, <1>13,
     <1>14, <1>15, <1>16, <1>17, <1>18, <1>19, <1>20, <1>21, <1>22, <1>23, <1>24
     DEF Next, PassStep, Command, Done

\* A record is taken with its entity and given back before it.
LEMMA SensorsStep ==
    ASSUME EntityInv, TypeOK', [Next]_vars
    PROVE  NoOrphanSensors'
<1> USE EntityCreatesAssumption, EntryFacts
    DEF tableVars, pendingVars, receiptVars, nativeVars, sensorVars, workerVars,
        EntityInv, TypeOK, NoOrphanSensors, PendingReserved, Pending, Visits
<1>1. ASSUME NEW o \in Ops, NEW code \in Codes, RefuseCreate(o, code) PROVE NoOrphanSensors'
  BY <1>1 DEF RefuseCreate, BeginPass
<1>2. ASSUME NEW o \in Ops, NEW e \in Table, Create(o, e) PROVE NoOrphanSensors'
  BY <1>2 DEF Create, Reserve, FreeEntry, Occupied, BeginPass
<1>3. ASSUME NEW o \in Ops, NEW e \in Table, CreateThrows(o, e) PROVE NoOrphanSensors'
  BY <1>3 DEF CreateThrows, Reserve, FreeEntry, Occupied, BeginPass
<1>4. ASSUME NEW o \in Ops, Remove(o) PROVE NoOrphanSensors'
  BY <1>4 DEF Remove, ReleaseSensors, BeginPass
<1>5. ASSUME NEW o \in Ops, RemoveHalfway(o) PROVE NoOrphanSensors'
  BY <1>5 DEF RemoveHalfway, BeginPass
<1>6. CASE OtherCommand
  BY <1>6 DEF OtherCommand, BeginPass
<1>7. ASSUME NEW o \in Ops, Look(o) PROVE NoOrphanSensors'
  BY <1>7 DEF Look
<1>8. CASE TestDue
  BY <1>8 DEF TestDue, EndReceipt, DueCode
<1>9. CASE SettleNoModel
  BY <1>9 DEF SettleNoModel, Settle, KeepPending
<1>10. CASE SettleAwaiting
  BY <1>10 DEF SettleAwaiting, Settle, KeepPending
<1>11. CASE SettleReady
  BY <1>11 DEF SettleReady, Settle, Attach, EraseWith
<1>12. CASE SettleLost
  BY <1>12 DEF SettleLost, Settle, Attach, EraseWith
<1>13. CASE SettleStopped
  BY <1>13 DEF SettleStopped, Settle, EraseWith
<1>14. CASE EndPass
  BY <1>14 DEF EndPass
<1>15. CASE Leave
  BY <1>15 DEF Leave, BeginPass
<1>16. ASSUME NEW o \in Ops, Cancel(o) PROVE NoOrphanSensors'
  BY <1>16 DEF Cancel
<1>17. ASSUME NEW o \in Ops, Expire(o) PROVE NoOrphanSensors'
  BY <1>17 DEF Expire
<1>18. ASSUME NEW o \in Ops, Load(o) PROVE NoOrphanSensors'
  BY <1>18 DEF Load, NativeStep
<1>19. ASSUME NEW o \in Ops, Acknowledge(o) PROVE NoOrphanSensors'
  BY <1>19 DEF Acknowledge, NativeStep
<1>20. ASSUME NEW o \in Ops, AcknowledgeSensor(o) PROVE NoOrphanSensors'
  BY <1>20 DEF AcknowledgeSensor, NativeStep
<1>21. ASSUME NEW o \in Ops, ReleaseSensor(o) PROVE NoOrphanSensors'
  BY <1>21 DEF ReleaseSensor, NativeStep
<1>22. ASSUME NEW o \in Ops, Enroll(o) PROVE NoOrphanSensors'
  BY <1>22 DEF Enroll, NativeStep
<1>23. CASE Stop
  BY <1>23 DEF Stop
<1>24. CASE UNCHANGED vars
  BY <1>24 DEF vars
<1> HIDE DEF EntityInv, TypeOK, Pending, PendingReserved, Visits, NoOrphanSensors
<1>25. QED
  BY <1>1, <1>2, <1>3, <1>4, <1>5, <1>6, <1>7, <1>8, <1>9, <1>10, <1>11, <1>12, <1>13,
     <1>14, <1>15, <1>16, <1>17, <1>18, <1>19, <1>20, <1>21, <1>22, <1>23, <1>24
     DEF Next, PassStep, Command, Done

\* Only the worker erases entries, the visited one each time, and it detaches a slot
\* in the step that ends its receipt.
LEMMA VisitStep ==
    ASSUME EntityInv, TypeOK', [Next]_vars
    PROVE  Visits'
<1> USE EntityCreatesAssumption, EntryFacts
    DEF tableVars, pendingVars, receiptVars, nativeVars, sensorVars, workerVars,
        EntityInv, TypeOK, Pending, Visits
<1>1. ASSUME NEW o \in Ops, NEW code \in Codes, RefuseCreate(o, code) PROVE Visits'
  BY <1>1 DEF RefuseCreate, BeginPass
<1>2. ASSUME NEW o \in Ops, NEW e \in Table, Create(o, e) PROVE Visits'
  BY <1>2 DEF Create, Reserve, FreeEntry, Occupied, BeginPass
<1>3. ASSUME NEW o \in Ops, NEW e \in Table, CreateThrows(o, e) PROVE Visits'
  BY <1>3 DEF CreateThrows, Reserve, FreeEntry, Occupied, BeginPass
<1>4. ASSUME NEW o \in Ops, Remove(o) PROVE Visits'
  BY <1>4 DEF Remove, ReleaseSensors, BeginPass
<1>5. ASSUME NEW o \in Ops, RemoveHalfway(o) PROVE Visits'
  BY <1>5 DEF RemoveHalfway, BeginPass
<1>6. CASE OtherCommand
  BY <1>6 DEF OtherCommand, BeginPass
<1>7. ASSUME NEW o \in Ops, Look(o) PROVE Visits'
  BY <1>7 DEF Look
<1>8. CASE TestDue
  BY <1>8 DEF TestDue, EndReceipt, DueCode
<1>9. CASE SettleNoModel
  BY <1>9 DEF SettleNoModel, Settle, KeepPending
<1>10. CASE SettleAwaiting
  BY <1>10 DEF SettleAwaiting, Settle, KeepPending
<1>11. CASE SettleReady
  BY <1>11 DEF SettleReady, Settle, Attach, EraseWith
<1>12. CASE SettleLost
  BY <1>12 DEF SettleLost, Settle, Attach, EraseWith
<1>13. CASE SettleStopped
  BY <1>13 DEF SettleStopped, Settle, EraseWith
<1>14. CASE EndPass
  BY <1>14 DEF EndPass
<1>15. CASE Leave
  BY <1>15 DEF Leave, BeginPass
<1>16. ASSUME NEW o \in Ops, Cancel(o) PROVE Visits'
  BY <1>16 DEF Cancel
<1>17. ASSUME NEW o \in Ops, Expire(o) PROVE Visits'
  BY <1>17 DEF Expire
<1>18. ASSUME NEW o \in Ops, Load(o) PROVE Visits'
  BY <1>18 DEF Load, NativeStep
<1>19. ASSUME NEW o \in Ops, Acknowledge(o) PROVE Visits'
  BY <1>19 DEF Acknowledge, NativeStep
<1>20. ASSUME NEW o \in Ops, AcknowledgeSensor(o) PROVE Visits'
  BY <1>20 DEF AcknowledgeSensor, NativeStep
<1>21. ASSUME NEW o \in Ops, ReleaseSensor(o) PROVE Visits'
  BY <1>21 DEF ReleaseSensor, NativeStep
<1>22. ASSUME NEW o \in Ops, Enroll(o) PROVE Visits'
  BY <1>22 DEF Enroll, NativeStep
<1>23. CASE Stop
  BY <1>23 DEF Stop
<1>24. CASE UNCHANGED vars
  BY <1>24 DEF vars
<1> HIDE DEF EntityInv, TypeOK, Pending, PendingReserved, Visits, NoOrphanSensors
<1>25. QED
  BY <1>1, <1>2, <1>3, <1>4, <1>5, <1>6, <1>7, <1>8, <1>9, <1>10, <1>11, <1>12, <1>13,
     <1>14, <1>15, <1>16, <1>17, <1>18, <1>19, <1>20, <1>21, <1>22, <1>23, <1>24
     DEF Next, PassStep, Command, Done

\* EntityInv is inductive.
THEOREM InductiveEntities == Spec => []EntityInv
<1>1. EntityInv /\ [Next]_vars => EntityInv'
  <2> SUFFICES ASSUME EntityInv, [Next]_vars PROVE EntityInv'
    OBVIOUS
  <2>1. TypeOK'
    BY TypeStep
  <2>2. PendingReserved' /\ NoOrphanSensors' /\ Visits'
    BY <2>1, ReservedStep, SensorsStep, VisitStep
  <2>3. QED
    BY <2>1, <2>2 DEF EntityInv
<1>2. QED
  BY InitEntities, <1>1, PTL DEF Spec

\* The table, the pending creates and the records keep their types, whatever the
\* order of commands and native answers.
THEOREM EntityTypes == Spec => []TypeOK
<1>1. EntityInv => TypeOK
  BY DEF EntityInv
<1>2. QED
  BY InductiveEntities, <1>1, PTL

\* A pending create keeps its reserved entry to itself until the model is
\* attached: CompleteCreates never writes to another command's entity.
THEOREM ReservationsHold == Spec => []PendingReserved
<1>1. EntityInv => PendingReserved
  BY DEF EntityInv
<1>2. QED
  BY InductiveEntities, <1>1, PTL

\* Every sensor record's parent is in the table: RemoveParent comes before the
\* removal of the entity and leaves none behind.
THEOREM SensorsHaveParents == Spec => []NoOrphanSensors
<1>1. EntityInv => NoOrphanSensors
  BY DEF EntityInv
<1>2. QED
  BY InductiveEntities, <1>1, PTL

\* A receipt ends once: the slot is detached in the step that ends it, and only an
\* attached slot is written to.
THEOREM ReceiptsEndOnce == Spec => ReceiptsFinal
<1> DEFINE Final == \A o \in Ops : receipt[o] \in Codes => receipt'[o] = receipt[o]
<1>1. EntityInv /\ [Next]_vars => Final
  <2> SUFFICES ASSUME EntityInv, [Next]_vars PROVE Final
    OBVIOUS
  <2> USE EntityCreatesAssumption, EntryFacts
      DEF tableVars, pendingVars, receiptVars, nativeVars, sensorVars, workerVars,
          EntityInv, TypeOK, Visits, Pending, Codes
  <2>1. ASSUME NEW o \in Ops, NEW code \in Codes, RefuseCreate(o, code) PROVE Final
    BY <2>1 DEF RefuseCreate
  <2>2. ASSUME NEW o \in Ops, NEW e \in Table, Create(o, e) \/ CreateThrows(o, e)
        PROVE  Final
    BY <2>2 DEF Create, CreateThrows, Reserve
  <2>3. CASE TestDue
    BY <2>3 DEF TestDue, EndReceipt
  <2>4. ASSUME NEW code \in Codes, EraseWith(code) PROVE Final
    BY <2>4 DEF EraseWith
  <2>5. CASE SettleNoModel \/ SettleAwaiting
    BY <2>5 DEF SettleNoModel, SettleAwaiting, KeepPending
  <2>6. CASE EndPass \/ Leave \/ OtherCommand \/ Stop \/ UNCHANGED vars
    BY <2>6 DEF EndPass, Leave, OtherCommand, Stop, vars
  <2>7. ASSUME NEW o \in Ops, Look(o) \/ Remove(o) \/ RemoveHalfway(o) PROVE Final
    BY <2>7 DEF Look, Remove, RemoveHalfway
  <2>8. ASSUME NEW o \in Ops, Cancel(o) \/ Expire(o) PROVE Final
    BY <2>8 DEF Cancel, Expire
  <2>9. ASSUME NEW o \in Ops,
               \/ Load(o) \/ Acknowledge(o)
               \/ AcknowledgeSensor(o) \/ ReleaseSensor(o) \/ Enroll(o)
        PROVE  Final
    BY <2>9 DEF Load, Acknowledge, AcknowledgeSensor, ReleaseSensor, Enroll, NativeStep
  <2> HIDE DEF EntityInv, TypeOK, Visits, Pending, Final
  <2>10. QED
    BY <2>1, <2>2, <2>3, <2>4, <2>5, <2>6, <2>7, <2>8, <2>9
       DEF SettleReady, SettleLost, SettleStopped, Next, PassStep, Command, Done
<1>2. EntityInv /\ [Next]_vars => [Final]_vars
  BY <1>1
<1>3. QED
  BY InductiveEntities, <1>2, PTL DEF Spec, ReceiptsFinal

\* A record is of a sensor that was staged for it.
SensorKnown == \A o \in records : sensor[o] # "none"

\* Only a reservation adds a record, and it stages the sensor at the same time.
LEMMA SensorKnownStep ==
    ASSUME EntityInv, SensorKnown, [Next]_vars
    PROVE  SensorKnown'
<1> USE EntityCreatesAssumption
    DEF tableVars, pendingVars, receiptVars, nativeVars, sensorVars, workerVars,
        EntityInv, TypeOK, SensorKnown
<1>1. ASSUME NEW o \in Ops, NEW e \in Table, Reserve(o, e) PROVE SensorKnown'
  BY <1>1 DEF Reserve
<1>2. ASSUME NEW o \in Ops, Remove(o) PROVE SensorKnown'
  <2>1. ReleaseSensors(o)
    BY <1>2 DEF Remove
  <2>2. records' = records \ {o} /\ \A p \in Ops \ {o} : sensor'[p] = sensor[p]
    BY <2>1 DEF ReleaseSensors
  <2>3. QED
    BY <2>2
<1>3. ASSUME NEW o \in Ops, AcknowledgeSensor(o) \/ ReleaseSensor(o) PROVE SensorKnown'
  BY <1>3 DEF AcknowledgeSensor, ReleaseSensor, NativeStep
<1>4. CASE UNCHANGED <<records, sensor>>
  BY <1>4
<1> HIDE DEF EntityInv, TypeOK, SensorKnown
<1>5. CASE Command
  BY <1>1, <1>2, <1>4, <1>5
     DEF Command, RefuseCreate, Create, CreateThrows, RemoveHalfway, OtherCommand
<1>6. CASE PassStep
  BY <1>4, <1>6
     DEF PassStep, Look, TestDue, Settle, SettleNoModel, SettleAwaiting, SettleReady, SettleLost,
         SettleStopped, KeepPending, EndPass, Leave
<1>7. QED
  BY <1>3, <1>4, <1>5, <1>6
     DEF Next, Cancel, Expire, Load, Acknowledge, Enroll, NativeStep, Stop, Done, vars

\* A create that succeeds while the world runs has its model in its own entry of the table,
\* its sensors initialized and taken over, and a chassis of its ID in the roster: only
\* CompleteCreates ends a create so, after it saw all of them in the same visit.
THEOREM SucceededIsWhole == Spec => OkIsWhole
<1> DEFINE Whole ==
      \A o \in Ops :
         receipt[o] = "open" /\ receipt'[o] = "ok" /\ ~stopping =>
            /\ \E e \in Table : entity'[e] = o /\ model'[e] = o /\ ready'[e]
            /\ o \in records => o \in named' /\ sensor[o] = "initialized"
            /\ o \in Chassis => Bound(IdOf[o])
<1>1. EntityInv /\ SensorKnown /\ [Next]_vars => Whole
  <2> SUFFICES ASSUME EntityInv, SensorKnown, [Next]_vars, NEW o \in Ops,
                      receipt[o] = "open", receipt'[o] = "ok", ~stopping
               PROVE  /\ \E e \in Table : entity'[e] = o /\ model'[e] = o /\ ready'[e]
                      /\ o \in records => o \in named' /\ sensor[o] = "initialized"
                      /\ o \in Chassis => Bound(IdOf[o])
    OBVIOUS
  <2>1. CASE SettleReady
    <3>1. visited = o
      BY <2>1 DEF SettleReady, EraseWith, EntityInv, TypeOK
    <3>2. o \in Pending /\ pendingAt[o] \in Table
      BY <2>1, <3>1 DEF SettleReady, Settle, EntityInv, TypeOK, Pending
    <3>3. entity[pendingAt[o]] = o
      BY <3>2 DEF EntityInv, PendingReserved
    <3>4. /\ model' = [model EXCEPT ![pendingAt[o]] = o]
          /\ ready' = [ready EXCEPT ![pendingAt[o]] = TRUE] /\ entity' = entity
      BY <2>1, <3>1 DEF SettleReady, Attach
    <3>5. \E e \in Table : entity'[e] = o /\ model'[e] = o /\ ready'[e]
      BY <3>2, <3>3, <3>4 DEF EntityInv, TypeOK
    <3>6. ~Awaiting(o) /\ ~SensorLost(o) /\ named' = named \cup ({o} \cap records)
      BY <2>1, <3>1 DEF SettleReady
    <3>7. o \in records => o \in named' /\ sensor[o] = "initialized"
      BY <3>6 DEF Awaiting, SensorLost, SensorKnown, EntityInv, TypeOK
    <3>8. o \in Chassis => Bound(IdOf[o])
      BY <3>6 DEF Awaiting
    <3>9. QED
      BY <3>5, <3>7, <3>8
  <2>2. CASE SettleLost
    BY <2>2 DEF SettleLost, EraseWith, EntityInv, TypeOK
  <2>3. CASE SettleStopped
    BY <2>3 DEF SettleStopped
  <2>4. CASE TestDue
    BY <2>4 DEF TestDue, EndReceipt, DueCode, EntityInv, TypeOK
  <2>5. ASSUME NEW p \in Ops, NEW code \in Codes, RefuseCreate(p, code) PROVE receipt'[o] # "ok"
    BY <2>5 DEF RefuseCreate, EntityInv, TypeOK
  <2>6. ASSUME NEW p \in Ops, NEW e \in Table, Create(p, e) \/ CreateThrows(p, e)
        PROVE  receipt'[o] # "ok"
    BY <2>6 DEF Create, CreateThrows, EntityInv, TypeOK
  <2>7. CASE UNCHANGED receipt
    BY <2>7
  <2>8. CASE Command
    BY <2>5, <2>6, <2>7, <2>8 DEF Command, Remove, RemoveHalfway, OtherCommand, receiptVars
  <2>9. CASE PassStep
    BY <2>1, <2>2, <2>3, <2>4, <2>7, <2>9
       DEF PassStep, Look, SettleNoModel, SettleAwaiting, KeepPending, EndPass, Leave, receiptVars
  <2>10. QED
    BY <2>7, <2>8, <2>9
       DEF Next, Cancel, Expire, Load, Acknowledge, AcknowledgeSensor, ReleaseSensor, Enroll,
           NativeStep, Stop, Done, vars, receiptVars
<1>2. EntityInv /\ SensorKnown /\ [Next]_vars => [Whole]_vars
  BY <1>1
<1>3. Init => SensorKnown
  BY DEF Init, SensorKnown
<1>4. EntityInv /\ SensorKnown /\ [Next]_vars => SensorKnown'
  BY SensorKnownStep
<1>5. QED
  BY InductiveEntities, <1>2, <1>3, <1>4, PTL DEF Spec, OkIsWhole
===============================================================================
