-------------------------- MODULE SensorRecordsProofs --------------------------
(***************************************************************************)
(* Proofs about SensorRecords, for any number of records, sensors, IDs and *)
(* entities.  A record may be freed because a released sensor is gone for  *)
(* good, which rests on every number being given once; an entity may leave *)
(* the table because its removal still holds, in todo or in slot, every    *)
(* record it has.                                                          *)
(***************************************************************************)
EXTENDS SensorRecords, FiniteSetTheorems, TLAPS

\* The two halves of TypeOK, but for the registry.
RecordTypes ==
    /\ records \in [Slots -> Records \cup {Free}]
    /\ next \in 1..(MaxSensors + 1)
    /\ parent \in [Parents -> {"none", "pending", "present", "gone"}]
    /\ native \in [Sensors -> {"none", "pending", "live", "leaving", "gone"}]
    /\ initialized \in SUBSET Sensors /\ released \in SUBSET Sensors

WorkerTypes ==
    /\ command \in Requests \cup {ParentRequest(p) : p \in Parents} \cup {NoCommand}
    /\ place \in {"idle", "execute", "next", "init", "release"}
    /\ (place = "idle") <=> (command = NoCommand)
    /\ slot \in Slots \cup {0} /\ todo \in SUBSET Slots
    /\ waiter \in {"none", "testing", "decided", "asleep"}
    /\ (waiter # "none") <=> (place \in {"init", "release"})
    /\ waiter # "none" => Occupied(slot)
    /\ expired \in BOOLEAN /\ cancelled \in BOOLEAN /\ stopping \in BOOLEAN
    /\ notify \in SUBSET {"cancel", "stop"}

Registered == {records[r].sensor : r \in {q \in Slots : Occupied(q)}}

\* Numbers are given in order and once; who is released is gone.
RecordsKnown ==
    /\ \A r \in Slots : Occupied(r) => records[r].sensor < next
    /\ \A r, q \in Slots : Occupied(r) /\ Occupied(q) /\ records[r].sensor = records[q].sensor
                             => r = q
    /\ \A n \in Sensors : n >= next => native[n] = "none"
    /\ \A n \in released : native[n] = "gone"

InHand(r) == r \in todo \/ (waiter # "none" /\ r = slot)
Running == place \notin {"idle", "execute"}

\* What a removal has still to do are records, all that it needs and no other.
Working ==
    /\ \A r \in todo : Occupied(r)
    /\ waiter # "none" => slot \in Slots /\ slot \notin todo
    /\ command.kind = "create" => command.id \in Ids /\ command.parent \in Parents
    /\ command.kind \in {"configure", "remove"} => command.generation > 0
    /\ command.kind = "removeParent" /\ Running =>
           \A r \in OfParent(command.parent) : InHand(r)
    /\ command.kind = "remove" /\ Running =>
           \A r \in Slots : InHand(r) => records[r].sensor = command.generation

SensorInv == TypeOK /\ RecordsKnown /\ Working /\ NoOrphan /\ GoneWithParent

\* What a step may do to the records besides freeing one: keep the sensor and
\* the entity of each, or fill free ones with new numbers.
Kept ==
    /\ records' \in [Slots -> Records \cup {Free}]
    /\ \A r \in Slots : /\ Occupied(r)' <=> Occupied(r)
                        /\ records'[r].sensor = records[r].sensor
                        /\ Occupied(r) => records'[r].parent = records[r].parent

Added(new, number, p) ==
    /\ new \subseteq Slots /\ number \in [new -> Sensors] /\ p \in Parents
    /\ \A r \in new : /\ ~Occupied(r) /\ records'[r] \in Records
                      /\ records'[r].sensor = number[r] /\ records'[r].parent = p
                      /\ next <= number[r] /\ number[r] < next'
    /\ \A r, s \in new : number[r] = number[s] => r = s
    /\ \A r \in Slots \ new : records'[r] = records[r]
    /\ records' \in [Slots -> Records \cup {Free}]
    /\ next' \in next..(MaxSensors + 1)
    /\ registry' = registry \cup {number[r] : r \in new}
    /\ native' = [n \in Sensors |-> IF \E r \in new : n = number[r] THEN "pending" ELSE native[n]]
    /\ parent[p] \in {"none", "present"}
    /\ place \in {"idle", "execute"} /\ waiter = "none" /\ UNCHANGED <<released, initialized>>

-------------------------------------------------------------------------------
\* The fields of a record.
LEMMA RecordFacts ==
    ASSUME NEW x \in Records
    PROVE  /\ x # Free /\ x.sensor \in Sensors /\ x.parent \in Parents
           /\ x.desired \in 1..MaxRevision
  BY DEF Records, Free, Sensors

\* Naming and configuring keep the sensor and the entity of a record.
LEMMA RecordsKept ==
    ASSUME TypeOK, Working,
           \/ UNCHANGED records \/ Named
           \/ \E r \in Slots : Configure(r)
           \/ \E p \in Parents : CompleteParentSensors(p)
    PROVE  Kept
<1> USE DEF TypeOK, Kept, Occupied
<1>1. CASE UNCHANGED records
  BY <1>1
<1>2. CASE Named
  <2>1. slot \in Slots /\ records[slot] \in Records
    BY <1>2 DEF Named, WaitDone, Working
  <2>2. /\ [records[slot] EXCEPT !.named = TRUE] \in Records
        /\ [records[slot] EXCEPT !.named = TRUE].sensor = records[slot].sensor
        /\ [records[slot] EXCEPT !.named = TRUE].parent = records[slot].parent
    BY <2>1 DEF Records
  <2>3. records' = [records EXCEPT ![slot] = [records[slot] EXCEPT !.named = TRUE]]
    BY <1>2 DEF Named
  <2>4. QED
    BY <2>1, <2>2, <2>3, RecordFacts
<1>3. ASSUME NEW r \in Slots, Configure(r) PROVE Kept
  <2>1. records[r] \in Records
    BY <1>3 DEF Configure, Find
  <2>2. records[r].desired + 1 \in 1..MaxRevision
    BY <1>3, <2>1, SensorRecordsAssumption DEF Configure, Records
  <2>3. QED
    BY <1>3, <2>1, <2>2 DEF Configure, Records, Free, Sensors
<1>4. ASSUME NEW p \in Parents, CompleteParentSensors(p) PROVE Kept
  <2>1. \A r \in OfParent(p) : r \in Slots /\ records[r] \in Records
    BY DEF OfParent
  <2> DEFINE new(r) == [records[r] EXCEPT !.named = TRUE, !.applied = records[r].desired]
  <2>2. ASSUME NEW r \in OfParent(p)
        PROVE  /\ new(r) \in Records /\ new(r).sensor = records[r].sensor
               /\ new(r).parent = records[r].parent
    <3>1. PICK d \in 1..MaxRevision : d = records[r].desired
      BY <2>1, RecordFacts
    <3>2. [records[r] EXCEPT !.named = TRUE] \in Records
      BY <2>1 DEF Records
    <3>3. d \in 0..MaxRevision
      BY <3>1, SensorRecordsAssumption
    <3> HIDE DEF TypeOK, Kept, Occupied
    <3>4. \A y \in Records : [y EXCEPT !.applied = d] \in Records
      BY <3>3 DEF Records
    <3>5. /\ new(r) = [[records[r] EXCEPT !.named = TRUE] EXCEPT !.applied = d]
          /\ new(r).sensor = records[r].sensor /\ new(r).parent = records[r].parent
      BY <2>1, <3>1 DEF Records
    <3>6. QED
      BY <3>2, <3>4, <3>5
  <2>3. /\ \A r \in Slots : \/ r \in OfParent(p) /\ records'[r] = new(r)
                           \/ records'[r] = records[r]
        /\ records' = [r \in Slots |-> records'[r]]
    BY <1>4 DEF CompleteParentSensors
  <2> HIDE DEF new
  <2>4. QED
    BY <2>1, <2>2, <2>3, RecordFacts
<1>5. QED
  BY <1>1, <1>2, <1>3, <1>4

-------------------------------------------------------------------------------
\* The numbers of a model's sensors are given in the order of their slots.
LEMMA NumbersApart ==
    ASSUME NEW new, new \subseteq Slots
    PROVE  /\ Cardinality(new) \in Nat
           /\ \A r \in new : /\ Cardinality({q \in new : q < r}) \in Nat
                             /\ Cardinality({q \in new : q < r}) < Cardinality(new)
           /\ \A r, s \in new : r < s =>
                 Cardinality({q \in new : q < r}) < Cardinality({q \in new : q < s})
<1>1. IsFiniteSet(new)
  <2>1. IsFiniteSet(Slots)
    BY FS_Interval, SensorRecordsAssumption DEF Slots
  <2>2. QED
    BY <2>1, FS_Subset
<1>2. ASSUME NEW S, NEW T, S \subseteq T, S # T, T \subseteq new
      PROVE  Cardinality(S) \in Nat /\ Cardinality(S) < Cardinality(T)
  <2>1. IsFiniteSet(T) /\ IsFiniteSet(S)
    BY <1>1, <1>2, FS_Subset
  <2>2. Cardinality(S) \in Nat /\ Cardinality(T) \in Nat
    BY <2>1, FS_CardinalityType
  <2>3. Cardinality(S) <= Cardinality(T) /\ (Cardinality(S) = Cardinality(T) => S = T)
    BY <1>2, <2>1, FS_Subset
  <2>4. QED
    BY <1>2, <2>2, <2>3
<1> DEFINE Below(r) == {q \in new : q < r}
<1>3. \A r \in new : Below(r) \subseteq new /\ Below(r) # new
  BY DEF Slots
<1>4. ASSUME NEW r \in new, NEW s \in new, r < s
      PROVE  Below(r) \subseteq Below(s) /\ Below(r) # Below(s)
  <2>1. r \in Below(s) /\ r \notin Below(r)
    BY <1>4 DEF Slots
  <2>2. \A q \in new : q < r => q < s
    BY <1>4 DEF Slots
  <2>3. Below(r) \subseteq Below(s)
    BY <2>2
  <2>4. QED
    BY <2>1, <2>3
<1>5. Cardinality(new) \in Nat
  BY <1>1, FS_CardinalityType
<1> HIDE DEF Below
<1>6. /\ \A r \in new : Cardinality(Below(r)) \in Nat /\ Cardinality(Below(r)) < Cardinality(new)
      /\ \A r, s \in new : r < s => Cardinality(Below(r)) < Cardinality(Below(s))
  <2>1. \A s \in new : Below(s) \subseteq new
    BY <1>3
  <2>2. QED
    BY <1>2, <1>3, <1>4, <2>1
<1>7. QED
  BY <1>5, <1>6 DEF Below

-------------------------------------------------------------------------------
\* A creation fills a free record with the next number.
LEMMA CreateAdds ==
    ASSUME TypeOK, Working, NEW r \in Slots, Create(r)
    PROVE  \E new, number, p : Added(new, number, p)
<1> DEFINE number == [q \in {r} |-> next]
<1> USE SensorRecordsAssumption DEF TypeOK, Sensors
<1>1. command.id \in Ids /\ command.parent \in Parents
  BY DEF Create, Creatable, Starts, Working
<1>2. Record(command.id, command.parent, TRUE, 1) \in Records
  BY <1>1 DEF Record, Records, Create, Creatable
<1>3. place = "execute" /\ waiter = "none" /\ next \in Sensors /\ ~Occupied(r)
  BY DEF Create, Creatable, Starts, FirstFree
<1>4. /\ \A q \in Slots : records'[q] = IF q = r THEN Record(command.id, command.parent, TRUE, 1)
                                        ELSE records[q]
      /\ records' \in [Slots -> Records \cup {Free}]
  BY <1>2 DEF Create
<1>5. native' = [n \in Sensors |-> IF \E q \in {r} : n = number[q] THEN "pending" ELSE native[n]]
  BY <1>3 DEF Create
<1>6. records'[r].sensor = next /\ records'[r].parent = command.parent
  BY <1>4 DEF Record
<1>7. /\ next' = next + 1 /\ registry' = registry \cup {number[q] : q \in {r}}
      /\ parent[command.parent] = "present" /\ UNCHANGED <<released, initialized>>
  BY DEF Create, Creatable
<1>8. /\ number \in [{r} -> Sensors] /\ number[r] = next
      /\ next' \in next..(MaxSensors + 1) /\ next < next' /\ next <= next
  BY <1>3, <1>7
<1> HIDE DEF number, TypeOK
<1>9. Added({r}, number, command.parent)
  BY <1>1, <1>2, <1>3, <1>4, <1>5, <1>6, <1>7, <1>8 DEF Added
<1>10. QED
  BY <1>9

\* The preparation of a model fills free records with the next numbers.
LEMMA PrepareAdds ==
    ASSUME TypeOK, NEW p \in Parents, NEW new \in SUBSET Slots, PrepareParentSensors(p, new)
    PROVE  \E number : Added(new, number, p)
<1> DEFINE below(r) == Cardinality({q \in new : q < r})
           number == [r \in new |-> next + below(r)]
<1> USE SensorRecordsAssumption DEF TypeOK
<1>1. /\ \A r \in new : below(r) \in Nat /\ below(r) < Cardinality(new)
      /\ \A r, s \in new : r < s => below(r) < below(s)
      /\ Cardinality(new) \in Nat
  BY NumbersApart
<1>2. /\ \A r \in Slots : records'[r] =
             IF r \in new
             THEN [Record(next + below(r), p, FALSE, 0) EXCEPT !.sensor = next + below(r)]
             ELSE records[r]
      /\ registry' = registry \cup {next + below(r) : r \in new}
      /\ native' = [n \in Sensors |-> IF \E r \in new : n = next + below(r) THEN "pending"
                                      ELSE native[n]]
      /\ records' = [r \in Slots |-> records'[r]]
  BY DEF PrepareParentSensors
<1>3. /\ next' = next + Cardinality(new) /\ next + Cardinality(new) <= MaxSensors + 1
      /\ \A r \in new : ~Occupied(r)
      /\ parent[p] = "none" /\ place = "idle" /\ waiter = "none"
      /\ UNCHANGED <<released, initialized>>
  BY DEF PrepareParentSensors
<1> HIDE DEF below
<1>4. \A r \in new : next + below(r) \in Sensors /\ next + below(r) < next'
                     /\ next <= next + below(r)
  BY <1>1, <1>3 DEF Sensors
<1>5. ASSUME NEW r \in new
      PROVE  /\ records'[r] \in Records
             /\ records'[r].sensor = next + below(r) /\ records'[r].parent = p
  <2> DEFINE n == next + below(r)
  <2>1. n \in Sensors /\ records'[r] = [Record(n, p, FALSE, 0) EXCEPT !.sensor = n]
    BY <1>2, <1>4
  <2> HIDE DEF n
  <2>2. records'[r] = [sensor |-> n, id |-> n, parent |-> p, named |-> FALSE,
                       desired |-> 1, applied |-> 0]
    BY <2>1 DEF Record
  <2>3. 1 \in 1..MaxRevision /\ 0 \in 0..MaxRevision
    OBVIOUS
  <2> HIDE DEF TypeOK
  <2>4. [sensor |-> n, id |-> n, parent |-> p, named |-> FALSE,
         desired |-> 1, applied |-> 0] \in Records
    BY <2>1, <2>3 DEF Records
  <2>5. records'[r].sensor = n /\ records'[r].parent = p
    BY <2>2
  <2>6. QED
    BY <2>2, <2>4, <2>5 DEF n
<1>6. \A r, s \in new : number[r] = number[s] => r = s
  BY <1>1 DEF Slots
<1>7. records' \in [Slots -> Records \cup {Free}]
  BY <1>2, <1>5
<1>8. next' \in next..(MaxSensors + 1)
  BY <1>1, <1>3
<1>9. registry' = registry \cup {number[r] : r \in new}
  BY <1>2
<1>10. native' = [n \in Sensors |-> IF \E r \in new : n = number[r] THEN "pending" ELSE native[n]]
  BY <1>2
<1>11. number \in [new -> Sensors]
  BY <1>4
<1>12. /\ \A r \in new : number[r] = next + below(r)
       /\ \A r \in Slots \ new : records'[r] = records[r]
  BY <1>2
<1> HIDE DEF number
<1>13. Added(new, number, p)
  BY <1>3, <1>4, <1>5, <1>6, <1>7, <1>8, <1>9, <1>10, <1>11, <1>12 DEF Added
<1>14. QED
  BY <1>13

-------------------------------------------------------------------------------
\* A command is told from none.
LEMMA CommandsDiffer ==
    NoCommand \notin Requests /\ \A p \in Parents : ParentRequest(p) # NoCommand
BY DEF NoCommand, Requests, ParentRequest

\* Added and kept records leave what is known of the numbers, and no sensor without a record.
LEMMA AddedKnown ==
    ASSUME SensorInv, NEW new, NEW number, NEW p, Added(new, number, p)
    PROVE  RecordsKnown' /\ NoOrphan'
<1> USE SensorRecordsAssumption
<1>1. /\ \A r \in new : next <= number[r] /\ number[r] < next' /\ number[r] \in Sensors
      /\ \A r, s \in new : number[r] = number[s] => r = s
      /\ new \subseteq Slots /\ next' >= next /\ next \in Nat /\ next' \in Nat
  BY DEF Added, SensorInv, TypeOK
<1>2. \A r \in Slots : IF r \in new THEN records'[r] # Free /\ records'[r].sensor = number[r]
                       ELSE records'[r] = records[r]
  BY RecordFacts DEF Added
<1>3. \A r \in Slots : Occupied(r) => r \notin new /\ records[r].sensor \in Sensors
  BY RecordFacts DEF Added, SensorInv, TypeOK, Occupied
<1>4. \A n \in Sensors : IF \E r \in new : n = number[r] THEN native'[n] = "pending"
                         ELSE native'[n] = native[n]
  BY DEF Added
<1>5. released' = released /\ released \subseteq Sensors
  BY DEF Added, SensorInv, TypeOK
<1>6. \A r \in Slots : Occupied(r) => records[r].sensor < next
  BY DEF SensorInv, RecordsKnown
<1>7. \A r \in Slots : Occupied(r)' <=> Occupied(r) \/ r \in new
  BY <1>2, <1>3 DEF Occupied
<1>8. \A r \in Slots : Occupied(r)' => records'[r].sensor < next'
  BY <1>1, <1>2, <1>3, <1>6, <1>7 DEF Sensors
<1>9. ASSUME NEW r \in Slots, NEW s \in Slots, Occupied(r)', Occupied(s)',
             records'[r].sensor = records'[s].sensor
      PROVE  r = s
  <2>1. CASE r \in new /\ s \in new
    BY <1>1, <1>2, <1>9, <2>1
  <2>2. CASE r \in new /\ s \notin new
    BY <1>1, <1>2, <1>3, <1>6, <1>7, <1>9, <2>2 DEF Sensors
  <2>3. CASE r \notin new /\ s \in new
    BY <1>1, <1>2, <1>3, <1>6, <1>7, <1>9, <2>3 DEF Sensors
  <2>4. CASE r \notin new /\ s \notin new
    BY <1>2, <1>7, <1>9, <2>4 DEF SensorInv, RecordsKnown
  <2>5. QED
    BY <2>1, <2>2, <2>3, <2>4
<1>10. \A n \in Sensors : n >= next' => native'[n] = "none"
  BY <1>1, <1>4 DEF SensorInv, RecordsKnown, Sensors
<1>11. \A n \in released : native'[n] = "gone"
  <2>1. \A n \in released : native[n] = "gone" /\ n \in Sensors /\ ~(n >= next)
    BY <1>5 DEF SensorInv, RecordsKnown
  <2>2. QED
    BY <1>1, <1>4, <2>1 DEF Sensors
<1>12. RecordsKnown'
  BY <1>5, <1>8, <1>9, <1>10, <1>11 DEF RecordsKnown
<1>13. NoOrphan'
  <2>1. ASSUME NEW n \in Sensors, native'[n] \in {"pending", "live", "leaving"}
        PROVE  \E r \in Slots : records'[r].sensor = n
    <3>1. CASE \E r \in new : n = number[r]
      BY <1>1, <1>2, <3>1
    <3>2. CASE ~\E r \in new : n = number[r]
      <4>1. PICK r \in Slots : records[r].sensor = n
        BY <1>4, <2>1, <3>2 DEF SensorInv, NoOrphan
      <4>2. records[r] # Free
        BY <4>1 DEF Free, Sensors
      <4>3. QED
        BY <1>2, <1>3, <4>1, <4>2 DEF Occupied
    <3>3. QED
      BY <3>1, <3>2
  <2>2. QED
    BY <2>1 DEF NoOrphan
<1>14. QED
  BY <1>12, <1>13

\* Kept records leave what is known of the numbers.
LEMMA KeptKnown ==
    ASSUME SensorInv, Kept, UNCHANGED <<next, released>>,
           \A n \in Sensors : native[n] \in {"none", "gone"} => native'[n] = native[n]
    PROVE  RecordsKnown' /\ (UNCHANGED native => NoOrphan')
<1>1. released \subseteq Sensors
  BY DEF SensorInv, TypeOK
<1>2. QED
  BY <1>1 DEF SensorInv, RecordsKnown, NoOrphan, Kept

-------------------------------------------------------------------------------
\* Every step keeps the types of the records and of Gazebo's sensors.
LEMMA RecordTypesStep ==
    ASSUME SensorInv, [Next]_vars
    PROVE  RecordTypes'
<1> USE SensorRecordsAssumption
    DEF recordVars, nativeVars, workerVars, flagVars, SensorInv, TypeOK, RecordTypes,
        RecordsKnown, Working, Sensors, Occupied
<1>1. CASE Refuse
  BY <1>1 DEF Refuse, End, Find
<1>2. CASE Begin
  BY <1>2 DEF Begin, Starts, Find
<1>3. CASE Removed
  BY <1>3 DEF Removed, End
<1>4. CASE Named
  <2>1. Kept
    BY <1>4, RecordsKept
  <2>2. native' \in [Sensors -> {"none", "pending", "live", "leaving", "gone"}]
    BY <1>4 DEF Named, RemoveSensor
  <2>3. QED
    BY <1>4, <2>1, <2>2 DEF Named, Kept
<1>5. CASE Forget
  BY <1>5 DEF Forget, WaitDone, Answered, Waited
<1>6. CASE RemovalFails
  BY <1>6 DEF RemovalFails, End
<1>7. CASE CreateDone
  BY <1>7 DEF CreateDone, End
<1>8. CASE CreateFails
  BY <1>8 DEF CreateFails, End, RemoveSensor, Waited
<1>9. CASE Decide
  BY <1>9 DEF Decide
<1>10. CASE FallAsleep
  BY <1>10 DEF FallAsleep
<1>11. CASE WakeUp
  BY <1>11 DEF WakeUp
<1>12. ASSUME NEW r \in Slots, Create(r) PROVE RecordTypes'
  <2>1. PICK new, number, p : Added(new, number, p)
    BY <1>12, CreateAdds
  <2>2. UNCHANGED parent
    BY <1>12 DEF Create
  <2>3. QED
    BY <2>1, <2>2 DEF Added
<1>13. ASSUME NEW r \in Slots, CreateRejected(r) PROVE RecordTypes'
  BY <1>13 DEF CreateRejected, Creatable, End, Starts
<1>14. ASSUME NEW r \in Slots, Configure(r) PROVE RecordTypes'
  BY <1>14, RecordsKept DEF Configure, End, Kept
<1>15. ASSUME NEW r \in Slots, NextRemoval(r) PROVE RecordTypes'
  BY <1>15 DEF NextRemoval, RemoveSensor
<1>16. ASSUME NEW q \in Requests, Submit(q) PROVE RecordTypes'
  BY <1>16 DEF Submit, Prepare
<1>17. ASSUME NEW p \in Parents, SubmitRemoveParent(p) PROVE RecordTypes'
  BY <1>17 DEF SubmitRemoveParent
<1>18. ASSUME NEW p \in Parents, CompleteParentSensors(p) PROVE RecordTypes'
  BY <1>18, RecordsKept DEF CompleteParentSensors, Kept
<1>19. ASSUME NEW p \in Parents, NEW new \in SUBSET Slots, PrepareParentSensors(p, new)
      PROVE  RecordTypes'
  <2>1. PICK number : Added(new, number, p)
    BY <1>19, PrepareAdds
  <2>2. parent' = [parent EXCEPT ![p] = "pending"]
    BY <1>19 DEF PrepareParentSensors
  <2>3. QED
    BY <2>1, <2>2 DEF Added
<1>20. ASSUME NEW n \in Sensors, Acknowledge(n) PROVE RecordTypes'
  BY <1>20 DEF Acknowledge, Woken, Waited
<1>21. ASSUME NEW n \in Sensors, Release(n) PROVE RecordTypes'
  BY <1>21 DEF Release, Woken, Waited
<1>22. CASE Expire
  BY <1>22 DEF Expire
<1>23. CASE Cancel
  BY <1>23 DEF Cancel
<1>24. CASE Stop
  BY <1>24 DEF Stop
<1>25. ASSUME NEW who \in {"cancel", "stop"}, Notify(who) PROVE RecordTypes'
  BY <1>25 DEF Notify
<1>26. CASE UNCHANGED vars
  BY <1>26 DEF vars
<1> HIDE DEF SensorInv, TypeOK, RecordTypes, WorkerTypes, RecordsKnown, Working, NoOrphan,
             GoneWithParent
<1>27. QED
  BY <1>1, <1>2, <1>3, <1>4, <1>5, <1>6, <1>7, <1>8, <1>9, <1>10, <1>11, <1>12, <1>13,
     <1>14, <1>15, <1>16, <1>17, <1>18, <1>19, <1>20, <1>21, <1>22, <1>23, <1>24, <1>25,
     <1>26
     DEF Next, Worker

\* Every step keeps the types of the worker.
LEMMA WorkerTypesStep ==
    ASSUME SensorInv, [Next]_vars
    PROVE  WorkerTypes'
<1> USE SensorRecordsAssumption
    DEF recordVars, nativeVars, workerVars, flagVars, SensorInv, TypeOK, WorkerTypes,
        Working, Slots, Occupied
<1>1. CASE Refuse
  BY <1>1 DEF Refuse, End, Find
<1>2. CASE Begin
  <2>1. todo' \subseteq Slots
    BY <1>2 DEF Begin, Find, OfParent
  <2>2. QED
    BY <1>2, <2>1 DEF Begin, Starts
<1>3. CASE Removed
  BY <1>3 DEF Removed, End
<1>4. CASE Named
  <2>1. Kept
    BY <1>4, RecordsKept
  <2>2. QED
    BY <1>4, <2>1 DEF Named, WaitDone, Kept
<1>5. CASE Forget
  BY <1>5 DEF Forget, WaitDone, Answered, Waited
<1>6. CASE RemovalFails
  BY <1>6 DEF RemovalFails, End
<1>7. CASE CreateDone
  BY <1>7 DEF CreateDone, End
<1>8. CASE CreateFails
  BY <1>8 DEF CreateFails, End, RemoveSensor, Waited
<1>9. CASE Decide
  BY <1>9 DEF Decide
<1>10. CASE FallAsleep
  BY <1>10 DEF FallAsleep
<1>11. CASE WakeUp
  BY <1>11 DEF WakeUp
<1>12. ASSUME NEW r \in Slots, Create(r) PROVE WorkerTypes'
  <2>1. records'[r] = Record(command.id, command.parent, TRUE, 1)
    BY <1>12 DEF Create
  <2>2. records'[r].sensor = next /\ next # 0
    BY <2>1 DEF Record
  <2>3. records'[r] # Free
    BY <2>2 DEF Free
  <2>4. QED
    BY <1>12, <2>3 DEF Create, Creatable, Starts
<1>13. ASSUME NEW r \in Slots, CreateRejected(r) PROVE WorkerTypes'
  BY <1>13 DEF CreateRejected, Creatable, End, Starts
<1>14. ASSUME NEW r \in Slots, Configure(r) PROVE WorkerTypes'
  BY <1>14 DEF Configure, Starts, Find, End
<1>15. ASSUME NEW r \in Slots, NextRemoval(r) PROVE WorkerTypes'
  BY <1>15 DEF NextRemoval, RemoveSensor
<1>16. ASSUME NEW q \in Requests, Submit(q) PROVE WorkerTypes'
  BY <1>16, CommandsDiffer DEF Submit
<1>17. ASSUME NEW p \in Parents, SubmitRemoveParent(p) PROVE WorkerTypes'
  BY <1>17, CommandsDiffer DEF SubmitRemoveParent
<1>18. ASSUME NEW p \in Parents, CompleteParentSensors(p) PROVE WorkerTypes'
  BY <1>18 DEF CompleteParentSensors
<1>19. ASSUME NEW p \in Parents, NEW new \in SUBSET Slots, PrepareParentSensors(p, new)
      PROVE  WorkerTypes'
  BY <1>19 DEF PrepareParentSensors, Record
<1>20. ASSUME NEW n \in Sensors, Acknowledge(n) PROVE WorkerTypes'
  BY <1>20 DEF Acknowledge, Woken, Waited
<1>21. ASSUME NEW n \in Sensors, Release(n) PROVE WorkerTypes'
  BY <1>21 DEF Release, Woken, Waited
<1>22. CASE Expire
  BY <1>22 DEF Expire
<1>23. CASE Cancel
  BY <1>23 DEF Cancel
<1>24. CASE Stop
  BY <1>24 DEF Stop
<1>25. ASSUME NEW who \in {"cancel", "stop"}, Notify(who) PROVE WorkerTypes'
  BY <1>25 DEF Notify
<1>26. CASE UNCHANGED vars
  BY <1>26 DEF vars
<1> HIDE DEF SensorInv, TypeOK, RecordTypes, WorkerTypes, RecordsKnown, Working, NoOrphan,
             GoneWithParent
<1>27. QED
  BY <1>1, <1>2, <1>3, <1>4, <1>5, <1>6, <1>7, <1>8, <1>9, <1>10, <1>11, <1>12, <1>13,
     <1>14, <1>15, <1>16, <1>17, <1>18, <1>19, <1>20, <1>21, <1>22, <1>23, <1>24, <1>25,
     <1>26
     DEF Next, Worker

\* The registry knows exactly the sensors of the records.
LEMMA RegistryStep ==
    ASSUME SensorInv, [Next]_vars
    PROVE  registry' = Registered'
<1> USE DEF SensorInv, TypeOK, Occupied
<1>1. registry = Registered
  BY DEF Registered
<1>2. ASSUME Kept, UNCHANGED registry PROVE registry' = Registered'
  <2>1. Registered' = Registered
    BY <1>2 DEF Registered, Kept
  <2>2. QED
    BY <1>1, <1>2, <2>1
<1>3. CASE Forget
  <2>1. slot \in Slots /\ Occupied(slot)
    BY <1>3 DEF Forget, WaitDone, Working
  <2>2. /\ records' = [records EXCEPT ![slot] = Free]
        /\ registry' = registry \ {records[slot].sensor}
    BY <1>3 DEF Forget, Waited
  <2>3. \A r \in Slots : Occupied(r)' <=> Occupied(r) /\ r # slot
    BY <2>1, <2>2
  <2>4. \A r \in Slots : r # slot => records'[r] = records[r]
    BY <2>1, <2>2
  <2>5. \A r \in Slots : Occupied(r) /\ r # slot => records[r].sensor # records[slot].sensor
    BY <2>1 DEF RecordsKnown
  <2> HIDE DEF SensorInv, TypeOK, Occupied
  <2>6. Registered' = Registered \ {records[slot].sensor}
    BY <2>1, <2>3, <2>4, <2>5 DEF Registered
  <2>7. QED
    BY <1>1, <2>2, <2>6
<1>4. ASSUME NEW new, NEW number, NEW p, Added(new, number, p) PROVE registry' = Registered'
  <2>1. registry' = registry \cup {number[r] : r \in new}
    BY <1>4 DEF Added
  <2>2. \A r \in Slots : Occupied(r)' <=> Occupied(r) \/ r \in new
    BY <1>4, RecordFacts DEF Added
  <2>3. \A r \in Slots : IF r \in new THEN records'[r].sensor = number[r] /\ ~Occupied(r)
                         ELSE records'[r] = records[r]
    BY <1>4 DEF Added
  <2>4. new \subseteq Slots
    BY <1>4 DEF Added
  <2> HIDE DEF SensorInv, TypeOK, Occupied
  <2>5. Registered' = Registered \cup {number[r] : r \in new}
    BY <2>2, <2>3, <2>4 DEF Registered
  <2>6. QED
    BY <1>1, <2>1, <2>5
<1>5. CASE UNCHANGED <<records, registry>>
  BY <1>5, <1>2, RecordsKept
<1>6. CASE Named
  BY <1>6, <1>2, RecordsKept DEF Named
<1>7. ASSUME NEW r \in Slots, Configure(r) PROVE registry' = Registered'
  BY <1>7, <1>2, RecordsKept DEF Configure, nativeVars
<1>8. ASSUME NEW p \in Parents, CompleteParentSensors(p) PROVE registry' = Registered'
  BY <1>8, <1>2, RecordsKept DEF CompleteParentSensors, nativeVars
<1>9. ASSUME NEW r \in Slots, Create(r) PROVE registry' = Registered'
  BY <1>9, <1>4, CreateAdds
<1>10. ASSUME NEW p \in Parents, NEW new \in SUBSET Slots, PrepareParentSensors(p, new)
       PROVE  registry' = Registered'
  BY <1>10, <1>4, PrepareAdds
<1> HIDE DEF SensorInv, TypeOK, Registered
<1>11. QED
  BY <1>3, <1>5, <1>6, <1>7, <1>8, <1>9, <1>10
     DEF Next, Worker, vars, recordVars, nativeVars, Refuse, Begin, Removed, RemovalFails,
         CreateDone, CreateFails, Decide, FallAsleep, WakeUp, CreateRejected, NextRemoval,
         Submit, SubmitRemoveParent, Acknowledge, Release, Expire, Cancel, Stop, Notify

\* Every step keeps the types.
LEMMA TypeStep ==
    ASSUME SensorInv, [Next]_vars
    PROVE  TypeOK'
BY RecordTypesStep, WorkerTypesStep, RegistryStep DEF TypeOK, RecordTypes, WorkerTypes, Registered

\* A number is given once, and who is released is gone for good.
LEMMA KnownStep ==
    ASSUME SensorInv, [Next]_vars
    PROVE  RecordsKnown'
<1> USE SensorRecordsAssumption
    DEF recordVars, nativeVars, workerVars, flagVars, SensorInv, TypeOK, RecordsKnown,
        Working, Slots, Sensors, Free, Occupied
<1>1. CASE Refuse
  BY <1>1 DEF Refuse, End, Find
<1>2. CASE Begin
  BY <1>2 DEF Begin, Starts, Find
<1>3. CASE Removed
  BY <1>3 DEF Removed, End
<1>4. CASE Named
  <2>1. Kept
    BY <1>4, RecordsKept
  <2>2. \A n \in Sensors : native[n] \in {"none", "gone"} => native'[n] = native[n]
    BY <1>4 DEF Named, RemoveSensor
  <2>3. UNCHANGED <<next, released>>
    BY <1>4 DEF Named
  <2>4. QED
    BY <2>1, <2>2, <2>3, KeptKnown
<1>5. CASE Forget
  BY <1>5 DEF Forget, WaitDone, Answered, Waited
<1>6. CASE RemovalFails
  BY <1>6 DEF RemovalFails, End
<1>7. CASE CreateDone
  BY <1>7 DEF CreateDone, End
<1>8. CASE CreateFails
  BY <1>8 DEF CreateFails, End, RemoveSensor, Waited
<1>9. CASE Decide
  BY <1>9 DEF Decide
<1>10. CASE FallAsleep
  BY <1>10 DEF FallAsleep
<1>11. CASE WakeUp
  BY <1>11 DEF WakeUp
<1>12. ASSUME NEW r \in Slots, Create(r) PROVE RecordsKnown'
  <2>1. PICK new, number, p : Added(new, number, p)
    BY <1>12, CreateAdds
  <2>2. QED
    BY <2>1, AddedKnown
<1>13. ASSUME NEW r \in Slots, CreateRejected(r) PROVE RecordsKnown'
  <2>1. next' = next + 1 /\ UNCHANGED <<records, native, released>>
    BY <1>13 DEF CreateRejected
  <2>2. \A s \in Slots : Occupied(s) => records[s].sensor \in Sensors
    BY RecordFacts
  <2>3. QED
    BY <2>1, <2>2
<1>14. ASSUME NEW r \in Slots, Configure(r) PROVE RecordsKnown'
  <2>1. Kept /\ UNCHANGED <<next, native, released>>
    BY <1>14, RecordsKept DEF Configure
  <2>2. QED
    BY <2>1, KeptKnown
<1>15. ASSUME NEW r \in Slots, NextRemoval(r) PROVE RecordsKnown'
  <2>1. Kept /\ UNCHANGED <<next, released>>
    BY <1>15, RecordsKept DEF NextRemoval
  <2>2. \A n \in Sensors : native[n] \in {"none", "gone"} => native'[n] = native[n]
    BY <1>15 DEF NextRemoval, RemoveSensor
  <2>3. QED
    BY <2>1, <2>2, KeptKnown
<1>16. ASSUME NEW q \in Requests, Submit(q) PROVE RecordsKnown'
  BY <1>16 DEF Submit, Prepare
<1>17. ASSUME NEW p \in Parents, SubmitRemoveParent(p) PROVE RecordsKnown'
  BY <1>17 DEF SubmitRemoveParent
<1>18. ASSUME NEW p \in Parents, CompleteParentSensors(p) PROVE RecordsKnown'
  <2>1. Kept /\ UNCHANGED <<next, native, released>>
    BY <1>18, RecordsKept DEF CompleteParentSensors
  <2>2. QED
    BY <2>1, KeptKnown
<1>19. ASSUME NEW p \in Parents, NEW new \in SUBSET Slots, PrepareParentSensors(p, new)
      PROVE  RecordsKnown'
  <2>1. PICK number : Added(new, number, p)
    BY <1>19, PrepareAdds
  <2>2. QED
    BY <2>1, AddedKnown
<1>20. ASSUME NEW n \in Sensors, Acknowledge(n) PROVE RecordsKnown'
  BY <1>20 DEF Acknowledge, Woken, Waited
<1>21. ASSUME NEW n \in Sensors, Release(n) PROVE RecordsKnown'
  BY <1>21 DEF Release, Woken, Waited
<1>22. CASE Expire
  BY <1>22 DEF Expire
<1>23. CASE Cancel
  BY <1>23 DEF Cancel
<1>24. CASE Stop
  BY <1>24 DEF Stop
<1>25. ASSUME NEW who \in {"cancel", "stop"}, Notify(who) PROVE RecordsKnown'
  BY <1>25 DEF Notify
<1>26. CASE UNCHANGED vars
  BY <1>26 DEF vars
<1> HIDE DEF SensorInv, TypeOK, RecordTypes, WorkerTypes, RecordsKnown, Working, NoOrphan,
             GoneWithParent
<1>27. QED
  BY <1>1, <1>2, <1>3, <1>4, <1>5, <1>6, <1>7, <1>8, <1>9, <1>10, <1>11, <1>12, <1>13,
     <1>14, <1>15, <1>16, <1>17, <1>18, <1>19, <1>20, <1>21, <1>22, <1>23, <1>24, <1>25,
     <1>26
     DEF Next, Worker

\* A removal keeps to the records it found.
LEMMA WorkingStep ==
    ASSUME SensorInv, [Next]_vars
    PROVE  Working'
<1> USE SensorRecordsAssumption
    DEF recordVars, nativeVars, workerVars, flagVars, SensorInv, TypeOK, Working, Occupied,
        OfParent, InHand, Running
<1>1. CASE Refuse
  BY <1>1 DEF Refuse, End, Find, NoCommand
<1>2. CASE Begin
  BY <1>2 DEF Begin, Starts, Find
<1>3. CASE Removed
  BY <1>3 DEF Removed, End, NoCommand
<1>4. CASE Named
  BY <1>4 DEF Named, WaitDone, Answered, Waited, RemoveSensor
<1>5. CASE Forget
  BY <1>5 DEF Forget, WaitDone, Answered, Waited
<1>6. CASE RemovalFails
  BY <1>6 DEF RemovalFails, End, NoCommand
<1>7. CASE CreateDone
  BY <1>7 DEF CreateDone, End, NoCommand
<1>8. CASE CreateFails
  BY <1>8 DEF CreateFails, End, RemoveSensor, Waited, NoCommand
<1>9. CASE Decide
  BY <1>9 DEF Decide
<1>10. CASE FallAsleep
  BY <1>10 DEF FallAsleep
<1>11. CASE WakeUp
  BY <1>11 DEF WakeUp
<1>12. ASSUME NEW r \in Slots, Create(r) PROVE Working'
  BY <1>12 DEF Create, Creatable, FirstFree, Record, Starts
<1>13. ASSUME NEW r \in Slots, CreateRejected(r) PROVE Working'
  BY <1>13 DEF CreateRejected, Creatable, End, Starts, NoCommand
<1>14. ASSUME NEW r \in Slots, Configure(r) PROVE Working'
  BY <1>14, RecordsKept DEF Configure, End, Kept, NoCommand
<1>15. ASSUME NEW r \in Slots, NextRemoval(r) PROVE Working'
  BY <1>15 DEF NextRemoval, RemoveSensor
<1>16. ASSUME NEW q \in Requests, Submit(q) PROVE Working'
  BY <1>16 DEF Submit, Prepare
<1>17. ASSUME NEW p \in Parents, SubmitRemoveParent(p) PROVE Working'
  BY <1>17 DEF SubmitRemoveParent, ParentRequest
<1>18. ASSUME NEW p \in Parents, CompleteParentSensors(p) PROVE Working'
  BY <1>18, RecordsKept DEF CompleteParentSensors, Kept, NoCommand
<1>19. ASSUME NEW p \in Parents, NEW new \in SUBSET Slots, PrepareParentSensors(p, new)
      PROVE  Working'
  BY <1>19 DEF PrepareParentSensors, Record
<1>20. ASSUME NEW n \in Sensors, Acknowledge(n) PROVE Working'
  BY <1>20 DEF Acknowledge, Woken, Waited
<1>21. ASSUME NEW n \in Sensors, Release(n) PROVE Working'
  BY <1>21 DEF Release, Woken, Waited
<1>22. CASE Expire
  BY <1>22 DEF Expire
<1>23. CASE Cancel
  BY <1>23 DEF Cancel
<1>24. CASE Stop
  BY <1>24 DEF Stop
<1>25. ASSUME NEW who \in {"cancel", "stop"}, Notify(who) PROVE Working'
  BY <1>25 DEF Notify
<1>26. CASE UNCHANGED vars
  BY <1>26 DEF vars
<1> HIDE DEF SensorInv, TypeOK, RecordTypes, WorkerTypes, RecordsKnown, Working, NoOrphan,
             GoneWithParent
<1>27. QED
  BY <1>1, <1>2, <1>3, <1>4, <1>5, <1>6, <1>7, <1>8, <1>9, <1>10, <1>11, <1>12, <1>13,
     <1>14, <1>15, <1>16, <1>17, <1>18, <1>19, <1>20, <1>21, <1>22, <1>23, <1>24, <1>25,
     <1>26
     DEF Next, Worker

\* A record is freed after its sensor is gone.
LEMMA OrphanStep ==
    ASSUME SensorInv, [Next]_vars
    PROVE  NoOrphan'
<1> USE SensorRecordsAssumption
    DEF recordVars, nativeVars, workerVars, flagVars, SensorInv, TypeOK, RecordsKnown,
        NoOrphan, Working, Slots, Sensors, Free, Occupied
<1>1. CASE Refuse
  BY <1>1 DEF Refuse, End, Find
<1>2. CASE Begin
  BY <1>2 DEF Begin, Starts, Find
<1>3. CASE Removed
  BY <1>3 DEF Removed, End
<1>4. CASE Named
  BY <1>4, RecordsKept DEF Named, RemoveSensor, Waited, Kept
<1>5. CASE Forget
  BY <1>5 DEF Forget, WaitDone, Answered, Waited
<1>6. CASE RemovalFails
  BY <1>6 DEF RemovalFails, End
<1>7. CASE CreateDone
  BY <1>7 DEF CreateDone, End
<1>8. CASE CreateFails
  BY <1>8 DEF CreateFails, End, RemoveSensor, Waited
<1>9. CASE Decide
  BY <1>9 DEF Decide
<1>10. CASE FallAsleep
  BY <1>10 DEF FallAsleep
<1>11. CASE WakeUp
  BY <1>11 DEF WakeUp
<1>12. ASSUME NEW r \in Slots, Create(r) PROVE NoOrphan'
  <2>1. PICK new, number, p : Added(new, number, p)
    BY <1>12, CreateAdds
  <2>2. QED
    BY <2>1, AddedKnown
<1>13. ASSUME NEW r \in Slots, CreateRejected(r) PROVE NoOrphan'
  BY <1>13 DEF CreateRejected, Creatable, End, Starts
<1>14. ASSUME NEW r \in Slots, Configure(r) PROVE NoOrphan'
  <2>1. Kept /\ UNCHANGED <<next, native, released>>
    BY <1>14, RecordsKept DEF Configure
  <2>2. QED
    BY <2>1, KeptKnown
<1>15. ASSUME NEW r \in Slots, NextRemoval(r) PROVE NoOrphan'
  BY <1>15 DEF NextRemoval, RemoveSensor
<1>16. ASSUME NEW q \in Requests, Submit(q) PROVE NoOrphan'
  BY <1>16 DEF Submit, Prepare
<1>17. ASSUME NEW p \in Parents, SubmitRemoveParent(p) PROVE NoOrphan'
  BY <1>17 DEF SubmitRemoveParent
<1>18. ASSUME NEW p \in Parents, CompleteParentSensors(p) PROVE NoOrphan'
  <2>1. Kept /\ UNCHANGED <<next, native, released>>
    BY <1>18, RecordsKept DEF CompleteParentSensors
  <2>2. QED
    BY <2>1, KeptKnown
<1>19. ASSUME NEW p \in Parents, NEW new \in SUBSET Slots, PrepareParentSensors(p, new)
      PROVE  NoOrphan'
  <2>1. PICK number : Added(new, number, p)
    BY <1>19, PrepareAdds
  <2>2. QED
    BY <2>1, AddedKnown
<1>20. ASSUME NEW n \in Sensors, Acknowledge(n) PROVE NoOrphan'
  BY <1>20 DEF Acknowledge, Woken, Waited
<1>21. ASSUME NEW n \in Sensors, Release(n) PROVE NoOrphan'
  BY <1>21 DEF Release, Woken, Waited
<1>22. CASE Expire
  BY <1>22 DEF Expire
<1>23. CASE Cancel
  BY <1>23 DEF Cancel
<1>24. CASE Stop
  BY <1>24 DEF Stop
<1>25. ASSUME NEW who \in {"cancel", "stop"}, Notify(who) PROVE NoOrphan'
  BY <1>25 DEF Notify
<1>26. CASE UNCHANGED vars
  BY <1>26 DEF vars
<1> HIDE DEF SensorInv, TypeOK, RecordTypes, WorkerTypes, RecordsKnown, Working, NoOrphan,
             GoneWithParent
<1>27. QED
  BY <1>1, <1>2, <1>3, <1>4, <1>5, <1>6, <1>7, <1>8, <1>9, <1>10, <1>11, <1>12, <1>13,
     <1>14, <1>15, <1>16, <1>17, <1>18, <1>19, <1>20, <1>21, <1>22, <1>23, <1>24, <1>25,
     <1>26
     DEF Next, Worker

\* An entity leaves the table after the last record of it.
LEMMA GoneStep ==
    ASSUME SensorInv, [Next]_vars
    PROVE  GoneWithParent'
<1> USE SensorRecordsAssumption
    DEF recordVars, nativeVars, workerVars, flagVars, SensorInv, TypeOK, RecordsKnown,
        Working, GoneWithParent, Slots, Free, Occupied, OfParent, InHand, Running
<1>1. CASE Refuse
  BY <1>1 DEF Refuse, End, Find
<1>2. CASE Begin
  BY <1>2 DEF Begin, Starts, Find
<1>3. CASE Removed
  BY <1>3 DEF Removed, End
<1>4. CASE Named
  BY <1>4, RecordsKept DEF Named, RemoveSensor, Waited, Kept
<1>5. CASE Forget
  BY <1>5 DEF Forget, WaitDone, Answered, Waited
<1>6. CASE RemovalFails
  BY <1>6 DEF RemovalFails, End
<1>7. CASE CreateDone
  BY <1>7 DEF CreateDone, End
<1>8. CASE CreateFails
  BY <1>8 DEF CreateFails, End, RemoveSensor, Waited
<1>9. CASE Decide
  BY <1>9 DEF Decide
<1>10. CASE FallAsleep
  BY <1>10 DEF FallAsleep
<1>11. CASE WakeUp
  BY <1>11 DEF WakeUp
<1>12. ASSUME NEW r \in Slots, Create(r) PROVE GoneWithParent'
  <2>1. PICK new, number, p : Added(new, number, p)
    BY <1>12, CreateAdds
  <2>2. UNCHANGED parent
    BY <1>12 DEF Create
  <2>3. QED
    BY <2>1, <2>2 DEF Added
<1>13. ASSUME NEW r \in Slots, CreateRejected(r) PROVE GoneWithParent'
  BY <1>13 DEF CreateRejected, Creatable, End, Starts
<1>14. ASSUME NEW r \in Slots, Configure(r) PROVE GoneWithParent'
  BY <1>14, RecordsKept DEF Configure, End, Kept
<1>15. ASSUME NEW r \in Slots, NextRemoval(r) PROVE GoneWithParent'
  BY <1>15 DEF NextRemoval, RemoveSensor
<1>16. ASSUME NEW q \in Requests, Submit(q) PROVE GoneWithParent'
  BY <1>16 DEF Submit, Prepare
<1>17. ASSUME NEW p \in Parents, SubmitRemoveParent(p) PROVE GoneWithParent'
  BY <1>17 DEF SubmitRemoveParent
<1>18. ASSUME NEW p \in Parents, CompleteParentSensors(p) PROVE GoneWithParent'
  <2>1. Kept
    BY <1>18, RecordsKept
  <2>2. \A x \in Parents : parent[x] # "gone" => parent'[x] # "gone"
    BY <1>18 DEF CompleteParentSensors
  <2>3. \A r \in Slots : Occupied(r) => records[r].parent \in Parents
    BY RecordFacts
  <2>4. QED
    BY <2>1, <2>2, <2>3 DEF Kept
<1>19. ASSUME NEW p \in Parents, NEW new \in SUBSET Slots, PrepareParentSensors(p, new)
      PROVE  GoneWithParent'
  <2>1. PICK number : Added(new, number, p)
    BY <1>19, PrepareAdds
  <2>2. parent' = [parent EXCEPT ![p] = "pending"]
    BY <1>19 DEF PrepareParentSensors
  <2>3. QED
    BY <2>1, <2>2 DEF Added
<1>20. ASSUME NEW n \in Sensors, Acknowledge(n) PROVE GoneWithParent'
  BY <1>20 DEF Acknowledge, Woken, Waited
<1>21. ASSUME NEW n \in Sensors, Release(n) PROVE GoneWithParent'
  BY <1>21 DEF Release, Woken, Waited
<1>22. CASE Expire
  BY <1>22 DEF Expire
<1>23. CASE Cancel
  BY <1>23 DEF Cancel
<1>24. CASE Stop
  BY <1>24 DEF Stop
<1>25. ASSUME NEW who \in {"cancel", "stop"}, Notify(who) PROVE GoneWithParent'
  BY <1>25 DEF Notify
<1>26. CASE UNCHANGED vars
  BY <1>26 DEF vars
<1> HIDE DEF SensorInv, TypeOK, RecordTypes, WorkerTypes, RecordsKnown, Working, NoOrphan,
             GoneWithParent
<1>27. QED
  BY <1>1, <1>2, <1>3, <1>4, <1>5, <1>6, <1>7, <1>8, <1>9, <1>10, <1>11, <1>12, <1>13,
     <1>14, <1>15, <1>16, <1>17, <1>18, <1>19, <1>20, <1>21, <1>22, <1>23, <1>24, <1>25,
     <1>26
     DEF Next, Worker

\* A world without sensors satisfies the invariant.
LEMMA InitSensors == Init => SensorInv
<1> SUFFICES ASSUME Init PROVE SensorInv
  OBVIOUS
<1> USE SensorRecordsAssumption DEF Init
<1>1. \A r \in Slots : ~Occupied(r)
  BY DEF Occupied
<1>2. TypeOK
  <2>1. /\ records \in [Slots -> Records \cup {Free}]
        /\ native \in [Sensors -> {"none", "pending", "live", "leaving", "gone"}]
        /\ parent \in [Parents -> {"none", "pending", "present", "gone"}]
        /\ next \in 1..(MaxSensors + 1)
    OBVIOUS
  <2>2. registry = {records[r].sensor : r \in {q \in Slots : Occupied(q)}}
    BY <1>1
  <2>3. QED
    BY <2>1, <2>2 DEF TypeOK
<1>3. RecordsKnown
  BY <1>1 DEF RecordsKnown, Sensors
<1>4. Working
  BY DEF Working, NoCommand, Running
<1>5. NoOrphan /\ GoneWithParent
  BY <1>1 DEF NoOrphan, GoneWithParent
<1>6. QED
  BY <1>2, <1>3, <1>4, <1>5 DEF SensorInv

\* The invariant holds in every reachable state.
THEOREM SensorsInductive == Spec => []SensorInv
<1>1. Init => SensorInv
  BY InitSensors
<1>2. SensorInv /\ [Next]_vars => SensorInv'
  BY TypeStep, KnownStep, WorkingStep, OrphanStep, GoneStep DEF SensorInv
<1>3. QED
  BY <1>1, <1>2, PTL DEF Spec

\* The records, the registry and the worker keep their types.
THEOREM SensorTypes == Spec => []TypeOK
<1>1. SensorInv => TypeOK
  BY DEF SensorInv
<1>2. QED
  BY SensorsInductive, <1>1, PTL

\* Every sensor that Gazebo has, or may still get, can be removed by a client.
THEOREM SensorsAreReachable == Spec => []NoOrphan
<1>1. SensorInv => NoOrphan
  BY DEF SensorInv
<1>2. QED
  BY SensorsInductive, <1>1, PTL

\* An entity that left the table left no sensor behind.
THEOREM SensorsGoWithTheirEntity == Spec => []GoneWithParent
<1>1. SensorInv => GoneWithParent
  BY DEF SensorInv
<1>2. QED
  BY SensorsInductive, <1>1, PTL

\* No command reaches a sensor or a revision that its client has not seen.
THEOREM CommandsAreFenced == Spec => Fenced
<1> DEFINE Step ==
        \A r \in Slots : Occupied(r) /\ records'[r] # records[r] =>
          /\ records'[r] = Free /\ command.kind = "remove" =>
                command.generation = records[r].sensor
          /\ records'[r] # Free /\ records'[r].desired # records[r].desired =>
                /\ command.generation = records[r].sensor
                /\ command.expected = records[r].desired
<1>1. SensorInv /\ [Next]_vars => Step
  <2> SUFFICES ASSUME SensorInv, [Next]_vars PROVE Step
    OBVIOUS
  <2> USE SensorRecordsAssumption DEF SensorInv, TypeOK, Slots, Free, Occupied
  <2>1. CASE UNCHANGED records
    BY <2>1
  <2>2. CASE Forget
    BY <2>2 DEF Forget, Working, InHand, Running
  <2>3. CASE Named
    BY <2>3 DEF Named, Records
  <2>4. ASSUME NEW r \in Slots, Create(r) PROVE Step
    BY <2>4 DEF Create, Creatable, FirstFree
  <2>5. ASSUME NEW r \in Slots, Configure(r) PROVE Step
    BY <2>5 DEF Configure, Find, Starts, Working, Records
  <2>6. ASSUME NEW p \in Parents, CompleteParentSensors(p) PROVE Step
    <3>1. \A r \in Slots : Occupied(r) => records[r] \in Records
      OBVIOUS
    <3>2. \A r \in Slots :
             \/ records'[r] = records[r]
             \/ records'[r] = [records[r] EXCEPT !.named = TRUE, !.applied = records[r].desired]
      BY <2>6 DEF CompleteParentSensors
    <3>3. ASSUME NEW r \in Slots, Occupied(r)
          PROVE  /\ records'[r].desired = records[r].desired
                 /\ records'[r].sensor = records[r].sensor
      <4>1. records[r] \in Records
        BY <3>1, <3>3
      <4>2. LET y == [records[r] EXCEPT !.named = TRUE, !.applied = records[r].desired]
            IN  y.desired = records[r].desired /\ y.sensor = records[r].sensor
        BY <4>1 DEF Records
      <4> HIDE DEF SensorInv, TypeOK
      <4>3. QED
        BY <3>2, <4>2
    <3>4. \A r \in Slots : Occupied(r) => records[r].sensor \in Sensors
      BY <3>1, RecordFacts
    <3> HIDE DEF SensorInv, TypeOK
    <3>5. QED
      BY <3>3, <3>4 DEF Sensors
  <2>7. ASSUME NEW p \in Parents, NEW new \in SUBSET Slots, PrepareParentSensors(p, new)
        PROVE  Step
    BY <2>7 DEF PrepareParentSensors
  <2> HIDE DEF Step, SensorInv, TypeOK
  <2>8. QED
    BY <2>1, <2>2, <2>3, <2>4, <2>5, <2>6, <2>7
       DEF Next, Worker, vars, recordVars, Refuse, Begin, Removed, RemovalFails, CreateDone,
           CreateFails, Decide, FallAsleep, WakeUp, CreateRejected, NextRemoval, Submit,
           SubmitRemoveParent, Acknowledge, Release, Expire, Cancel, Stop, Notify
<1>2. SensorInv /\ [Next]_vars => [Step]_vars
  BY <1>1
<1>3. QED
  BY SensorsInductive, <1>2, PTL DEF Spec, Fenced

\* Records, native sensors and entities agree.
THEOREM RecordsAreConsistent == Spec => []RecordsAgree
  BY SensorTypes, SensorsAreReachable, SensorsGoWithTheirEntity, PTL DEF RecordsAgree
=============================================================================
