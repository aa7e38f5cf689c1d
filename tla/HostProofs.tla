------------------------------ MODULE HostProofs ------------------------------
(***************************************************************************)
(* Proofs about the parts beside the simulation service, each of them a     *)
(* specification of its own: the seats of the chassis (Spec), the health of *)
(* the components (HealthSpec) and the contact monitor (ContactSpec).  They *)
(* hold for any number of models and robots, endpoints, clients, scene      *)
(* models and contacts, and for any bound of the clocks and counters.       *)
(***************************************************************************)
EXTENDS ChassisSeats, ComponentHealth, ContactMonitor, FiniteSetTheorems, TLAPS

-------------------------------------------------------------------------------
(***************************************************************************)
(* The seats of the chassis.  The invariant has two parts: the seats, the  *)
(* domain and the models, of which nobody asks the queue anything, and the *)
(* queue of the callbacks with the messages of their subscriptions.        *)
(***************************************************************************)
SeatTypes ==
    /\ phase \in [Seats -> {"none", "reserved", "enrolled", "closed", "unrostered", "gone"}]
    /\ seats \in [Ids -> Seats \cup {NoSeat}]
    /\ zeroed \subseteq held
    /\ command \in [Seats -> BOOLEAN] /\ output \in [Seats -> BOOLEAN]

\* A seat that is not gone has the map's entry of its robot.
Mapped ==
    \A s \in Seats : phase[s] \in {"reserved", "enrolled", "closed", "unrostered"} =>
        seats[IdOf[s]] = s

\* The roster has the robot of every enrolled seat, and of no seat that is only reserved.
Rostered ==
    \A i \in Ids :
        /\ (\E s \in Seats : IdOf[s] = i /\ phase[s] = "enrolled") => i \in roster
        /\ i \in roster => \E s \in Seats : IdOf[s] = i /\ phase[s] \in {"enrolled", "closed"}

\* Whoever holds a seat's mutex over two steps holds that of an open seat, and a message
\* that is about to be applied was admitted after the last zero.
LocksOpen ==
    /\ dispatching # Idle => \A s \in Seats :
           dispatching.seat = s => Open(s) /\ IdOf[s] \notin zeroed
    /\ controlling # Idle => controlling.seat \in Seats /\ Open(controlling.seat)

SeatsInv == SeatTypes /\ Mapped /\ Rostered /\ HeldIsZero /\ LocksOpen

\* The world without a chassis satisfies the invariant.
LEMMA InitSeats == Init => SeatsInv
  BY ChassisSeatsAssumption
     DEF Init, SeatsInv, SeatTypes, Mapped, Rostered, HeldIsZero, LocksOpen, Open, Idle

\* Each step of the seats, the domain and the models keeps the invariant.
LEMMA SeatsStep ==
    ASSUME SeatsInv, [Next]_vars
    PROVE  SeatsInv'
<1> USE ChassisSeatsAssumption
    DEF SeatsInv, SeatTypes, Mapped, Rostered, HeldIsZero, LocksOpen, Open, Unlocked,
        hostVars, domainVars, modelVars, rosVars, lockVars
<1>1. ASSUME NEW s \in Seats, Reserve(s) PROVE SeatsInv'
  BY <1>1 DEF Reserve
<1>2. ASSUME NEW s \in Seats, ReserveFails(s) PROVE SeatsInv'
  BY <1>2 DEF ReserveFails
<1>3. ASSUME NEW s \in Seats, Enroll(s) PROVE SeatsInv'
  BY <1>3 DEF Enroll
<1>4. ASSUME NEW s \in Seats, NEW zero \in BOOLEAN, CloseSeat(s, zero) PROVE SeatsInv'
  BY <1>4 DEF CloseSeat
<1>5. ASSUME NEW s \in Seats, Unroster(s) PROVE SeatsInv'
  BY <1>5 DEF Unroster
<1>6. ASSUME NEW s \in Seats, Erase(s) PROVE SeatsInv'
  BY <1>6 DEF Erase
<1>7. ASSUME NEW s \in Seats, Receive(s) PROVE SeatsInv'
  BY <1>7 DEF Receive
<1>8. ASSUME NEW s \in Seats, ObserveHold(s) PROVE SeatsInv'
  BY <1>8 DEF ObserveHold
<1>9. ASSUME NEW i \in Ids, Engage(i) PROVE SeatsInv'
  BY <1>9 DEF Engage
<1>10. ASSUME NEW i \in Ids, Release(i) PROVE SeatsInv'
  BY <1>10 DEF Release
<1>11. ASSUME NEW i \in Ids, Tick(i) PROVE SeatsInv'
  BY <1>11 DEF Tick, WriteZero
<1>12. ASSUME NEW i \in Ids, ZeroOutput(i) PROVE SeatsInv'
  BY <1>12 DEF ZeroOutput, WriteZero
<1>13. CASE Stop
  BY <1>13 DEF Stop
<1>14. CASE Drop
  BY <1>14 DEF Drop
<1>15. CASE Dispatch
  BY <1>15 DEF Dispatch, Allowed, Admit
<1>16. CASE Apply
  BY <1>16 DEF Apply
<1>17. CASE Control
  BY <1>17 DEF Control
<1>18. CASE TimePasses
  BY <1>18 DEF TimePasses
<1>19. CASE UNCHANGED vars
  BY <1>19 DEF vars
<1> HIDE DEF SeatsInv, SeatTypes, Mapped, Rostered, HeldIsZero, LocksOpen
<1>20. QED
  BY <1>1, <1>2, <1>3, <1>4, <1>5, <1>6, <1>7, <1>8, <1>9, <1>10, <1>11, <1>12, <1>13,
     <1>14, <1>15, <1>16, <1>17, <1>18, <1>19 DEF Next

\* The invariant holds in every reachable state.
THEOREM SeatsInductive == Spec => []SeatsInv
<1>1. Init => SeatsInv
  BY InitSeats
<1>2. SeatsInv /\ [Next]_vars => SeatsInv'
  BY SeatsStep
<1>3. QED
  BY <1>1, <1>2, PTL DEF Spec

\* A robot has at most one open seat: both would be the map's entry of its ID.
THEOREM OneModel == Spec => []OneModelPerRobot
<1>1. SeatsInv => OneModelPerRobot
  BY ChassisSeatsAssumption DEF SeatsInv, Mapped, OneModelPerRobot, Open
<1>2. QED
  BY SeatsInductive, <1>1, PTL

\* The roster names exactly the robots with an enrolled seat, and the ones whose
\* enrolled seat is being closed.
THEOREM RosterIsRight == Spec => []RosterIsEnrolled
<1>1. SeatsInv => RosterIsEnrolled
  BY ChassisSeatsAssumption DEF SeatsInv, Mapped, Rostered, RosterIsEnrolled
<1>2. QED
  BY SeatsInductive, <1>1, PTL

\* A held robot drives nothing once its zero was written, whoever was between
\* the question to the domain and the command when the hold came.
THEOREM HeldRobotsStand == Spec => []HeldIsZero
<1>1. SeatsInv => HeldIsZero
  BY DEF SeatsInv
<1>2. QED
  BY SeatsInductive, <1>1, PTL

\* After CloseSeat nobody writes to the model: the closing waits for the holder of
\* the seat's mutex, and whoever takes it later finds the seat closed.
THEOREM ClosedSeatsAreSilent == Spec => ClosedIsSilent
<1> DEFINE Silent == \A s \in Seats : phase[s] \in {"closed", "unrostered", "gone"} =>
                         command'[s] = command[s] /\ output'[s] = output[s]
<1>1. SeatsInv /\ [Next]_vars => Silent
  <2> SUFFICES ASSUME SeatsInv, [Next]_vars, NEW s \in Seats,
                      phase[s] \in {"closed", "unrostered", "gone"}
               PROVE  command'[s] = command[s] /\ output'[s] = output[s]
    OBVIOUS
  <2> USE DEF SeatsInv, SeatTypes, LocksOpen, Open,
              hostVars, domainVars, modelVars, rosVars, lockVars
  <2>1. ASSUME NEW t \in Seats, NEW zero \in BOOLEAN, CloseSeat(t, zero)
        PROVE  command'[s] = command[s] /\ output'[s] = output[s]
    BY <2>1 DEF CloseSeat
  <2>2. ASSUME NEW t, WriteZero(t)
        PROVE  command'[s] = command[s] /\ output'[s] = output[s]
    BY <2>2 DEF WriteZero
  <2>3. CASE Apply
    BY <2>3 DEF Apply
  <2>4. CASE Control
    BY <2>4 DEF Control
  <2>5. CASE UNCHANGED modelVars
    BY <2>5
  <2> HIDE DEF SeatsInv, SeatTypes, LocksOpen, Open, modelVars
  <2>6. QED
    BY <2>1, <2>2, <2>3, <2>4, <2>5
       DEF Next, vars, Reserve, ReserveFails, Enroll, Unroster, Erase, Receive, ObserveHold,
           Engage, Release, Tick, ZeroOutput, Stop, Drop, Dispatch, TimePasses
<1>2. SeatsInv /\ [Next]_vars => [Silent]_vars
  BY <1>1
<1>3. QED
  BY SeatsInductive, <1>2, PTL DEF Spec, ClosedIsSilent
\* The queue and its messages, of which no callback is older than the clock.
QueueInv ==
    /\ queue \in Seq(Callbacks) /\ Len(queue) <= MaxCallbacks
    /\ message \in [Seats -> Times \cup {None}] /\ now \in Times
    /\ \A s \in Seats : message[s] # None => message[s] <= now
    /\ QueueIsKept

\* What a sequence without one of its elements holds.
LEMMA Removed ==
    ASSUME NEW S, NEW q \in Seq(S), NEW k \in DOMAIN q
    PROVE  /\ RemoveAt(q, k) \in Seq(S) /\ Len(RemoveAt(q, k)) = Len(q) - 1
           /\ \A j \in DOMAIN RemoveAt(q, k) :
                  RemoveAt(q, k)[j] = IF j < k THEN q[j] ELSE q[j + 1]
<1>1. k \in 1..Len(q) /\ Len(q) \in Nat
  OBVIOUS
<1>2. /\ SubSeq(q, 1, k - 1) \in Seq(S) /\ Len(SubSeq(q, 1, k - 1)) = k - 1
      /\ \A j \in 1..(k - 1) : SubSeq(q, 1, k - 1)[j] = q[j]
  BY <1>1
<1>3. /\ SubSeq(q, k + 1, Len(q)) \in Seq(S)
      /\ Len(SubSeq(q, k + 1, Len(q))) = Len(q) - k
      /\ \A j \in 1..(Len(q) - k) : SubSeq(q, k + 1, Len(q))[j] = q[k + j]
  BY <1>1
<1> DEFINE a == SubSeq(q, 1, k - 1)
           b == SubSeq(q, k + 1, Len(q))
<1>4. RemoveAt(q, k) = a \o b
  BY DEF RemoveAt
<1> HIDE DEF a, b
<1>5. /\ a \in Seq(S) /\ Len(a) = k - 1 /\ b \in Seq(S) /\ Len(b) = Len(q) - k
      /\ \A j \in 1..(k - 1) : a[j] = q[j]
      /\ \A j \in 1..(Len(q) - k) : b[j] = q[k + j]
  BY <1>2, <1>3 DEF a, b
<1>6. a \o b \in Seq(S) /\ Len(a \o b) = Len(a) + Len(b)
  <2>1. a \in Seq(S) /\ b \in Seq(S)
    BY <1>5
  <2>2. a \o b \in Seq(S)
    BY <2>1
  <2>3. Len(a \o b) = Len(a) + Len(b)
    BY <2>1
  <2>4. QED
    BY <2>2, <2>3
<1>7. ASSUME NEW j \in 1..Len(a) PROVE (a \o b)[j] = a[j]
  BY <1>5
<1>8. ASSUME NEW j \in 1..Len(b) PROVE (a \o b)[Len(a) + j] = b[j]
  BY <1>5
<1>9. \A j \in 1..(Len(q) - 1) : (a \o b)[j] = IF j < k THEN q[j] ELSE q[j + 1]
  <2> TAKE j \in 1..(Len(q) - 1)
  <2>1. CASE j < k
    <3>1. j \in 1..(k - 1) /\ j \in 1..Len(a)
      BY <2>1, <1>1, <1>5
    <3>2. QED
      BY <2>1, <3>1, <1>5, <1>7
  <2>2. CASE ~(j < k)
    <3> DEFINE i == j - (k - 1)
    <3>1. i \in 1..(Len(q) - k) /\ i \in 1..Len(b) /\ Len(a) + i = j /\ k + i = j + 1
      BY <2>2, <1>1, <1>5
    <3>2. b[i] = q[k + i] /\ (a \o b)[Len(a) + i] = b[i]
      BY <3>1, <1>5, <1>8
    <3> HIDE DEF i
    <3>3. QED
      BY <2>2, <3>1, <3>2
  <2>3. QED
    BY <2>1, <2>2
<1>10. Len(a \o b) = Len(q) - 1
  BY <1>1, <1>5, <1>6
<1>11. DOMAIN (a \o b) = 1..(Len(q) - 1)
  BY <1>6, <1>10
<1>12. QED
  BY <1>4, <1>6, <1>9, <1>10, <1>11

\* A queue that loses its callbacks of a seat keeps the others' order and messages.
LEMMA WithoutKeeps ==
    ASSUME QueueInv, NEW s \in Seats
    PROVE  /\ Without(s) \in Seq(Callbacks) /\ Len(Without(s)) <= MaxCallbacks
           /\ \A j \in DOMAIN Without(s) : Without(s)[j].seat # s
           /\ \A j \in DOMAIN Without(s) : \E k \in DOMAIN queue : Without(s)[j] = queue[k]
           /\ \A i, j \in DOMAIN Without(s) : Without(s)[i].seat = Without(s)[j].seat => i = j
<1> USE ChassisSeatsAssumption
<1>1. CASE \E k \in DOMAIN queue : queue[k].seat = s
  <2> DEFINE n == CHOOSE k \in DOMAIN queue : queue[k].seat = s
             rest == RemoveAt(queue, n)
  <2>1. n \in DOMAIN queue /\ queue[n].seat = s /\ Without(s) = rest
    BY <1>1 DEF Without
  <2>2. queue \in Seq(Callbacks) /\ Len(queue) \in Nat /\ DOMAIN queue = 1..Len(queue)
    BY DEF QueueInv
  <2> HIDE DEF n
  <2>3. /\ rest \in Seq(Callbacks) /\ Len(rest) = Len(queue) - 1
        /\ \A j \in DOMAIN rest : rest[j] = IF j < n THEN queue[j] ELSE queue[j + 1]
    BY <2>1, <2>2, Removed
  <2> HIDE DEF rest
  <2>4. DOMAIN rest = 1..(Len(queue) - 1)
    BY <2>2, <2>3
  <2>5. \A i, j \in DOMAIN queue : queue[i].seat = queue[j].seat => i = j
    BY DEF QueueInv, QueueIsKept
  <2>6. \A j \in DOMAIN rest : rest[j].seat # s
    BY <2>1, <2>2, <2>3, <2>4, <2>5
  <2>7. \A j \in DOMAIN rest : \E k \in DOMAIN queue : rest[j] = queue[k]
    BY <2>1, <2>2, <2>3, <2>4
  <2>8. \A i, j \in DOMAIN rest : rest[i].seat = rest[j].seat => i = j
    BY <2>1, <2>2, <2>3, <2>4, <2>5
  <2>9. Len(rest) <= MaxCallbacks
    BY <2>2, <2>3 DEF QueueInv
  <2>10. QED
    BY <2>1, <2>3, <2>6, <2>7, <2>8, <2>9
<1>2. CASE ~\E k \in DOMAIN queue : queue[k].seat = s
  BY <1>2 DEF Without, QueueInv, QueueIsKept
<1>3. QED
  BY <1>1, <1>2

\* The callback at the head of the queue, and the queue and its messages without it.
LEMMA TakenKeeps ==
    ASSUME QueueInv, queue # <<>>, Taken, UNCHANGED now
    PROVE  QueueInv' /\ Head(queue) \in Callbacks
           /\ message[Head(queue).seat] \in Times
           /\ Head(queue).stamp <= message[Head(queue).seat]
<1> USE ChassisSeatsAssumption
<1>1. queue \in Seq(Callbacks) /\ Len(queue) \in Nat \ {0} /\ DOMAIN queue = 1..Len(queue)
  BY DEF QueueInv
<1>2. Head(queue) = queue[1] /\ queue[1] \in Callbacks /\ 1 \in DOMAIN queue
  BY <1>1
<1>3. /\ Tail(queue) \in Seq(Callbacks) /\ DOMAIN Tail(queue) = 1..(Len(queue) - 1)
      /\ Len(Tail(queue)) = Len(queue) - 1
      /\ \A k \in 1..(Len(queue) - 1) : Tail(queue)[k] = queue[k + 1]
  BY <1>1
<1>4. queue' = Tail(queue) /\ message' = [message EXCEPT ![queue[1].seat] = None] /\ now' = now
  BY <1>2 DEF Taken
<1>5. queue' \in Seq(Callbacks) /\ Len(queue') <= MaxCallbacks
  BY <1>1, <1>3, <1>4 DEF QueueInv
<1>6. /\ message' \in [Seats -> Times \cup {None}] /\ now' \in Times
      /\ \A s \in Seats : message'[s] # None => message'[s] <= now'
  BY <1>2, <1>4 DEF QueueInv, Callbacks
<1>7. \A i, j \in DOMAIN queue : queue[i].seat = queue[j].seat => i = j
  BY DEF QueueInv, QueueIsKept
<1>8. \A j, k \in DOMAIN queue' : queue'[j].seat = queue'[k].seat => j = k
  BY <1>1, <1>3, <1>4, <1>7
<1>9. \A k \in DOMAIN queue' : /\ message'[queue'[k].seat] # None
                               /\ queue'[k].stamp <= message'[queue'[k].seat]
  <2> SUFFICES ASSUME NEW k \in DOMAIN queue'
               PROVE  /\ message'[queue'[k].seat] # None
                      /\ queue'[k].stamp <= message'[queue'[k].seat]
    OBVIOUS
  <2>1. k + 1 \in DOMAIN queue /\ queue'[k] = queue[k + 1] /\ k + 1 # 1
    BY <1>1, <1>3, <1>4
  <2>2. queue[k + 1].seat # queue[1].seat /\ queue[k + 1] \in Callbacks
    BY <2>1, <1>1, <1>2, <1>7
  <2>3. message'[queue[k + 1].seat] = message[queue[k + 1].seat]
    BY <2>2, <1>4 DEF QueueInv, Callbacks
  <2>4. QED
    BY <2>1, <2>3 DEF QueueInv, QueueIsKept
<1>10. message[queue[1].seat] # None /\ queue[1].stamp <= message[queue[1].seat]
  BY <1>2 DEF QueueInv, QueueIsKept
<1>11. message[queue[1].seat] \in Times
  BY <1>2, <1>10 DEF QueueInv, Callbacks
<1>12. QED
  BY <1>2, <1>5, <1>6, <1>8, <1>9, <1>10, <1>11 DEF QueueInv, QueueIsKept

\* A seat whose message is replaced, and the clock that only moves on, keep the queue.
LEMMA QueueStep ==
    ASSUME QueueInv, [Next]_vars
    PROVE  QueueInv'
<1> USE ChassisSeatsAssumption DEF hostVars, domainVars, modelVars, rosVars, lockVars
<1>1. CASE UNCHANGED <<rosVars, now>>
  BY <1>1 DEF QueueInv, QueueIsKept
<1>2. ASSUME NEW s \in Seats, Erase(s) PROVE QueueInv'
  <2>1. queue' = Without(s) /\ message' = [message EXCEPT ![s] = None] /\ now' = now
    BY <1>2 DEF Erase
  <2>2. /\ queue' \in Seq(Callbacks) /\ Len(queue') <= MaxCallbacks
        /\ \A j \in DOMAIN queue' : queue'[j].seat # s
        /\ \A j \in DOMAIN queue' : \E k \in DOMAIN queue : queue'[j] = queue[k]
        /\ \A i, j \in DOMAIN queue' : queue'[i].seat = queue'[j].seat => i = j
    BY <2>1, WithoutKeeps
  <2>3. \A k \in DOMAIN queue : queue[k] \in Callbacks
    BY DEF QueueInv
  <2>4. \A t \in Seats : t # s => message'[t] = message[t]
    BY <2>1 DEF QueueInv
  <2>5. /\ message' \in [Seats -> Times \cup {None}]
        /\ \A t \in Seats : message'[t] # None => message'[t] <= now'
    BY <2>1 DEF QueueInv
  <2>6. \A k \in DOMAIN queue' : /\ message'[queue'[k].seat] # None
                                 /\ queue'[k].stamp <= message'[queue'[k].seat]
    <3> TAKE j \in DOMAIN queue'
    <3>1. PICK k \in DOMAIN queue : queue'[j] = queue[k]
      BY <2>2
    <3>2. queue[k].seat \in Seats /\ queue[k].seat # s
      BY <2>2, <2>3, <3>1 DEF Callbacks
    <3>3. QED
      BY <2>4, <3>1, <3>2 DEF QueueInv, QueueIsKept
  <2>7. QED
    BY <2>1, <2>2, <2>5, <2>6 DEF QueueInv, QueueIsKept
<1>3. ASSUME NEW s \in Seats, Receive(s) PROVE QueueInv'
  <2>1. message' = [message EXCEPT ![s] = now] /\ now' = now /\ now \in Times
    BY <1>3 DEF Receive, QueueInv
  <2>2. \A t \in Seats : /\ message'[t] = IF t = s THEN now ELSE message[t]
                         /\ message'[t] # None => message'[t] <= now'
    <3>1. \A t \in Seats : message'[t] = IF t = s THEN now ELSE message[t]
      BY <2>1 DEF QueueInv
    <3>2. now <= now
      BY <2>1 DEF Times
    <3>3. QED
      BY <2>1, <3>1, <3>2 DEF QueueInv
  <2>3. message' \in [Seats -> Times \cup {None}] /\ now' \in Times /\ now # None
    BY <2>1 DEF QueueInv, Times
  <2>4. \A k \in DOMAIN queue : queue[k] \in Callbacks
    BY DEF QueueInv
  <2>5. \A k \in DOMAIN queue : /\ message'[queue[k].seat] # None
                                /\ queue[k].stamp <= message'[queue[k].seat]
    <3> TAKE k \in DOMAIN queue
    <3>1. queue[k].seat \in Seats /\ queue[k].stamp \in Times
      BY <2>4 DEF Callbacks
    <3>2. message[queue[k].seat] # None /\ queue[k].stamp <= message[queue[k].seat]
      BY DEF QueueInv, QueueIsKept
    <3>3. message[queue[k].seat] \in Times /\ message[queue[k].seat] <= now
      BY <3>1, <3>2 DEF QueueInv
    <3>4. QED
      BY <2>1, <2>2, <2>3, <3>1, <3>2, <3>3 DEF Times
  <2>6. CASE message[s] # None
    <3>1. queue' = queue
      BY <1>3, <2>6 DEF Receive
    <3>2. QED
      BY <2>2, <2>3, <2>5, <3>1 DEF QueueInv, QueueIsKept
  <2>7. CASE message[s] = None
    <3> DEFINE new == [seat |-> s, stamp |-> now]
    <3>1. Len(queue) < MaxCallbacks /\ queue' = Append(queue, new) /\ new \in Callbacks
      BY <1>3, <2>1, <2>7 DEF Receive, Callbacks
    <3>2. /\ queue' \in Seq(Callbacks) /\ Len(queue') = Len(queue) + 1 /\ Len(queue) \in Nat
          /\ DOMAIN queue' = 1..(Len(queue) + 1) /\ DOMAIN queue = 1..Len(queue)
          /\ \A k \in 1..Len(queue) : queue'[k] = queue[k]
          /\ queue'[Len(queue) + 1] = new
      BY <3>1 DEF QueueInv
    <3>3. \A k \in DOMAIN queue : queue[k].seat # s
      BY <2>7 DEF QueueInv, QueueIsKept
    <3>4. new.seat = s /\ new.stamp = now /\ now <= now /\ message'[s] = now
      BY <2>1, <2>2 DEF Times
    <3> HIDE DEF new
    <3>5. \A k \in DOMAIN queue' : /\ message'[queue'[k].seat] # None
                                   /\ queue'[k].stamp <= message'[queue'[k].seat]
      BY <2>3, <2>5, <3>2, <3>4
    <3>6. \A i, j \in DOMAIN queue : queue[i].seat = queue[j].seat => i = j
      BY DEF QueueInv, QueueIsKept
    <3>7. \A i, j \in DOMAIN queue' : queue'[i].seat = queue'[j].seat => i = j
      BY <3>2, <3>3, <3>4, <3>6
    <3>8. Len(queue') <= MaxCallbacks
      BY <3>1, <3>2
    <3>9. QED
      BY <2>2, <2>3, <3>2, <3>5, <3>7, <3>8 DEF QueueInv, QueueIsKept
  <2>8. QED
    BY <2>6, <2>7
<1>4. ASSUME Drop \/ Dispatch PROVE QueueInv'
  BY <1>4, TakenKeeps DEF Drop, Dispatch
<1>5. CASE TimePasses
  <2>1. now' = now + 1 /\ now < MaxTime /\ now \in Times /\ UNCHANGED <<queue, message>>
    BY <1>5 DEF TimePasses, QueueInv
  <2>2. \A s \in Seats : message'[s] # None => message'[s] <= now'
    BY <2>1 DEF QueueInv, Times
  <2>3. now' \in Times
    BY <2>1 DEF Times
  <2>4. QED
    BY <2>1, <2>2, <2>3 DEF QueueInv, QueueIsKept
<1>6. QED
  BY <1>1, <1>2, <1>3, <1>4, <1>5
     DEF Next, vars, Reserve, ReserveFails, Enroll, CloseSeat, Unroster, ObserveHold,
         Engage, Release, Tick, ZeroOutput, Stop, Apply, Control

\* The callbacks of ROS and the messages of their subscriptions agree in every
\* reachable state.
LEMMA QueueInductive == Spec => []QueueInv
<1>1. Init => QueueInv
  BY ChassisSeatsAssumption DEF Init, QueueInv, QueueIsKept, Times
<1>2. QueueInv /\ [Next]_vars => QueueInv'
  BY QueueStep
<1>3. QED
  BY <1>1, <1>2, PTL DEF Spec

\* Every variable of the seats has its type; what the queue and the mutexes hold is part
\* of it: a dispatched callback is of a seat, with the time of a message.
LEMMA TypesStep ==
    ASSUME TypeOK, SeatsInv, QueueInv, QueueInv', [Next]_vars
    PROVE  TypeOK'
<1> USE ChassisSeatsAssumption
    DEF hostVars, domainVars, modelVars, rosVars, lockVars, Open, Unlocked
<1> DEFINE Q == /\ queue' \in Seq(Callbacks) /\ Len(queue') <= MaxCallbacks
                /\ message' \in [Seats -> Times \cup {None}] /\ now' \in Times
<1>0. Q
  BY DEF QueueInv
<1>1. ASSUME NEW s \in Seats, Reserve(s) PROVE TypeOK'
  BY <1>0, <1>1 DEF Reserve, TypeOK
<1>2. ASSUME NEW s \in Seats, ReserveFails(s) PROVE TypeOK'
  BY <1>0, <1>2 DEF ReserveFails, TypeOK
<1>3. ASSUME NEW s \in Seats, Enroll(s) PROVE TypeOK'
  BY <1>0, <1>3 DEF Enroll, TypeOK
<1>4. ASSUME NEW s \in Seats, NEW zero \in BOOLEAN, CloseSeat(s, zero) PROVE TypeOK'
  BY <1>0, <1>4 DEF CloseSeat, TypeOK
<1>5. ASSUME NEW s \in Seats, Unroster(s) PROVE TypeOK'
  BY <1>0, <1>5 DEF Unroster, TypeOK
<1>6. ASSUME NEW s \in Seats, Erase(s) PROVE TypeOK'
  BY <1>0, <1>6 DEF Erase, TypeOK
<1>7. ASSUME NEW s \in Seats, Receive(s) PROVE TypeOK'
  BY <1>0, <1>7 DEF Receive, TypeOK
<1>8. ASSUME NEW s \in Seats, ObserveHold(s) PROVE TypeOK'
  <2>1. controlling' \in [seat : Seats, value : BOOLEAN]
    BY <1>8 DEF ObserveHold, Admit
  <2>2. controlling'.seat = s /\ dispatching.seat # s /\ dispatching' = dispatching
    BY <1>8 DEF ObserveHold
  <2>3. QED
    BY <1>0, <1>8, <2>1, <2>2 DEF ObserveHold, TypeOK
<1>9. ASSUME NEW i \in Ids, Engage(i) PROVE TypeOK'
  BY <1>0, <1>9 DEF Engage, TypeOK
<1>10. ASSUME NEW i \in Ids, Release(i) PROVE TypeOK'
  BY <1>0, <1>10 DEF Release, TypeOK
<1>11. ASSUME NEW i \in Ids, Tick(i) PROVE TypeOK'
  BY <1>0, <1>11 DEF Tick, WriteZero, TypeOK
<1>12. ASSUME NEW i \in Ids, ZeroOutput(i) PROVE TypeOK'
  BY <1>0, <1>12 DEF ZeroOutput, WriteZero, TypeOK
<1>13. CASE Stop
  BY <1>0, <1>13 DEF Stop, TypeOK
<1>14. CASE Drop
  BY <1>0, <1>14 DEF Drop, TypeOK
<1>15. CASE Dispatch
  <2>1. /\ Head(queue) \in Callbacks /\ message[Head(queue).seat] \in Times
        /\ queue # <<>> /\ Taken /\ UNCHANGED now
    BY <1>15, TakenKeeps DEF Dispatch
  <2>2. /\ dispatching' = [seat |-> Head(queue).seat, value |-> message[Head(queue).seat]]
        /\ controlling.seat # Head(queue).seat /\ controlling' = controlling
    BY <1>15 DEF Dispatch
  <2>3. /\ dispatching' \in [seat : Seats, value : Times]
        /\ dispatching'.seat = Head(queue).seat
    BY <2>1, <2>2 DEF Callbacks
  <2>4. QED
    BY <1>0, <1>15, <2>2, <2>3 DEF Dispatch, TypeOK
<1>16. CASE Apply
  BY <1>0, <1>16 DEF Apply, TypeOK, Idle
<1>17. CASE Control
  <2>1. controlling \in [seat : Seats, value : BOOLEAN]
    BY <1>17 DEF Control, TypeOK
  <2>2. controlling' = Idle /\ Idle.seat = NoSeat /\ UNCHANGED dispatching
    BY <1>17 DEF Control, Idle
  <2>3. output' \in [Seats -> BOOLEAN]
    BY <1>17, <2>1 DEF Control, TypeOK
  <2>4. dispatching.seat # NoSeat => controlling'.seat # dispatching.seat
    BY <2>2
  <2>5. QED
    BY <1>0, <1>17, <2>2, <2>3, <2>4 DEF Control, TypeOK
<1>18. CASE TimePasses
  BY <1>0, <1>18 DEF TimePasses, TypeOK
<1>19. CASE UNCHANGED vars
  BY <1>19 DEF vars, TypeOK, Callbacks
<1> HIDE DEF Q
<1>20. QED
  BY <1>1, <1>2, <1>3, <1>4, <1>5, <1>6, <1>7, <1>8, <1>9, <1>10, <1>11, <1>12, <1>13,
     <1>14, <1>15, <1>16, <1>17, <1>18, <1>19 DEF Next

\* Seats, roster, map and queue agree in every reachable state.
THEOREM SeatsAreConsistent == Spec => []SeatsAgree
<1>1. Init => TypeOK
  BY ChassisSeatsAssumption DEF Init, TypeOK, Idle, Times
<1>2. TypeOK /\ SeatsInv /\ QueueInv /\ QueueInv' /\ [Next]_vars => TypeOK'
  BY TypesStep
<1>3. Spec => []TypeOK
  BY <1>1, <1>2, SeatsInductive, QueueInductive, PTL DEF Spec
<1>4. QueueInv => QueueIsKept
  BY DEF QueueInv
<1>5. TypeOK /\ OneModelPerRobot /\ RosterIsEnrolled /\ QueueIsKept => SeatsAgree
  BY DEF SeatsAgree
<1>6. QED
  BY <1>3, <1>4, <1>5, OneModel, RosterIsRight, QueueInductive, PTL

\* What is dispatched was received after the last release: its message is as new as the
\* callback it runs under, whose stamp the domain has admitted.
THEOREM DispatchedIsFresh == Spec => AdmittedIsFresh
<1> DEFINE Fresh == dispatching' # dispatching /\ dispatching' # Idle =>
                        dispatching'.value > released[IdOf[dispatching'.seat]]
<1>1. ASSUME TypeOK, QueueInv, Dispatch PROVE Fresh
  <2> USE ChassisSeatsAssumption
  <2>1. /\ Head(queue) \in Callbacks /\ message[Head(queue).seat] \in Times
        /\ Head(queue).stamp <= message[Head(queue).seat]
    BY <1>1, TakenKeeps DEF Dispatch
  <2>2. /\ dispatching' = [seat |-> Head(queue).seat, value |-> message[Head(queue).seat]]
        /\ Head(queue).stamp > released[IdOf[Head(queue).seat]]
    BY <1>1 DEF Dispatch, Allowed, Admit, Stamp
  <2>3. released[IdOf[Head(queue).seat]] \in Times \cup {-1} /\ Head(queue).stamp \in Times
    BY <1>1, <2>1 DEF TypeOK, Callbacks
  <2>4. message[Head(queue).seat] > released[IdOf[Head(queue).seat]]
    BY <2>1, <2>2, <2>3 DEF Times
  <2>5. QED
    BY <2>2, <2>4
<1>2. TypeOK /\ QueueInv /\ [Next]_vars => [Fresh]_vars
  BY <1>1 DEF Next, vars, hostVars, domainVars, modelVars, rosVars, lockVars, Reserve,
              ReserveFails, Enroll, CloseSeat, Unroster, Erase, Receive, ObserveHold,
              Engage, Release, Tick, ZeroOutput, Stop, Drop, Apply, Control, TimePasses
<1>3. SeatsAgree => TypeOK
  BY DEF SeatsAgree
<1>4. QED
  BY <1>2, <1>3, SeatsAreConsistent, QueueInductive, PTL DEF Spec, AdmittedIsFresh

-------------------------------------------------------------------------------
(***************************************************************************)
(* The health of the components.                                           *)
(***************************************************************************)
\* A component has one owner at most.
OneOwner ==
    \A p, q \in Owners : owner[p].on # 0 /\ owner[p].on = owner[q].on => p = q

\* An owner that has begun shows what it said last, also between its report and the
\* revision that announces it.
Said ==
    \A o \in Owners : owner[o].place \in {"bump", "up", "set", "close", "release"} =>
        state[owner[o].on] = owner[o].said

OwnersInv == HealthTypeOK /\ OneOwner /\ Said

\* The clients that are held for each kind of answer stay under the cap: one more
\* is only held where there is room.
LEMMA HoldKeeps ==
    ASSUME HealthTypeOK, NEW k \in Clients, NEW kind \in {"observe", "describe"},
           Hold(k, kind)
    PROVE  /\ waits' \in [Clients -> {"none", "observe", "describe"}]
           /\ \A j \in Clients : waits[j] # "none" => waits'[j] # "none"
           /\ \A a \in {"observe", "describe"} :
                  Cardinality({j \in Clients : waits'[j] = a}) <= ObserverCap
<1> USE ComponentHealthAssumption
<1>1. waits \in [Clients -> {"none", "observe", "describe"}]
  BY DEF HealthTypeOK
<1> DEFINE holding(a) == {j \in Clients : waits[j] = a}
<1>2. /\ waits' \in [Clients -> {"none", "observe", "describe"}]
      /\ \A j \in Clients : waits[j] # "none" => waits'[j] # "none"
  BY <1>1 DEF Hold
<1>3. ASSUME NEW a \in {"observe", "describe"}
      PROVE  Cardinality({j \in Clients : waits'[j] = a}) <= ObserverCap
  <2>1. IsFiniteSet(holding(a)) /\ Cardinality(holding(a)) \in Nat
    <3>1. holding(a) \subseteq Clients
      OBVIOUS
    <3>2. QED
      BY <3>1, FS_Subset, FS_CardinalityType
  <2>2. Cardinality(holding(a)) <= ObserverCap
    BY DEF HealthTypeOK
  <2>3. CASE waits' = waits
    BY <2>2, <2>3
  <2>4. CASE Cardinality(holding(kind)) < ObserverCap /\ waits' = [waits EXCEPT ![k] = kind]
    <3>1. CASE a = kind
      <4>1. {j \in Clients : waits'[j] = a} = holding(a) \cup {k}
        BY <1>1, <2>4, <3>1
      <4>2. \/ Cardinality(holding(a) \cup {k}) = Cardinality(holding(a))
            \/ Cardinality(holding(a) \cup {k}) = Cardinality(holding(a)) + 1
        BY <2>1, FS_AddElement
      <4>3. QED
        BY <2>1, <2>4, <3>1, <4>1, <4>2
    <3>2. CASE a # kind
      <4>1. {j \in Clients : waits'[j] = a} \subseteq holding(a)
        BY <1>1, <2>4, <3>2
      <4>2. /\ Cardinality({j \in Clients : waits'[j] = a}) <= Cardinality(holding(a))
            /\ Cardinality({j \in Clients : waits'[j] = a}) \in Nat
        BY <2>1, <4>1, FS_Subset, FS_CardinalityType
      <4>3. QED
        BY <2>1, <2>2, <4>2
    <3>3. QED
      BY <3>1, <3>2
  <2>5. QED
    BY <2>3, <2>4 DEF Hold
<1>4. QED
  BY <1>2, <1>3

\* Clients that are answered or dropped make room.
LEMMA AnswerKeeps ==
    ASSUME HealthTypeOK, NEW w \in [Clients -> {"none", "observe", "describe"}],
           \A k \in Clients : w[k] \in {"none", waits[k]}
    PROVE  \A a \in {"observe", "describe"} :
               Cardinality({j \in Clients : w[j] = a}) <= ObserverCap
<1> TAKE a \in {"observe", "describe"}
<1>1. /\ {j \in Clients : w[j] = a} \subseteq {j \in Clients : waits[j] = a}
      /\ {j \in Clients : waits[j] = a} \subseteq Clients
  OBVIOUS
<1>2. IsFiniteSet({j \in Clients : waits[j] = a})
  BY <1>1, FS_Subset, ComponentHealthAssumption
<1>3. /\ Cardinality({j \in Clients : w[j] = a}) \in Nat
      /\ Cardinality({j \in Clients : waits[j] = a}) \in Nat
      /\ Cardinality({j \in Clients : w[j] = a}) <= Cardinality({j \in Clients : waits[j] = a})
  BY <1>1, <1>2, FS_Subset, FS_CardinalityType
<1>4. Cardinality({j \in Clients : waits[j] = a}) <= ObserverCap
  BY DEF HealthTypeOK
<1>5. QED
  BY <1>3, <1>4, ComponentHealthAssumption

\* A health that was read is a health.
LEMMA HealthIsView == HealthTypeOK => Health \in Views
<1> SUFFICES ASSUME HealthTypeOK PROVE Health \in Views
  OBVIOUS
<1>1. Lifecycle \in {"starting", "ready", "failed", "stopping"}
  BY DEF Lifecycle
<1> HIDE DEF Lifecycle
<1>2. QED
  BY <1>1 DEF HealthTypeOK, Health, Views

\* The three parts of the types: of the owners, of the IO thread and of the clients.
OwnerTypes ==
    /\ state \in [Components -> States]
    /\ revision \in [Components -> Nat] /\ attached \in [Components -> BOOLEAN]
    /\ owner \in [Owners -> [place : Places, on : Components \cup {0}, said : States]]
    /\ \A o \in Owners :
          /\ (owner[o].on = 0) <=> owner[o].place \in {"none", "gone"}
          /\ owner[o].on # 0 => attached[owner[o].on]

ReaderTypes ==
    /\ world \in BOOLEAN /\ stopping \in {"no", "yes", "joined"}
    /\ io \in Readings /\ at \in 0..2 * NumComponents /\ view \in Views

ClientTypes ==
    /\ waits \in [Clients -> {"none", "observe", "describe"}]
    /\ expired \subseteq {k \in Clients : waits[k] # "none"}
    /\ \A kind \in {"observe", "describe"} :
          Cardinality({k \in Clients : waits[k] = kind}) <= ObserverCap
    /\ seen \in [Clients -> Views]

\* Attachments, reports and releases keep the owners and their components in agreement:
\* only a component without an owner is attached, and only its owner writes its state.
LEMMA OwnersStep ==
    ASSUME OwnerTypes, OneOwner, Said, [HealthNext]_healthVars
    PROVE  OwnerTypes' /\ OneOwner' /\ Said'
<1> USE ComponentHealthAssumption
<1>0. 0 \notin Components
  BY DEF Components
<1>1. ASSUME NEW o \in Owners, NEW c \in Components, Attach(o, c)
      PROVE  OwnerTypes' /\ OneOwner' /\ Said'
  BY <1>0, <1>1 DEF Attach, OwnerTypes, OneOwner, Said, Places, States
\* An owner that writes a state of its component, and says so, at the place it moves to.
<1>2. ASSUME NEW o \in Owners, NEW s \in States, NEW place \in {"bump", "up", "set", "close", "release"},
             owner[o].place \in {"store", "up"}, UNCHANGED <<revision, attached>>,
             state' = [state EXCEPT ![owner[o].on] = s],
             owner' = [owner EXCEPT ![o].said = s, ![o].place = place]
      PROVE  OwnerTypes' /\ OneOwner' /\ Said'
  <2>1. owner[o].on \in Components /\ attached[owner[o].on]
    BY <1>0, <1>2 DEF OwnerTypes
  <2>2. /\ owner' \in [Owners -> [place : Places, on : Components \cup {0}, said : States]]
        /\ owner'[o].place = place /\ owner'[o].said = s
        /\ \A p \in Owners : p # o => owner'[p] = owner[p]
        /\ \A p \in Owners : owner'[p].on = owner[p].on
    BY <1>2, <2>1 DEF OwnerTypes, Places
  <2>3. /\ state' \in [Components -> States]
        /\ state'[owner[o].on] = s
        /\ \A c \in Components : c # owner[o].on => state'[c] = state[c]
    BY <1>2, <2>1 DEF OwnerTypes
  <2>4. OwnerTypes'
    <3>1. ASSUME NEW p \in Owners
          PROVE  /\ (owner'[p].on = 0) <=> owner'[p].place \in {"none", "gone"}
                 /\ owner'[p].on # 0 => attached[owner'[p].on]
      BY <1>0, <1>2, <2>1, <2>2 DEF OwnerTypes
    <3>2. QED
      BY <1>2, <2>2, <2>3, <3>1 DEF OwnerTypes
  <2>5. OneOwner'
    BY <2>2 DEF OneOwner
  <2>6. Said'
    <3> SUFFICES ASSUME NEW p \in Owners,
                        owner'[p].place \in {"bump", "up", "set", "close", "release"}
                 PROVE  state'[owner'[p].on] = owner'[p].said
      BY DEF Said
    <3>1. CASE p = o
      BY <2>2, <2>3, <3>1
    <3>2. CASE p # o
      <4>1. /\ owner[p].on \in Components
            /\ owner[p].on # owner[o].on
            /\ state[owner[p].on] = owner[p].said
        BY <1>0, <2>1, <2>2, <3>2 DEF OwnerTypes, OneOwner, Said
      <4>2. QED
        BY <2>2, <2>3, <3>2, <4>1
    <3>3. QED
      BY <3>1, <3>2
  <2>7. QED
    BY <2>4, <2>5, <2>6
<1>3. ASSUME NEW o \in Owners, Store(o)
      PROVE  OwnerTypes' /\ OneOwner' /\ Said'
  BY <1>2, <1>3 DEF Store, States
<1>4. ASSUME NEW o \in Owners, NEW s \in {"ready", "failed"}, NEW next \in {"set", "close"},
             owner[o].place = "up", Set(o, s, next)
      PROVE  OwnerTypes' /\ OneOwner' /\ Said'
  <2> DEFINE place == IF state[owner[o].on] # s THEN next
                      ELSE IF next = "set" THEN "up" ELSE "release"
  <2>1. owner' = [owner EXCEPT ![o].said = s, ![o].place = place]
    BY <1>4 DEF Set
  <2>2. place \in {"bump", "up", "set", "close", "release"}
    OBVIOUS
  <2> HIDE DEF place
  <2>3. QED
    BY <1>2, <1>4, <2>1, <2>2 DEF Set, States
<1>5. ASSUME NEW o \in Owners, Bump(o)
      PROVE  OwnerTypes' /\ OneOwner' /\ Said'
  BY <1>0, <1>5 DEF Bump, Move, OwnerTypes, OneOwner, Said, Places, States
<1>6. ASSUME NEW o \in Owners, ReleaseComponent(o)
      PROVE  OwnerTypes' /\ OneOwner' /\ Said'
  BY <1>0, <1>6 DEF ReleaseComponent, OwnerTypes, OneOwner, Said, Places, States
<1>7. CASE UNCHANGED componentVars
  BY <1>7 DEF componentVars, OwnerTypes, OneOwner, Said
<1>8. QED
  BY <1>1, <1>3, <1>4, <1>5, <1>6, <1>7
     DEF HealthNext, healthVars, Report, Close, Expire, Ask, Drain, DrainFor, Read, Finish,
         FinishQuery, FinishObserve, FinishDescribe, FinishDrain, MarkNativeReady,
         StopEndpoint, Join

\* What the IO thread reads, and how far it is.
LEMMA ReaderStep ==
    ASSUME HealthTypeOK, [HealthNext]_healthVars
    PROVE  ReaderTypes'
<1> USE ComponentHealthAssumption
<1>0. ReaderTypes
  BY DEF HealthTypeOK, ReaderTypes
<1>1. NoReading \in Readings /\ NotSeen \in Views /\ 0 \in 0..2 * NumComponents
  BY DEF Readings, NotSeen, Views, States
<1>2. ASSUME NEW what \in Readings, Reading(what), UNCHANGED <<world, stopping>>
      PROVE  ReaderTypes'
  <2>1. 1 + Flag(world) + Flag(stopping # "no") \in Nat
    BY DEF Flag
  <2>2. view' \in Views
    BY <1>2, <2>1 DEF Reading, NotSeen, Views, States
  <2>3. QED
    BY <1>0, <1>1, <1>2, <2>2 DEF Reading, ReaderTypes
<1>3. ASSUME NEW then \in {NoReading} \cup Asked, DrainFor(then)
      PROVE  ReaderTypes'
  <2>1. [for |-> "drain", then |-> then] \in Readings
    BY DEF Readings
  <2>2. QED
    BY <1>2, <1>3, <2>1 DEF DrainFor
<1>4. ASSUME NEW k \in Clients, NEW kind \in {"query", "observe", "describe"}, Ask(k, kind)
      PROVE  ReaderTypes'
  <2>1. [for |-> kind, client |-> k] \in Asked
    BY DEF Asked
  <2>2. QED
    BY <1>3, <1>4, <2>1 DEF Ask
<1>5. CASE Read
  <2>1. at \in 0..2 * NumComponents /\ at < 2 * NumComponents /\ at' = at + 1
    BY <1>0, <1>5 DEF Read, ReaderTypes
  <2>2. at \div 2 + 1 \in Components /\ at' \in 0..2 * NumComponents
    BY <2>1 DEF Components
  <2> DEFINE c == at \div 2 + 1
  <2>3. state[c] \in States /\ revision[c] \in Nat
    BY <2>2 DEF HealthTypeOK
  <2>4. [view EXCEPT !.states[c] = state[c]] \in Views
    BY <1>0, <2>2, <2>3 DEF ReaderTypes, Views
  <2>5. [view EXCEPT !.revision = @ + revision[c]] \in Views
    BY <1>0, <2>2, <2>3 DEF ReaderTypes, Views
  <2>6. view' \in Views
    BY <1>5, <2>4, <2>5 DEF Read
  <2>7. QED
    BY <1>0, <1>5, <2>2, <2>6 DEF Read, ReaderTypes
<1>6. ASSUME io' = NoReading, at' = 0, view' = NotSeen, UNCHANGED <<world, stopping>>
      PROVE  ReaderTypes'
  BY <1>0, <1>1, <1>6 DEF ReaderTypes
<1>7. CASE FinishDrain
  <2>1. io \in [for : {"drain"}, then : {NoReading} \cup Asked]
    BY <1>0, <1>7 DEF FinishDrain, ReaderTypes, Readings, NoReading, Asked
  <2>2. io.then = NoReading \/ io.then \in Readings
    BY <2>1 DEF Readings
  <2>3. QED
    BY <1>2, <1>6, <1>7, <2>2 DEF FinishDrain
<1>8. CASE UNCHANGED readVars /\ stopping' \in {"no", "yes", "joined"} /\ world' \in BOOLEAN
  BY <1>0, <1>8 DEF readVars, ReaderTypes
<1>9. NoReading \in {NoReading} \cup Asked
  OBVIOUS
<1>10. CASE UNCHANGED <<readVars, world, stopping>>
  BY <1>0, <1>8, <1>10 DEF ReaderTypes
<1>11. CASE \E k \in Clients : \/ Expire(k)
                               \/ \E kind \in {"query", "observe", "describe"} : Ask(k, kind)
  BY <1>4, <1>10, <1>11 DEF Expire
<1>12. CASE \E o \in Owners : \/ \E c \in Components : Attach(o, c)
                              \/ \E s \in {"ready", "failed"} : Report(o, s)
                              \/ Store(o) \/ Close(o) \/ Bump(o) \/ ReleaseComponent(o)
  BY <1>10, <1>12 DEF Attach, Report, Close, Set, Store, Bump, ReleaseComponent, OthersUnchanged
<1>13. CASE FinishQuery \/ FinishObserve \/ FinishDescribe
  BY <1>6, <1>13 DEF FinishQuery, FinishObserve, FinishDescribe, Finish
<1>14. CASE MarkNativeReady \/ StopEndpoint \/ Join
  BY <1>0, <1>8, <1>14 DEF MarkNativeReady, StopEndpoint, Join, readVars, ReaderTypes
<1>15. CASE UNCHANGED healthVars
  BY <1>10, <1>15 DEF healthVars
<1>16. CASE Drain
  BY <1>3, <1>9, <1>16 DEF Drain
<1>17. QED
  BY <1>5, <1>7, <1>11, <1>12, <1>13, <1>14, <1>15, <1>16 DEF HealthNext

\* Who waits, for how long, and what was answered.
LEMMA ClientsStep ==
    ASSUME HealthTypeOK, [HealthNext]_healthVars
    PROVE  ClientTypes'
<1> USE ComponentHealthAssumption
<1>0. ClientTypes /\ Health \in Views
  BY HealthIsView DEF HealthTypeOK, ClientTypes
<1>1. CASE UNCHANGED clientVars
  BY <1>0, <1>1 DEF clientVars, ClientTypes
<1>2. ASSUME NEW k \in Clients, NEW kind \in {"observe", "describe"}, Hold(k, kind),
             UNCHANGED <<expired, seen>>
      PROVE  ClientTypes'
  BY <1>0, <1>2, HoldKeeps DEF ClientTypes
<1>3. ASSUME io.for \in {"query", "observe", "describe"} PROVE io.client \in Clients
  BY <1>3 DEF HealthTypeOK, Readings, Asked, NoReading
<1>4. ASSUME NEW k \in Clients, Expire(k) PROVE ClientTypes'
  BY <1>0, <1>4 DEF Expire, ClientTypes
<1>5. CASE FinishQuery
  BY <1>0, <1>3, <1>5 DEF FinishQuery, Finish, ClientTypes
<1>6. CASE FinishObserve
  BY <1>0, <1>2, <1>3, <1>6 DEF FinishObserve, Finish, ClientTypes
<1>7. CASE FinishDescribe
  BY <1>0, <1>1, <1>2, <1>3, <1>7 DEF FinishDescribe, Finish, clientVars
<1>8. CASE FinishDrain
  <2>1. seen' \in [Clients -> Views] /\ expired' = {}
    BY <1>0, <1>8 DEF FinishDrain, ClientTypes
  <2>2. waits' \in [Clients -> {"none", "observe", "describe"}]
    BY <1>0, <1>8 DEF FinishDrain, ClientTypes
  <2>3. \A k \in Clients : waits'[k] \in {"none", waits[k]}
    BY <1>8 DEF FinishDrain
  <2>4. \A a \in {"observe", "describe"} :
            Cardinality({j \in Clients : waits'[j] = a}) <= ObserverCap
    BY <2>2, <2>3, AnswerKeeps
  <2>5. QED
    BY <2>1, <2>2, <2>4 DEF ClientTypes
<1>9. CASE Join
  <2>1. /\ waits' = [k \in Clients |-> "none"] /\ expired' = {} /\ seen' = seen
    BY <1>9 DEF Join
  <2>2. /\ waits' \in [Clients -> {"none", "observe", "describe"}]
        /\ \A k \in Clients : waits'[k] \in {"none", waits[k]}
    BY <2>1
  <2>3. \A a \in {"observe", "describe"} :
            Cardinality({j \in Clients : waits'[j] = a}) <= ObserverCap
    BY <2>2, AnswerKeeps
  <2>4. QED
    BY <1>0, <2>1, <2>2, <2>3 DEF ClientTypes
<1>10. QED
  BY <1>1, <1>4, <1>5, <1>6, <1>7, <1>8, <1>9
     DEF HealthNext, healthVars, Attach, Report, Close, Set, Store, Bump, ReleaseComponent,
         OthersUnchanged, Ask, Drain, DrainFor, Read, MarkNativeReady, StopEndpoint

\* Nobody owns a component, nobody asked and nothing is read at first.
LEMMA OwnersInit == HealthInit => OwnersInv
<1> USE ComponentHealthAssumption
<1> SUFFICES ASSUME HealthInit PROVE OwnersInv
  OBVIOUS
<1>1. NotSeen \in Views /\ NoReading \in Readings /\ 0 \notin Components
  BY DEF NotSeen, Views, States, Readings, Components
<1>2. OwnerTypes /\ OneOwner /\ Said
  <2>1. \A o \in Owners : owner[o] = [place |-> "none", on |-> 0, said |-> "missing"]
    BY DEF HealthInit
  <2>2. [place |-> "none", on |-> 0, said |-> "missing"]
            \in [place : Places, on : Components \cup {0}, said : States]
    BY DEF Places, States
  <2>3. /\ owner \in [Owners -> [place : Places, on : Components \cup {0}, said : States]]
        /\ state \in [Components -> States] /\ revision \in [Components -> Nat]
        /\ attached \in [Components -> BOOLEAN]
    BY <2>2 DEF HealthInit, States
  <2>4. QED
    BY <1>1, <2>1, <2>3 DEF OwnerTypes, OneOwner, Said
<1>3. ReaderTypes
  <2>1. 0 \in 0..2 * NumComponents
    OBVIOUS
  <2>2. QED
    BY <1>1, <2>1 DEF HealthInit, ReaderTypes
<1>4. ASSUME NEW a \in {"observe", "describe"}
      PROVE  Cardinality({k \in Clients : waits[k] = a}) <= ObserverCap
  <2>1. {k \in Clients : waits[k] = a} = {}
    BY DEF HealthInit
  <2>2. QED
    BY <2>1, FS_EmptySet
<1>5. ClientTypes
  BY <1>1, <1>4 DEF HealthInit, ClientTypes
<1>6. QED
  BY <1>2, <1>3, <1>5 DEF OwnersInv, HealthTypeOK, OwnerTypes, ReaderTypes, ClientTypes

\* Types, owners and their components agree in every reachable state.
LEMMA OwnersInductive == HealthSpec => []OwnersInv
<1> USE ComponentHealthAssumption
<1>1. HealthTypeOK <=> OwnerTypes /\ ReaderTypes /\ ClientTypes
  BY DEF HealthTypeOK, OwnerTypes, ReaderTypes, ClientTypes
<1>2. (HealthTypeOK <=> OwnerTypes /\ ReaderTypes /\ ClientTypes)'
  BY DEF HealthTypeOK, OwnerTypes, ReaderTypes, ClientTypes
<1>3. HealthInit => OwnersInv
  BY OwnersInit
<1>4. OwnersInv /\ [HealthNext]_healthVars => OwnersInv'
  BY <1>1, <1>2, OwnersStep, ReaderStep, ClientsStep DEF OwnersInv
<1>5. QED
  BY <1>3, <1>4, PTL DEF HealthSpec

\* Every component shows what its one owner said last, and nobody who left it can
\* overwrite that; the clients that are held stay under their cap.
THEOREM HealthIsConsistent == HealthSpec => []HealthAgrees
<1>1. OwnersInv => HealthAgrees
  BY DEF OwnersInv, Said, OwnerSpeaks, HealthAgrees
<1>2. QED
  BY <1>1, OwnersInductive, PTL

(***************************************************************************)
(* That a health never falls back behind one that a client has seen is an   *)
(* argument about a sum that is read while its parts grow.  The parts that  *)
(* were below what is read next are kept as a witness: partial sums, each   *)
(* of which adds no more than the component's present revision.             *)
(***************************************************************************)
Sums == {S \in [0..NumComponents -> Nat] :
            /\ S[0] = 0
            /\ \A c \in Components : S[c - 1] <= S[c] /\ S[c] - S[c - 1] <= revision[c]}

Base == 1 + Flag(world) + Flag(stopping # "no")

\* What was seen is no more than what is read now: all of it before the reading, and
\* during it the part that was read together with the part that is left.
SeenBelow ==
    \A k \in Clients : \E S \in Sums :
        seen[k].revision <= IF io = NoReading THEN Base + S[NumComponents]
                            ELSE view.revision + (S[NumComponents] - S[at \div 2])

\* What is being read is no more than what the next reading will find.
ReadBelow == io # NoReading => \E S \in Sums : view.revision <= Base + S[at \div 2]

RevisionInv == HealthTypeOK /\ SeenBelow /\ ReadBelow

\* The nothing that was read of nothing is a partial sum.
LEMMA ZeroSum == HealthTypeOK => [n \in 0..NumComponents |-> 0] \in Sums
  BY ComponentHealthAssumption DEF Sums, Components, HealthTypeOK

\* Revisions and flags only grow.
LEMMA RevisionsGrow ==
    ASSUME HealthTypeOK, [HealthNext]_healthVars
    PROVE  /\ Base \in Nat /\ Base' \in Nat /\ Base <= Base'
           /\ \A S \in Sums : S \in Sums'
<1> USE ComponentHealthAssumption
<1>1. \A c \in Components : revision[c] \in Nat /\ revision'[c] \in Nat /\ revision[c] <= revision'[c]
  <2>1. ASSUME NEW o \in Owners, Bump(o)
        PROVE  \A c \in Components : /\ revision[c] \in Nat /\ revision'[c] \in Nat
                                     /\ revision[c] <= revision'[c]
    BY <2>1 DEF Bump, HealthTypeOK
  <2>2. CASE UNCHANGED revision
    BY <2>2 DEF HealthTypeOK
  <2>3. QED
    BY <2>1, <2>2
       DEF HealthNext, healthVars, componentVars, Attach, Report, Close, Set, Store,
           ReleaseComponent, Expire, Ask, Drain, DrainFor, Read, Finish, FinishQuery,
           FinishObserve, FinishDescribe, FinishDrain, MarkNativeReady, StopEndpoint, Join
<1>2. /\ (world => world') \/ ~world
      /\ stopping # "no" => stopping' # "no"
  <2>1. world => world'
    BY DEF HealthNext, healthVars, OthersUnchanged, Attach, Report, Close, Set, Store, Bump,
           ReleaseComponent, Expire, Ask, Drain, DrainFor, Read, Finish, FinishQuery,
           FinishObserve, FinishDescribe, FinishDrain, MarkNativeReady, StopEndpoint, Join
  <2>2. stopping # "no" => stopping' # "no"
    BY DEF HealthNext, healthVars, OthersUnchanged, Attach, Report, Close, Set, Store, Bump,
           ReleaseComponent, Expire, Ask, Drain, DrainFor, Read, Finish, FinishQuery,
           FinishObserve, FinishDescribe, FinishDrain, MarkNativeReady, StopEndpoint, Join
  <2>3. QED
    BY <2>1, <2>2
<1>3. /\ Base \in Nat /\ Base' \in Nat /\ Base <= Base'
  BY <1>2 DEF Base, Flag
<1>4. ASSUME NEW S \in Sums PROVE S \in Sums'
  <2>1. /\ S \in [0..NumComponents -> Nat] /\ S[0] = 0
        /\ \A c \in Components : S[c - 1] <= S[c] /\ S[c] - S[c - 1] <= revision[c]
    BY DEF Sums
  <2>2. \A c \in Components : S[c] - S[c - 1] <= revision'[c]
    <3> TAKE c \in Components
    <3>1. c \in 0..NumComponents /\ c - 1 \in 0..NumComponents
      BY DEF Components
    <3>2. S[c] \in Nat /\ S[c - 1] \in Nat
      BY <2>1, <3>1
    <3>3. QED
      BY <1>1, <2>1, <3>2
  <2>3. QED
    BY <2>1, <2>2 DEF Sums
<1>5. QED
  BY <1>3, <1>4

\* Where everything was read, nobody has seen more.
LEMMA AllRead ==
    ASSUME RevisionInv, io # NoReading, at = 2 * NumComponents
    PROVE  \A k \in Clients : seen[k].revision <= view.revision
<1> USE ComponentHealthAssumption
<1> TAKE k \in Clients
<1>1. PICK S \in Sums : seen[k].revision <= view.revision + (S[NumComponents] - S[at \div 2])
  BY DEF RevisionInv, SeenBelow
<1>2. at \div 2 = NumComponents /\ S[NumComponents] \in Nat
  BY DEF Sums
<1>3. view.revision \in Nat /\ seen[k].revision \in Nat
  BY DEF RevisionInv, HealthTypeOK, Views
<1>4. QED
  BY <1>1, <1>2, <1>3

\* A reading begins with everything still to be read.
LEMMA ReadingStep ==
    ASSUME HealthTypeOK, HealthTypeOK', NEW what, Reading(what), what # NoReading,
           UNCHANGED <<revision, world, stopping>>,
           \A k \in Clients : \E S \in Sums : seen'[k].revision <= Base + S[NumComponents]
    PROVE  RevisionInv'
<1> USE ComponentHealthAssumption
<1>1. io' = what /\ at' = 0 /\ view'.revision = Base
  BY DEF Reading, Base, NotSeen
<1>2. Sums' = Sums /\ Base' = Base
  BY DEF Sums, Base
<1>3. 0 \div 2 = 0 /\ Base \in Nat
  BY DEF Base, Flag
<1>4. \A S \in Sums : S[0] = 0 /\ S[NumComponents] \in Nat
  BY DEF Sums
<1>5. SeenBelow'
  <2> SUFFICES ASSUME NEW k \in Clients
               PROVE  \E S \in Sums' :
                          seen'[k].revision <= view'.revision + (S[NumComponents] - S[at' \div 2])
    BY <1>1 DEF SeenBelow
  <2>1. PICK S \in Sums : seen'[k].revision <= Base + S[NumComponents]
    OBVIOUS
  <2>2. Base + S[NumComponents] = view'.revision + (S[NumComponents] - S[at' \div 2])
    BY <1>1, <1>3, <1>4
  <2>3. QED
    BY <1>2, <2>1, <2>2
<1>6. ReadBelow'
  <2> DEFINE zero == [n \in 0..NumComponents |-> 0]
  <2>1. zero \in Sums
    BY ZeroSum
  <2> HIDE DEF zero
  <2>2. view'.revision <= Base' + zero[at' \div 2]
    BY <1>1, <1>2, <1>3, <1>4, <2>1
  <2>3. QED
    BY <1>2, <2>1, <2>2 DEF ReadBelow
<1>7. QED
  BY <1>5, <1>6 DEF RevisionInv

\* A reading ends; what it found is what was seen from now on, or nothing changes.
LEMMA FinishStep ==
    ASSUME RevisionInv, HealthTypeOK', io # NoReading, at = 2 * NumComponents,
           UNCHANGED <<revision, world, stopping>>,
           \A k \in Clients : seen'[k] \in {Health, seen[k]}
    PROVE  /\ \A k \in Clients : seen'[k].revision >= seen[k].revision
           /\ \A k \in Clients : \E S \in Sums : seen'[k].revision <= Base + S[NumComponents]
<1> USE ComponentHealthAssumption
<1>1. Health.revision = view.revision
  BY DEF Health, RevisionInv, HealthTypeOK, Views
<1>2. \A k \in Clients : seen[k].revision <= view.revision
  BY AllRead
<1>3. \A k \in Clients : seen[k].revision \in Nat /\ view.revision \in Nat
  BY DEF RevisionInv, HealthTypeOK, Views
<1>4. \A k \in Clients : /\ seen'[k].revision >= seen[k].revision
                         /\ seen'[k].revision <= view.revision
  BY <1>1, <1>2, <1>3
<1>5. PICK S \in Sums : view.revision <= Base + S[at \div 2]
  BY DEF RevisionInv, ReadBelow
<1>6. at \div 2 = NumComponents /\ S[NumComponents] \in Nat /\ Base \in Nat
  BY DEF Sums, Base, Flag
<1>7. \A k \in Clients : seen'[k].revision \in Nat
  BY DEF HealthTypeOK, Views
<1>8. \A k \in Clients : seen'[k].revision <= Base + S[NumComponents]
  BY <1>3, <1>4, <1>5, <1>6, <1>7
<1>9. QED
  BY <1>4, <1>8

\* Where nothing is being read, nothing has to hold of what is read.
LEMMA IdleStep ==
    ASSUME io' = NoReading, UNCHANGED <<revision, world, stopping>>, HealthTypeOK',
           \A k \in Clients : \E S \in Sums : seen'[k].revision <= Base + S[NumComponents]
    PROVE  RevisionInv'
<1>1. Sums' = Sums /\ Base' = Base
  BY DEF Sums, Base
<1>2. QED
  BY <1>1 DEF RevisionInv, SeenBelow, ReadBelow

\* What the steps that read and answer nothing leave.
LEMMA QuietStep ==
    ASSUME RevisionInv, HealthTypeOK', [HealthNext]_healthVars,
           UNCHANGED <<io, at, view, seen>>
    PROVE  RevisionInv'
<1> USE ComponentHealthAssumption
<1>1. /\ HealthTypeOK /\ Base \in Nat /\ Base' \in Nat /\ Base <= Base'
      /\ \A S \in Sums : S \in Sums'
  BY RevisionsGrow DEF RevisionInv
<1>2. at \div 2 \in 0..NumComponents
  BY <1>1 DEF HealthTypeOK
<1>3. \A S \in Sums : S[NumComponents] \in Nat /\ S[at \div 2] \in Nat
  BY <1>2 DEF Sums
<1>4. SeenBelow'
  <2> SUFFICES ASSUME NEW k \in Clients
               PROVE  \E S \in Sums' :
                          seen[k].revision <= IF io = NoReading THEN Base' + S[NumComponents]
                              ELSE view.revision + (S[NumComponents] - S[at \div 2])
    BY DEF SeenBelow
  <2>1. PICK S \in Sums :
            seen[k].revision <= IF io = NoReading THEN Base + S[NumComponents]
                                ELSE view.revision + (S[NumComponents] - S[at \div 2])
    BY DEF RevisionInv, SeenBelow
  <2>2. seen[k].revision \in Nat
    BY <1>1 DEF HealthTypeOK, Views
  <2>3. QED
    BY <1>1, <1>3, <2>1, <2>2
<1>5. ReadBelow'
  <2> SUFFICES ASSUME io # NoReading
               PROVE  \E S \in Sums' : view.revision <= Base' + S[at \div 2]
    BY DEF ReadBelow
  <2>1. PICK S \in Sums : view.revision <= Base + S[at \div 2]
    BY DEF RevisionInv, ReadBelow
  <2>2. view.revision \in Nat
    BY <1>1 DEF HealthTypeOK, Views
  <2>3. QED
    BY <1>1, <1>3, <2>1, <2>2
<1>6. QED
  BY <1>4, <1>5 DEF RevisionInv

\* The state of a component is read, or its revision, which is no less than what the
\* sums add for it.
LEMMA ReadStep ==
    ASSUME RevisionInv, HealthTypeOK', Read
    PROVE  RevisionInv'
<1> USE ComponentHealthAssumption
<1> DEFINE c == at \div 2 + 1
<1>1. /\ io # NoReading /\ at \in 0..2 * NumComponents /\ at < 2 * NumComponents
      /\ at' = at + 1 /\ UNCHANGED <<revision, world, stopping, io, seen>>
      /\ view' = IF at % 2 = 0 THEN [view EXCEPT !.states[c] = state[c]]
                 ELSE [view EXCEPT !.revision = @ + revision[c]]
  BY DEF Read, RevisionInv, HealthTypeOK, componentVars, clientVars
<1>2. /\ c \in Components /\ c \in 1..NumComponents /\ c - 1 = at \div 2
      /\ c - 1 \in 0..NumComponents
      /\ (at + 1) \div 2 = IF at % 2 = 0 THEN c - 1 ELSE c
  BY <1>1 DEF Components
<1>3. Sums' = Sums /\ Base' = Base /\ Base \in Nat
  BY <1>1 DEF Sums, Base, Flag
<1>4. /\ view.revision \in Nat /\ \A k \in Clients : seen[k].revision \in Nat
      /\ view \in Views /\ revision[c] \in Nat
  BY <1>2 DEF RevisionInv, HealthTypeOK, Views
<1>5. /\ \A k \in Clients : \E S \in Sums :
              seen[k].revision <= view.revision + (S[NumComponents] - S[c - 1])
      /\ \E S \in Sums : view.revision <= Base + S[c - 1]
  BY <1>1, <1>2 DEF RevisionInv, SeenBelow, ReadBelow
<1> HIDE DEF c
<1>6. \A S \in Sums : /\ S[NumComponents] \in Nat /\ S[c] \in Nat /\ S[c - 1] \in Nat
                      /\ S[c] - S[c - 1] <= revision[c]
  BY <1>2 DEF Sums
<1>7. SUFFICES /\ \A k \in Clients : \E S \in Sums : seen[k].revision <=
                       view'.revision + (S[NumComponents] - S[(at + 1) \div 2])
               /\ \E S \in Sums : view'.revision <= Base + S[(at + 1) \div 2]
  BY <1>1, <1>3 DEF RevisionInv, SeenBelow, ReadBelow
<1>8. CASE at % 2 = 0
  <2>1. view'.revision = view.revision
    BY <1>1, <1>4, <1>8 DEF Views
  <2>2. QED
    BY <1>2, <1>5, <1>8, <2>1
<1>9. CASE at % 2 # 0
  <2>1. view'.revision = view.revision + revision[c] /\ (at + 1) \div 2 = c
    BY <1>1, <1>2, <1>4, <1>9 DEF Views
  <2>2. ASSUME NEW k \in Clients
        PROVE  \E S \in Sums : seen[k].revision <= view'.revision + (S[NumComponents] - S[c])
    <3>1. PICK S \in Sums : seen[k].revision <= view.revision + (S[NumComponents] - S[c - 1])
      BY <1>5
    <3>2. QED
      BY <1>4, <1>6, <2>1, <3>1
  <2>3. PICK S \in Sums : view.revision <= Base + S[c - 1]
    BY <1>5
  <2> DEFINE T == [n \in 0..NumComponents |-> IF n < c THEN S[n] ELSE S[c - 1] + revision[c]]
  <2>4. /\ S \in [0..NumComponents -> Nat] /\ S[0] = 0
        /\ \A d \in Components : S[d - 1] <= S[d] /\ S[d] - S[d - 1] <= revision[d]
    BY DEF Sums
  <2>5. T \in [0..NumComponents -> Nat] /\ T[0] = 0 /\ T[c] = S[c - 1] + revision[c]
    BY <1>2, <1>4, <1>6, <2>4
  <2>6. ASSUME NEW d \in Components
        PROVE  T[d - 1] <= T[d] /\ T[d] - T[d - 1] <= revision[d]
    <3>1. /\ d \in 0..NumComponents /\ d - 1 \in 0..NumComponents
          /\ revision[d] \in Nat /\ S[d] \in Nat /\ S[d - 1] \in Nat
          /\ c \in Int /\ d \in Int
      BY <1>2, <2>4 DEF Components, RevisionInv, HealthTypeOK
    <3>2. CASE d < c
      <4>1. T[d] = S[d] /\ T[d - 1] = S[d - 1]
        BY <3>1, <3>2
      <4>2. QED
        BY <2>4, <4>1
    <3>3. CASE d = c
      <4>1. T[d] = S[c - 1] + revision[c] /\ T[d - 1] = S[c - 1]
        BY <3>1, <3>3
      <4>2. QED
        BY <1>4, <1>6, <3>3, <4>1
    <3>4. CASE d > c
      <4>1. T[d] = S[c - 1] + revision[c] /\ T[d - 1] = S[c - 1] + revision[c]
        BY <3>1, <3>4
      <4>2. QED
        BY <1>4, <1>6, <3>1, <4>1
    <3>5. QED
      BY <3>1, <3>2, <3>3, <3>4
  <2> HIDE DEF T
  <2>7. T \in Sums
    BY <2>5, <2>6 DEF Sums
  <2>8. view'.revision <= Base + T[c]
    BY <1>3, <1>4, <1>6, <2>1, <2>3, <2>5
  <2>9. QED
    BY <2>1, <2>2, <2>7, <2>8
<1>10. QED
  BY <1>8, <1>9

\* Every step keeps what was seen below what is read, and answers no client with less
\* than it has seen.
LEMMA RevisionStep ==
    ASSUME RevisionInv, HealthTypeOK', [HealthNext]_healthVars
    PROVE  RevisionInv' /\ \A k \in Clients : seen'[k].revision >= seen[k].revision
<1> USE ComponentHealthAssumption
<1>1. HealthTypeOK /\ \A k \in Clients : seen[k].revision \in Nat
  BY DEF RevisionInv, HealthTypeOK, Views
<1>2. CASE UNCHANGED seen /\ RevisionInv'
  BY <1>1, <1>2
<1>3. CASE UNCHANGED <<io, at, view, seen>>
  BY <1>1, <1>3, QuietStep
<1>4. CASE Read
  <2>1. UNCHANGED seen
    BY <1>4 DEF Read, clientVars
  <2>2. QED
    BY <1>2, <1>4, <2>1, ReadStep
<1>5. ASSUME NEW then \in {NoReading} \cup Asked, DrainFor(then)
      PROVE  RevisionInv' /\ UNCHANGED seen
  <2>1. /\ io = NoReading /\ Reading([for |-> "drain", then |-> then])
        /\ UNCHANGED <<revision, world, stopping, seen>>
        /\ [for |-> "drain", then |-> then] # NoReading
    BY <1>5 DEF DrainFor, componentVars, clientVars, NoReading
  <2>2. \A k \in Clients : \E S \in Sums : seen'[k].revision <= Base + S[NumComponents]
    BY <2>1 DEF RevisionInv, SeenBelow
  <2>3. QED
    BY <1>1, <2>1, <2>2, ReadingStep
<1>6. ASSUME NEW kind \in {"query", "observe", "describe"}, Finish(kind),
             \A k \in Clients : seen'[k] \in {Health, seen[k]}
      PROVE  RevisionInv' /\ \A k \in Clients : seen'[k].revision >= seen[k].revision
  <2>1. /\ io # NoReading /\ at = 2 * NumComponents /\ io' = NoReading
        /\ UNCHANGED <<revision, world, stopping>>
    BY <1>6 DEF Finish, NoReading, componentVars
  <2>2. QED
    BY <1>6, <2>1, FinishStep, IdleStep
<1>7. CASE FinishQuery
  <2>1. \A k \in Clients : seen'[k] \in {Health, seen[k]}
    BY <1>1, <1>7 DEF FinishQuery, HealthTypeOK
  <2>2. QED
    BY <1>6, <1>7, <2>1 DEF FinishQuery
<1>8. CASE FinishObserve
  <2>1. \A k \in Clients : seen'[k] \in {Health, seen[k]}
    BY <1>1, <1>8 DEF FinishObserve, HealthTypeOK
  <2>2. QED
    BY <1>6, <1>8, <2>1 DEF FinishObserve
<1>9. CASE FinishDescribe
  <2>1. \A k \in Clients : seen'[k] \in {Health, seen[k]}
    BY <1>9 DEF FinishDescribe
  <2>2. QED
    BY <1>6, <1>9, <2>1 DEF FinishDescribe
<1>10. CASE FinishDrain
  <2>1. /\ io # NoReading /\ at = 2 * NumComponents
        /\ UNCHANGED <<revision, world, stopping>>
        /\ \A k \in Clients : seen'[k] \in {Health, seen[k]}
    BY <1>10 DEF FinishDrain, NoReading, componentVars
  <2>2. /\ \A k \in Clients : seen'[k].revision >= seen[k].revision
        /\ \A k \in Clients : \E S \in Sums : seen'[k].revision <= Base + S[NumComponents]
    BY <2>1, FinishStep
  <2>3. CASE io.then = NoReading
    BY <1>10, <2>1, <2>2, <2>3, IdleStep DEF FinishDrain
  <2>4. CASE io.then # NoReading
    <3>1. Reading(io.then)
      BY <1>10, <2>4 DEF FinishDrain
    <3>2. PICK what : what = io.then
      OBVIOUS
    <3>3. QED
      BY <1>1, <2>1, <2>2, <2>4, <3>1, <3>2, ReadingStep
  <2>5. QED
    BY <2>3, <2>4
<1>11. CASE Drain
  BY <1>2, <1>5, <1>11 DEF Drain
<1>12. ASSUME NEW k \in Clients, NEW kind \in {"query", "observe", "describe"}, Ask(k, kind)
       PROVE  RevisionInv' /\ UNCHANGED seen
  <2>1. [for |-> kind, client |-> k] \in Asked
    BY DEF Asked
  <2>2. QED
    BY <1>5, <1>12, <2>1 DEF Ask
<1>13. CASE \E k \in Clients : \/ Expire(k)
                               \/ \E kind \in {"query", "observe", "describe"} : Ask(k, kind)
  BY <1>2, <1>3, <1>12, <1>13 DEF Expire, readVars
<1>14. CASE \E o \in Owners : \/ \E c \in Components : Attach(o, c)
                              \/ \E s \in {"ready", "failed"} : Report(o, s)
                              \/ Store(o) \/ Close(o) \/ Bump(o) \/ ReleaseComponent(o)
  BY <1>3, <1>14 DEF Attach, Report, Close, Set, Store, Bump, ReleaseComponent,
                     OthersUnchanged, readVars, clientVars
<1>15. CASE MarkNativeReady \/ StopEndpoint \/ Join
  BY <1>3, <1>15 DEF MarkNativeReady, StopEndpoint, Join, readVars, clientVars
<1>16. CASE UNCHANGED healthVars
  BY <1>3, <1>16 DEF healthVars, readVars, clientVars
<1>17. QED
  BY <1>4, <1>7, <1>8, <1>9, <1>10, <1>11, <1>13, <1>14, <1>15, <1>16 DEF HealthNext

\* The revision that a client is told never falls, although the IO thread reads it
\* component by component while the owners come, report and go.
THEOREM RevisionIsMonotonic == HealthSpec => RevisionNeverFalls
<1> USE ComponentHealthAssumption
<1>1. HealthInit => RevisionInv
  <2> SUFFICES ASSUME HealthInit PROVE RevisionInv
    OBVIOUS
  <2> DEFINE zero == [n \in 0..NumComponents |-> 0]
  <2>1. HealthTypeOK
    BY OwnersInit DEF OwnersInv
  <2>2. zero \in Sums /\ zero[NumComponents] = 0
    BY <2>1, ZeroSum
  <2>3. \A k \in Clients : seen[k].revision = 0
    BY DEF HealthInit, NotSeen
  <2>4. Base \in Nat /\ io = NoReading
    BY DEF HealthInit, Base, Flag
  <2> HIDE DEF zero
  <2>5. \A k \in Clients : seen[k].revision <= Base + zero[NumComponents]
    BY <2>2, <2>3, <2>4
  <2>6. QED
    BY <2>1, <2>2, <2>4, <2>5 DEF RevisionInv, SeenBelow, ReadBelow
<1> DEFINE Rises == \A k \in Clients : seen'[k].revision >= seen[k].revision
<1>2. RevisionInv /\ HealthTypeOK' /\ [HealthNext]_healthVars => RevisionInv' /\ Rises
  BY RevisionStep
<1>3. OwnersInv => HealthTypeOK
  BY DEF OwnersInv
<1> HIDE DEF Rises
<1>4. HealthSpec => [][Rises]_healthVars
  BY <1>1, <1>2, <1>3, OwnersInductive, PTL DEF HealthSpec
<1>5. QED
  BY <1>4 DEF Rises, RevisionNeverFalls

-------------------------------------------------------------------------------
(***************************************************************************)
(* The contact monitor.                                                    *)
(***************************************************************************)
\* The table has the models of the snapshot, with what the snapshot knows of them.
TableFits ==
    contactModels = [n \in {m \in Names : snapshot[m] # "absent"} |->
                        [static |-> snapshot[n] = "static", managed |-> n \in Managed]]

\* A model that has not changed since an update is in the snapshot as it is, and a contact
\* that is owed a verdict is one of two such models.
KnownFits ==
    /\ \A n \in known : bodies[n] # "absent" /\ snapshot[n] = bodies[n]
    /\ \A pair \in owed : pair \subseteq known

\* Before the monitor has its node nothing was updated, touched or found.
NotAttached == ~rosAttached => contacts = <<>> /\ owed = {} /\ known = {} /\ ~detected

ContactInv == ContactTypeOK /\ TableFits /\ KnownFits /\ NotAttached /\ CollisionIsReported

\* A pair of names is two different names.
LEMMA PairIsTwo ==
    ASSUME NEW pair \in Pairs, NEW m \in pair
    PROVE  pair \subseteq Names /\ \E n \in pair : n # m
<1>1. pair \subseteq Names /\ Cardinality(pair) = 2
  BY DEF Pairs, kSubset
<1>2. IsFiniteSet(pair)
  BY <1>1, FS_Subset, ContactMonitorAssumption
<1>3. Cardinality(pair \ {m}) = Cardinality(pair) - 1
  BY <1>2, FS_RemoveElement
<1>4. pair \ {m} # {}
  BY <1>1, <1>3, FS_EmptySet
<1>5. QED
  BY <1>1, <1>4

\* What a queue of messages holds when one is sent and when one is delivered.
LEMMA InFlight ==
    ASSUME contacts \in Seq(Pairs)
    PROVE  /\ \A pair \in Pairs : ToSet(Append(contacts, pair)) = ToSet(contacts) \cup {pair}
           /\ contacts # <<>> => /\ Head(contacts) \in Pairs /\ Tail(contacts) \in Seq(Pairs)
                                 /\ Len(Tail(contacts)) = Len(contacts) - 1
                                 /\ ToSet(contacts) = ToSet(Tail(contacts)) \cup {Head(contacts)}
<1>1. ASSUME NEW pair \in Pairs
      PROVE  ToSet(Append(contacts, pair)) = ToSet(contacts) \cup {pair}
  <2> DEFINE more == Append(contacts, pair)
  <2>1. /\ DOMAIN more = 1..(Len(contacts) + 1) /\ DOMAIN contacts = 1..Len(contacts)
        /\ Len(contacts) \in Nat /\ more[Len(contacts) + 1] = pair
        /\ \A i \in 1..Len(contacts) : more[i] = contacts[i]
    OBVIOUS
  <2> HIDE DEF more
  <2>2. DOMAIN more = DOMAIN contacts \cup {Len(contacts) + 1}
    BY <2>1
  <2>3. {more[i] : i \in DOMAIN more} = {contacts[i] : i \in DOMAIN contacts} \cup {pair}
    BY <2>1, <2>2
  <2>4. QED
    BY <2>3 DEF ToSet, more
<1>2. ASSUME contacts # <<>>
      PROVE  /\ Head(contacts) \in Pairs /\ Tail(contacts) \in Seq(Pairs)
             /\ Len(Tail(contacts)) = Len(contacts) - 1
             /\ ToSet(contacts) = ToSet(Tail(contacts)) \cup {Head(contacts)}
  <2> DEFINE rest == Tail(contacts)
  <2>1. /\ DOMAIN rest = 1..(Len(contacts) - 1) /\ DOMAIN contacts = 1..Len(contacts)
        /\ Len(contacts) \in Nat \ {0} /\ Head(contacts) = contacts[1]
        /\ \A i \in 1..(Len(contacts) - 1) : rest[i] = contacts[i + 1]
    BY <1>2
  <2>2. /\ Head(contacts) \in Pairs /\ rest \in Seq(Pairs) /\ Len(rest) = Len(contacts) - 1
    BY <1>2
  <2> HIDE DEF rest
  <2>3. ASSUME NEW i \in DOMAIN contacts
        PROVE  contacts[i] \in {rest[j] : j \in DOMAIN rest} \cup {Head(contacts)}
    <3>1. CASE i = 1
      BY <2>1, <3>1
    <3>2. CASE i # 1
      <4>1. i - 1 \in DOMAIN rest /\ rest[i - 1] = contacts[i]
        BY <2>1, <3>2
      <4>2. QED
        BY <4>1
    <3>3. QED
      BY <3>1, <3>2
  <2>4. ASSUME NEW j \in DOMAIN rest
        PROVE  rest[j] \in {contacts[i] : i \in DOMAIN contacts}
    <3>1. j + 1 \in DOMAIN contacts /\ rest[j] = contacts[j + 1]
      BY <2>1
    <3>2. QED
      BY <3>1
  <2>5. Head(contacts) \in {contacts[i] : i \in DOMAIN contacts}
    BY <2>1
  <2>6. {contacts[i] : i \in DOMAIN contacts}
            = {rest[j] : j \in DOMAIN rest} \cup {Head(contacts)}
    BY <2>3, <2>4, <2>5
  <2>7. QED
    BY <2>2, <2>6 DEF ToSet, rest
<1>3. QED
  BY <1>1, <1>2

\* A collision of two models that are in the table as they are is one for the monitor.
LEMMA CollisionIsForbidden ==
    ASSUME ContactTypeOK, TableFits, KnownFits,
           NEW pair \in Pairs, pair \subseteq known, Collision(pair)
    PROVE  /\ pair \subseteq DOMAIN contactModels
           /\ \E m, n \in pair : IsForbiddenPhysicalContact(m, n)
<1>1. \A n \in pair : n \in Names /\ snapshot[n] = bodies[n] /\ bodies[n] # "absent"
  BY DEF KnownFits, ContactTypeOK
<1>2. \A n \in pair : /\ n \in DOMAIN contactModels
                      /\ contactModels[n].static = (snapshot[n] = "static")
                      /\ contactModels[n].managed = (n \in Managed)
  <2> TAKE n \in pair
  <2>1. n \in DOMAIN contactModels
    BY <1>1 DEF TableFits
  <2>2. contactModels[n] = [static |-> snapshot[n] = "static", managed |-> n \in Managed]
    BY <1>1 DEF TableFits
  <2>3. contactModels[n].static = (snapshot[n] = "static")
    BY <2>2
  <2>4. contactModels[n].managed = (n \in Managed)
    BY <2>2
  <2>5. QED
    BY <2>1, <2>3, <2>4
<1>3. PICK m \in pair : Actor(m)
  BY DEF Collision
<1>4. PICK n \in pair : n # m
  BY PairIsTwo
<1>5. Actor(n) \/ n \in Managed
  BY DEF Collision
<1>6. \A a \in pair : Actor(a) => IsTrackedDynamicActor(a)
  <2> SUFFICES ASSUME NEW a \in pair, Actor(a) PROVE IsTrackedDynamicActor(a)
    OBVIOUS
  <2>1. snapshot[a] = "dynamic" /\ a \in Tracked /\ a \notin Managed
    BY <1>1 DEF Actor
  <2>2. snapshot[a] # "static"
    BY <2>1
  <2>3. ~contactModels[a].static /\ ~contactModels[a].managed
    BY <1>2, <2>1, <2>2, Zenon
  <2>4. QED
    BY <2>1, <2>3 DEF IsTrackedDynamicActor
<1>7. \A a \in pair : a \in Managed => contactModels[a].managed
  BY <1>2, Zenon
<1>8. IsForbiddenPhysicalContact(m, n)
  <2>1. IsTrackedDynamicActor(m) /\ m # n
    BY <1>3, <1>4, <1>6
  <2>2. CASE Actor(n)
    BY <1>6, <2>1, <2>2 DEF IsForbiddenPhysicalContact
  <2>3. CASE n \in Managed
    BY <1>7, <2>1, <2>3 DEF IsForbiddenPhysicalContact
  <2>4. QED
    BY <1>5, <2>2, <2>3
<1>9. QED
  BY <1>2, <1>8

\* And a contact of such models that the monitor forbids is a collision: the other of the
\* two is an actor as well, or an obstacle.
LEMMA ForbiddenIsCollision ==
    ASSUME ContactTypeOK, TableFits, KnownFits,
           NEW pair \in Pairs, pair \subseteq known,
           NEW m \in pair, NEW n \in pair, IsForbiddenPhysicalContact(m, n)
    PROVE  Collision(pair)
<1>1. \A a \in pair : a \in Names /\ snapshot[a] = bodies[a] /\ bodies[a] # "absent"
  BY DEF KnownFits, ContactTypeOK
<1>2. \A a \in pair : /\ contactModels[a].static = (snapshot[a] = "static")
                      /\ contactModels[a].managed = (a \in Managed)
  <2> TAKE a \in pair
  <2>1. contactModels[a] = [static |-> snapshot[a] = "static", managed |-> a \in Managed]
    BY <1>1 DEF TableFits
  <2>2. QED
    BY <2>1
<1>3. \A a \in pair : bodies[a] \in Kinds
  BY <1>1 DEF ContactTypeOK
<1>4. ASSUME NEW a \in pair, IsTrackedDynamicActor(a) PROVE Actor(a)
  <2>1. ~contactModels[a].static /\ ~contactModels[a].managed /\ a \in Tracked
    BY <1>4 DEF IsTrackedDynamicActor
  <2>2. snapshot[a] # "static" /\ a \notin Managed
    BY <1>2, <2>1, Zenon
  <2>3. QED
    BY <1>1, <1>3, <2>1, <2>2 DEF Kinds, Actor
<1>5. ASSUME NEW a \in pair, contactModels[a].managed PROVE a \in Managed
  BY <1>2, <1>5, Zenon
<1>6. \A a \in pair : a = m \/ a = n
  <2>1. pair \subseteq Names /\ Cardinality(pair) = 2 /\ m # n
    BY DEF Pairs, kSubset, IsForbiddenPhysicalContact
  <2>2. IsFiniteSet(pair)
    BY <2>1, FS_Subset, ContactMonitorAssumption
  <2>3. IsFiniteSet(pair \ {m}) /\ Cardinality(pair \ {m}) = 2 - 1
    BY <2>1, <2>2, FS_RemoveElement
  <2> DEFINE others == pair \ {m}
  <2>4. IsFiniteSet(others) /\ Cardinality(others) = 1 /\ n \in others
    BY <2>1, <2>3
  <2> HIDE DEF others
  <2>5. IsFiniteSet(others \ {n}) /\ Cardinality(others \ {n}) = 0
    BY <2>4, FS_RemoveElement
  <2>6. others \ {n} = {}
    BY <2>5, FS_EmptySet
  <2>7. QED
    BY <2>6 DEF others
<1>7. (Actor(m) \/ Actor(n)) /\ (Actor(m) \/ m \in Managed) /\ (Actor(n) \/ n \in Managed)
  BY <1>4, <1>5 DEF IsForbiddenPhysicalContact
<1>8. QED
  BY <1>6, <1>7 DEF Collision

\* The topics that show no collision agree with each other.
LEMMA ClearFits ==
    /\ Clear \in [status : BOOLEAN, detail : Pairs \cup {{}}]
    /\ FALSE = Clear.status /\ (Clear.status <=> Clear.detail # {})
<1>1. Clear \in [status : BOOLEAN, detail : Pairs \cup {{}}]
  BY DEF Clear
<1>2. Clear.status = FALSE /\ Clear.detail = {}
  BY DEF Clear
<1>3. QED
  BY <1>1, <1>2, Zenon

\* The topics that show a collision agree with each other.
LEMMA FoundFits ==
    ASSUME NEW pair \in Pairs, pair # {}
    PROVE  LET found == [status |-> TRUE, detail |-> pair]
           IN  /\ found \in [status : BOOLEAN, detail : Pairs \cup {{}}]
               /\ TRUE = found.status /\ (found.status <=> found.detail # {})
<1> DEFINE found == [status |-> TRUE, detail |-> pair]
<1>1. found \in [status : BOOLEAN, detail : Pairs \cup {{}}]
  OBVIOUS
<1>2. found.status = TRUE /\ found.detail = pair
  OBVIOUS
<1> HIDE DEF found
<1>3. TRUE = found.status /\ (found.status <=> found.detail # {})
  BY <1>2, Zenon
<1>4. QED
  BY <1>1, <1>3, Zenon DEF found

\* The monitor begins with nothing to report.
LEMMA ContactsInit == ContactInit => ContactInv
<1> SUFFICES ASSUME ContactInit PROVE ContactInv
  OBVIOUS
<1> USE ContactMonitorAssumption
<1>1. {m \in Names : snapshot[m] # "absent"} = {}
  BY DEF ContactInit
<1>2. TableFits /\ DOMAIN contactModels = {}
  BY <1>1 DEF TableFits, ContactInit, Nothing
<1>3. snapshot \in [Names -> Kinds] /\ contacts \in Seq(Pairs) /\ Len(contacts) = 0
  BY DEF ContactInit, Kinds
<1>4. topic = Clear /\ detected = FALSE
  BY DEF ContactInit
<1>5. /\ topic \in [status : BOOLEAN, detail : Pairs \cup {{}}]
      /\ detected = topic.status /\ (topic.status <=> topic.detail # {})
  BY <1>4, ClearFits
<1>6. ContactTypeOK
  <2>1. /\ bodies \in [Names -> Kinds] /\ rosAttached \in BOOLEAN /\ known = {} /\ owed = {}
        /\ before = 0
    BY DEF ContactInit
  <2>2. QED
    BY <1>2, <1>3, <1>5, <2>1 DEF ContactTypeOK
<1>7. QED
  BY <1>2, <1>6
     DEF ContactInv, KnownFits, NotAttached, CollisionIsReported, ContactInit

\* No step of the physics thread, of the transport or of the world loses a collision.
LEMMA ContactsStep ==
    ASSUME ContactInv, [ContactNext]_contactVars
    PROVE  ContactInv'
<1> USE ContactMonitorAssumption
<1>0. ContactTypeOK /\ TableFits /\ KnownFits /\ NotAttached /\ CollisionIsReported
  BY DEF ContactInv
<1>1. ASSUME NEW n \in Names, NEW kind \in Kinds, ModelChanges(n, kind)
      PROVE  ContactInv'
  <2>1. /\ bodies' = [bodies EXCEPT ![n] = kind]
        /\ known' = known \ {n} /\ owed' = {p \in owed : n \notin p}
        /\ UNCHANGED <<rosAttached, snapshot, contactModels, contacts, detected, topic, before>>
    BY <1>1 DEF ModelChanges
  <2>2. bodies' \in [Names -> Kinds] /\ \A m \in Names : m # n => bodies'[m] = bodies[m]
    BY <1>0, <2>1 DEF ContactTypeOK
  <2>3. ContactTypeOK' /\ TableFits' /\ NotAttached'
    BY <1>0, <2>1, <2>2 DEF ContactTypeOK, TableFits, NotAttached
  <2>4. KnownFits'
    BY <1>0, <2>1, <2>2 DEF KnownFits, ContactTypeOK
  <2>5. ASSUME NEW p \in owed', Collision(p)' PROVE topic'.status \/ p \in ToSet(contacts')
    <3>1. \A m \in p : m \in Names /\ bodies'[m] = bodies[m]
      BY <1>0, <2>1, <2>2 DEF KnownFits, ContactTypeOK
    <3>2. Collision(p)
      BY <2>5, <3>1 DEF Collision, Actor
    <3>3. QED
      BY <1>0, <2>1, <3>2 DEF CollisionIsReported
  <2>6. QED
    BY <2>3, <2>4, <2>5 DEF ContactInv, CollisionIsReported
<1>2. CASE AttachRos
  <2>1. /\ ~detected /\ contacts = <<>> /\ owed = {} /\ known = {}
        /\ rosAttached' /\ topic' = Clear
        /\ UNCHANGED <<bodies, snapshot, contactModels, contacts, detected, known, owed, before>>
    BY <1>0, <1>2 DEF AttachRos, NotAttached
  <2>2. /\ topic' \in [status : BOOLEAN, detail : Pairs \cup {{}}] /\ topic'.status = FALSE
        /\ topic'.detail = {}
    BY <2>1 DEF Clear
  <2>3. detected' = topic'.status /\ rosAttached' \in BOOLEAN
    BY <1>0, <1>2, <2>1, <2>2 DEF ContactTypeOK, AttachRos
  <2>4. ContactTypeOK'
    BY <1>0, <2>1, <2>2, <2>3 DEF ContactTypeOK
  <2>5. QED
    BY <1>0, <2>1, <2>4
       DEF ContactInv, TableFits, KnownFits, NotAttached, CollisionIsReported
<1>3. CASE OnUpdate
  <2>1. /\ rosAttached /\ rosAttached' = rosAttached
        /\ known' = {n \in Names : bodies[n] # "absent"}
        /\ UNCHANGED <<bodies, contacts, detected, topic, owed, before>>
    BY <1>3 DEF OnUpdate
  <2>2. snapshot' = bodies /\ TableFits'
    BY <1>0, <1>3 DEF OnUpdate, Matches, RefreshContactModels, TableFits
  <2>3. /\ DOMAIN contactModels' \subseteq Names
        /\ \A n \in DOMAIN contactModels' :
               contactModels'[n] \in [static : BOOLEAN, managed : BOOLEAN]
    BY <2>2 DEF TableFits
  <2>4. ContactTypeOK'
    BY <1>0, <2>1, <2>2, <2>3 DEF ContactTypeOK
  <2>5. KnownFits'
    BY <1>0, <2>1, <2>2 DEF KnownFits, ContactTypeOK
  <2>6. NotAttached' /\ CollisionIsReported'
    BY <1>0, <2>1 DEF NotAttached, CollisionIsReported, Collision, Actor
  <2>7. QED
    BY <2>2, <2>4, <2>5, <2>6 DEF ContactInv
<1>4. ASSUME NEW pair \in Pairs, Touch(pair)
      PROVE  ContactInv'
  <2>1. /\ rosAttached /\ Len(contacts) < MaxContacts /\ contacts' = Append(contacts, pair)
        /\ owed' = IF pair \subseteq known THEN owed \cup {pair} ELSE owed
        /\ UNCHANGED <<bodies, rosAttached, snapshot, contactModels, detected, topic, known,
                       before>>
    BY <1>4 DEF Touch
  <2>2. contacts' \in Seq(Pairs) /\ Len(contacts') = Len(contacts) + 1 /\ Len(contacts) \in Nat
    BY <1>0, <2>1 DEF ContactTypeOK
  <2>3. ToSet(contacts') = ToSet(contacts) \cup {pair}
    BY <1>0, <2>1, InFlight DEF ContactTypeOK
  <2>4. Len(contacts') <= MaxContacts /\ before' \in Nat /\ before' <= Len(contacts')
    BY <1>0, <2>1, <2>2 DEF ContactTypeOK
  <2>5. ContactTypeOK'
    BY <1>0, <2>1, <2>2, <2>4 DEF ContactTypeOK
  <2>6. TableFits' /\ KnownFits' /\ NotAttached'
    BY <1>0, <2>1 DEF TableFits, KnownFits, NotAttached
  <2>7. ASSUME NEW p \in owed', Collision(p)' PROVE topic'.status \/ p \in ToSet(contacts')
    BY <1>0, <2>1, <2>3, <2>7 DEF CollisionIsReported, Collision, Actor
  <2>8. QED
    BY <2>5, <2>6, <2>7 DEF ContactInv, CollisionIsReported
<1>5. CASE OnContacts
  <2> DEFINE pair == Head(contacts)
             Found == /\ ~detected /\ pair \subseteq DOMAIN contactModels
                      /\ \E m, n \in pair : IsForbiddenPhysicalContact(m, n)
  <2>1. /\ contacts # <<>> /\ contacts' = Tail(contacts)
        /\ before' = IF before = 0 THEN 0 ELSE before - 1
        /\ IF Found THEN detected' = TRUE /\ topic' = [status |-> TRUE, detail |-> pair]
           ELSE UNCHANGED <<detected, topic>>
        /\ UNCHANGED <<bodies, rosAttached, snapshot, contactModels, known, owed>>
    BY <1>5 DEF OnContacts
  <2>2. /\ pair \in Pairs /\ contacts' \in Seq(Pairs) /\ Len(contacts') = Len(contacts) - 1
        /\ ToSet(contacts) = ToSet(contacts') \cup {pair} /\ Len(contacts) \in Nat
    BY <1>0, <2>1, InFlight DEF ContactTypeOK
  <2>3. rosAttached
    BY <1>0, <2>1 DEF NotAttached
  <2>4. Found => pair # {}
    OBVIOUS
  <2>5. ASSUME pair \in owed, Collision(pair), ~detected PROVE Found
    BY <1>0, <2>2, <2>5, CollisionIsForbidden DEF KnownFits
  <2> HIDE DEF Found, pair
  <2>6. /\ topic' \in [status : BOOLEAN, detail : Pairs \cup {{}}]
        /\ detected' = topic'.status /\ (topic'.status <=> topic'.detail # {})
    <3>1. CASE Found
      <4>1. detected' = TRUE /\ topic' = [status |-> TRUE, detail |-> pair]
        BY <2>1, <3>1
      <4>2. pair \in Pairs /\ pair # {}
        BY <2>2, <2>4, <3>1
      <4>3. QED
        BY <4>1, <4>2, FoundFits, Zenon
    <3>2. CASE ~Found
      BY <1>0, <2>1, <3>2 DEF ContactTypeOK
    <3>3. QED
      BY <3>1, <3>2
  <2>7. Len(contacts') <= MaxContacts /\ before' \in Nat /\ before' <= Len(contacts')
    <3>1. /\ before \in Nat /\ before <= Len(contacts) /\ Len(contacts) <= MaxContacts
          /\ Len(contacts') \in Nat
      BY <1>0, <2>2 DEF ContactTypeOK
    <3>2. QED
      BY <2>1, <2>2, <3>1
  <2>8. ContactTypeOK'
    BY <1>0, <2>1, <2>2, <2>6, <2>7 DEF ContactTypeOK
  <2>9. TableFits' /\ KnownFits' /\ NotAttached'
    BY <1>0, <2>1, <2>3 DEF TableFits, KnownFits, NotAttached
  <2>10. detected => topic'.status
    <3>1. CASE Found
      BY <2>1, <3>1
    <3>2. CASE ~Found
      BY <1>0, <2>1, <3>2 DEF ContactTypeOK
    <3>3. QED
      BY <3>1, <3>2
  <2>11. Found => topic'.status
    BY <2>1
  <2>12. ASSUME NEW p \in owed', Collision(p)' PROVE topic'.status \/ p \in ToSet(contacts')
    <3>1. p \in owed /\ Collision(p)
      BY <2>1, <2>12 DEF Collision, Actor
    <3>2. topic.status = detected
      BY <1>0 DEF ContactTypeOK
    <3>3. detected \/ p \in ToSet(contacts)
      BY <1>0, <3>1, <3>2 DEF CollisionIsReported
    <3>4. QED
      BY <2>2, <2>5, <2>10, <2>11, <3>1, <3>3
  <2>13. QED
    BY <2>8, <2>9, <2>12 DEF ContactInv, CollisionIsReported
<1>6. CASE OnWorldReset
  <2>1. /\ rosAttached /\ detected' = FALSE /\ topic' = Clear
        /\ owed' = {} /\ before' = Len(contacts)
        /\ UNCHANGED <<bodies, rosAttached, snapshot, contactModels, contacts, known>>
    BY <1>6 DEF OnWorldReset
  <2>2. /\ topic' \in [status : BOOLEAN, detail : Pairs \cup {{}}] /\ topic'.status = FALSE
        /\ topic'.detail = {}
    BY <2>1 DEF Clear
  <2>3. ContactTypeOK'
    <3>1. before' \in Nat /\ before' <= Len(contacts')
      BY <1>0, <2>1 DEF ContactTypeOK
    <3>2. QED
      BY <1>0, <2>1, <2>2, <3>1 DEF ContactTypeOK
  <2>4. QED
    BY <1>0, <2>1, <2>3
       DEF ContactInv, TableFits, KnownFits, NotAttached, CollisionIsReported
<1>7. CASE UNCHANGED contactVars
  BY <1>0, <1>7 DEF contactVars, ContactInv, ContactTypeOK, TableFits, KnownFits, NotAttached,
                    CollisionIsReported, Collision, Actor
<1>8. QED
  BY <1>1, <1>2, <1>3, <1>4, <1>5, <1>6, <1>7 DEF ContactNext

\* A verdict about two models that are what the last update has seen is right, and shows
\* the contact that it is about.
THEOREM NoVerdictIsFalse == ContactSpec => NoFalseVerdict
<1> DEFINE Right ==
        ~detected /\ detected' =>
            LET pair == Head(contacts)
            IN  topic'.detail = pair /\ (pair \subseteq known => Collision(pair))
<1>1. ContactInv /\ [ContactNext]_contactVars => ContactInv'
  BY ContactsStep
<1>2. ContactInv /\ [ContactNext]_contactVars => [Right]_contactVars
  <2> SUFFICES ASSUME ContactInv, ContactNext, ~detected, detected' PROVE Right
    OBVIOUS
  <2>1. CASE OnContacts
    <3> DEFINE pair == Head(contacts)
    <3>1. /\ contacts # <<>> /\ topic' = [status |-> TRUE, detail |-> pair]
          /\ \E m, n \in pair : IsForbiddenPhysicalContact(m, n)
      BY <2>1 DEF OnContacts
    <3>2. pair \in Pairs
      BY <3>1, InFlight DEF ContactInv, ContactTypeOK
    <3>3. topic'.detail = pair
      BY <3>1
    <3>4. ASSUME pair \subseteq known PROVE Collision(pair)
      BY <3>1, <3>2, <3>4, ForbiddenIsCollision DEF ContactInv
    <3>5. QED
      BY <3>3, <3>4
  <2>2. CASE ~OnContacts
    <3>1. detected' \in {detected, FALSE}
      BY <2>2 DEF ContactNext, ModelChanges, Touch, AttachRos, OnUpdate, OnWorldReset
    <3>2. QED
      BY <3>1
  <2>3. QED
    BY <2>1, <2>2
<1>3. ContactSpec => [][Right]_contactVars
  BY ContactsInit, <1>1, <1>2, PTL DEF ContactSpec
<1>4. QED
  BY <1>3 DEF Right, NoFalseVerdict

\* And a collision of two models that an update has seen as they are is on its way or on
\* the topic, which agrees with the latch: the verdict is neither missing nor false.
THEOREM ContactsAreReported == ContactSpec => VerdictAgrees
<1>1. ContactInv /\ [ContactNext]_contactVars => ContactInv'
  BY ContactsStep
<1>2. ContactInv => ContactTypeOK /\ CollisionIsReported
  BY DEF ContactInv
<1>3. ContactSpec => [](ContactTypeOK /\ CollisionIsReported)
  BY ContactsInit, <1>1, <1>2, PTL DEF ContactSpec
<1>4. QED
  BY <1>3, NoVerdictIsFalse DEF VerdictAgrees
=============================================================================
