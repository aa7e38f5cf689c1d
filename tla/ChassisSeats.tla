----------------------------- MODULE ChassisSeats -----------------------------
(***************************************************************************)
(* The chassis models of a world under HOLD: the seats that bind a model   *)
(* to a robot ID, the roster of the HOLD domain, the zero writes of the    *)
(* host's tick, the models' control steps and the commands that ROS queues *)
(* for them, dispatched by one thread under the stamp of their receipt.    *)
(*                                                                         *)
(* A seat stands for its model.  Its mutex is held over two steps by the   *)
(* dispatcher and by the control step, which ask the domain first and act  *)
(* then: HOLD can be engaged or released in between.  The HOLD domain is a *)
(* library; only what the host relies on is here.                          *)
(***************************************************************************)
EXTENDS Integers, Sequences, SequencesExt

CONSTANTS Seats, Ids, IdOf,   \* models and the robot they stand for
          NoSeat, None,
          MaxTime,            \* bound of the model: the monotonic clock
          MaxCallbacks        \* bound of the model: queued callbacks

ASSUME ChassisSeatsAssumption ==
    /\ IdOf \in [Seats -> Ids]
    /\ NoSeat \notin Seats
    /\ MaxTime \in Nat /\ MaxCallbacks \in Nat
    /\ None \notin 0..MaxTime

Times == 0..MaxTime
Callbacks == [seat : Seats, stamp : Times]

VARIABLES
    phase,      \* of each seat: none, reserved, enrolled, closed, unrostered, gone
    seats,      \* the map of the host: ID to seat
    accepting, ticking,
    roster, held, zeroed, released,        \* the HOLD domain
    command, output,                       \* each model: its command, what it drives
    message, queue,                        \* ROS: newest message, queued callbacks
    dispatching, controlling,              \* who holds a seat's mutex
    now

hostVars == <<phase, seats, accepting, ticking>>
domainVars == <<roster, held, zeroed, released>>
modelVars == <<command, output>>
rosVars == <<message, queue>>
lockVars == <<dispatching, controlling>>
vars == <<hostVars, domainVars, modelVars, rosVars, lockVars, now>>

Open(s) == phase[s] \in {"reserved", "enrolled"}
Unlocked(s) == dispatching.seat # s /\ controlling.seat # s
\* The dispatched message, and the control step's knowledge of the hold.
Idle == [seat |-> NoSeat, value |-> None]

TypeOK ==
    /\ phase \in [Seats -> {"none", "reserved", "enrolled", "closed", "unrostered", "gone"}]
    /\ seats \in [Ids -> Seats \cup {NoSeat}]
    /\ accepting \in BOOLEAN /\ ticking \in BOOLEAN
    /\ roster \in SUBSET Ids /\ held \in SUBSET Ids /\ zeroed \in SUBSET held
    /\ released \in [Ids -> Times \cup {-1}]
    /\ command \in [Seats -> BOOLEAN] /\ output \in [Seats -> BOOLEAN]
    /\ message \in [Seats -> Times \cup {None}]
    /\ queue \in Seq(Callbacks) /\ Len(queue) <= MaxCallbacks
    /\ dispatching \in [seat : Seats, value : Times] \cup {Idle}
    /\ controlling \in [seat : Seats, value : BOOLEAN] \cup {Idle}
    /\ dispatching.seat # NoSeat => controlling.seat # dispatching.seat
    /\ now \in Times

Init ==
    /\ phase = [s \in Seats |-> "none"] /\ seats = [i \in Ids |-> NoSeat]
    /\ accepting = TRUE /\ ticking = TRUE
    /\ roster = {} /\ held = {} /\ zeroed = {} /\ released = [i \in Ids |-> -1]
    /\ command = [s \in Seats |-> FALSE] /\ output = [s \in Seats |-> FALSE]
    /\ message = [s \in Seats |-> None] /\ queue = <<>>
    /\ dispatching = Idle /\ controlling = Idle
    /\ now = 0

-------------------------------------------------------------------------------
(***************************************************************************)
(* Seats.                                                                  *)
(***************************************************************************)
\* Mutant of Reserve: a seat of the ID is not looked for.
ReserveOver(s) ==
    /\ phase[s] = "none" /\ accepting
    /\ seats' = [seats EXCEPT ![IdOf[s]] = s]
    /\ phase' = [phase EXCEPT ![s] = "reserved"]
    /\ UNCHANGED <<accepting, ticking, domainVars, modelVars, rosVars, lockVars, now>>

\* Mutant of Reserve: the seat is not put on the map.
ReserveUnmapped(s) ==
    /\ phase[s] = "none" /\ accepting
    /\ seats[IdOf[s]] = NoSeat
    /\ phase' = [phase EXCEPT ![s] = "reserved"]
    /\ UNCHANGED <<seats, accepting, ticking, domainVars, modelVars, rosVars, lockVars, now>>

\* A seat in the map counts as bound for as long as somebody still closes it.
Reserve(s) ==
    /\ phase[s] = "none" /\ accepting
    /\ seats[IdOf[s]] = NoSeat
    /\ seats' = [seats EXCEPT ![IdOf[s]] = s]
    /\ phase' = [phase EXCEPT ![s] = "reserved"]
    /\ UNCHANGED <<accepting, ticking, domainVars, modelVars, rosVars, lockVars, now>>

\* The load of a second model with the ID fails.
ReserveFails(s) ==
    /\ phase[s] = "none"
    /\ ~accepting \/ seats[IdOf[s]] # NoSeat
    /\ phase' = [phase EXCEPT ![s] = "gone"]
    /\ UNCHANGED <<seats, accepting, ticking, domainVars, modelVars, rosVars, lockVars, now>>

\* A robot that is held starts gated: its zero is not yet written.
Enroll(s) ==
    /\ phase[s] = "reserved" /\ Unlocked(s)
    /\ IdOf[s] \notin roster
    /\ roster' = roster \cup {IdOf[s]} /\ zeroed' = zeroed \ {IdOf[s]}
    /\ phase' = [phase EXCEPT ![s] = "enrolled"]
    /\ UNCHANGED <<seats, accepting, ticking, held, released, modelVars, rosVars, lockVars, now>>

\* Mutant of CloseSeat: a seat is closed while its dispatch or control step runs.
CloseSeatUnlocked(s, zero) ==
    /\ Open(s)
    /\ phase' = [phase EXCEPT ![s] = "closed"]
    /\ command' = [command EXCEPT ![s] = @ /\ ~zero]
    /\ output' = [output EXCEPT ![s] = @ /\ ~zero]
    /\ UNCHANGED <<seats, accepting, ticking, domainVars, rosVars, lockVars, now>>

\* Close, of a removed entity (with a last zero) or of a destroyed plugin, is
\* three critical sections; the subscription of the plugin ends with it.
CloseSeat(s, zero) ==
    /\ Open(s) /\ Unlocked(s)
    /\ phase' = [phase EXCEPT ![s] = "closed"]
    /\ command' = [command EXCEPT ![s] = @ /\ ~zero]
    /\ output' = [output EXCEPT ![s] = @ /\ ~zero]
    /\ UNCHANGED <<seats, accepting, ticking, domainVars, rosVars, lockVars, now>>

Unroster(s) ==
    /\ phase[s] = "closed"
    /\ phase' = [phase EXCEPT ![s] = "unrostered"]
    /\ roster' = roster \ {IdOf[s]}
    /\ UNCHANGED <<seats, accepting, ticking, held, zeroed, released, modelVars, rosVars,
                   lockVars, now>>

\* A subscription has at most one callback in the queue; it goes with its subscription.
Without(s) ==
    IF \E k \in DOMAIN queue : queue[k].seat = s
    THEN RemoveAt(queue, CHOOSE k \in DOMAIN queue : queue[k].seat = s) ELSE queue

Erase(s) ==
    /\ phase[s] = "unrostered" /\ Unlocked(s)
    /\ phase' = [phase EXCEPT ![s] = "gone"]
    /\ seats' = IF seats[IdOf[s]] = s THEN [seats EXCEPT ![IdOf[s]] = NoSeat] ELSE seats
    /\ message' = [message EXCEPT ![s] = None]
    /\ queue' = Without(s)
    /\ UNCHANGED <<accepting, ticking, domainVars, modelVars, lockVars, now>>

-------------------------------------------------------------------------------
(***************************************************************************)
(* HOLD and the host's tick.                                               *)
(***************************************************************************)
Admit(i, stamp) == i \in roster /\ i \notin held /\ stamp > released[i]

Engage(i) ==
    /\ i \in roster \ held
    /\ held' = held \cup {i} /\ zeroed' = zeroed \ {i}
    /\ UNCHANGED <<hostVars, roster, released, modelVars, rosVars, lockVars, now>>

Release(i) ==
    /\ i \in held
    /\ held' = held \ {i} /\ zeroed' = zeroed \ {i}
    /\ released' = [released EXCEPT ![i] = now]
    /\ UNCHANGED <<hostVars, roster, modelVars, rosVars, lockVars, now>>

\* Mutant of WriteZero: zero is written beside a dispatch or control step.
WriteZeroUnlocked(s) ==
    /\ s # NoSeat /\ Open(s)
    /\ command' = [command EXCEPT ![s] = FALSE]
    /\ output' = [output EXCEPT ![s] = FALSE]

\* The zero writer of the seat that the map names runs under the seat's mutex.
WriteZero(s) ==
    /\ s # NoSeat /\ Open(s) /\ Unlocked(s)
    /\ command' = [command EXCEPT ![s] = FALSE]
    /\ output' = [output EXCEPT ![s] = FALSE]

Tick(i) ==
    /\ ticking /\ i \in held \cap roster
    /\ WriteZero(seats[i])
    /\ zeroed' = zeroed \cup {i}
    /\ UNCHANGED <<hostVars, roster, held, released, rosVars, lockVars, now>>

\* Resets of the entity zero its model, held or not.
ZeroOutput(i) ==
    /\ WriteZero(seats[i])
    /\ UNCHANGED <<hostVars, domainVars, rosVars, lockVars, now>>

Stop ==
    /\ accepting
    /\ accepting' = FALSE /\ ticking' = FALSE
    /\ UNCHANGED <<phase, seats, domainVars, modelVars, rosVars, lockVars, now>>

-------------------------------------------------------------------------------
(***************************************************************************)
(* Commands and control steps.                                             *)
(***************************************************************************)
\* A message replaces the one that waits in a full subscription, whose callback
\* and stamp it inherits; otherwise a callback is queued with the present time.
Receive(s) ==
    /\ Open(s) /\ message[s] # now
    /\ IF message[s] # None THEN UNCHANGED queue
       ELSE Len(queue) < MaxCallbacks /\ queue' = Append(queue, [seat |-> s, stamp |-> now])
    /\ message' = [message EXCEPT ![s] = now]
    /\ UNCHANGED <<hostVars, domainVars, modelVars, lockVars, now>>

Taken == /\ queue' = Tail(queue)
         /\ message' = [message EXCEPT ![Head(queue).seat] = None]

\* Mutant of Stamp: a command is stamped when it is dispatched.
StampAtDispatch == now

Stamp == Head(queue).stamp
Allowed(s) == Open(s) /\ Admit(IdOf[s], Stamp)

Drop ==
    /\ dispatching = Idle /\ queue # <<>>
    /\ LET s == Head(queue).seat IN Unlocked(s) /\ ~Allowed(s)
    /\ Taken
    /\ UNCHANGED <<hostVars, domainVars, modelVars, lockVars, now>>

Dispatch ==
    /\ dispatching = Idle /\ queue # <<>>
    /\ LET s == Head(queue).seat
       IN  /\ Unlocked(s) /\ Allowed(s)
           /\ dispatching' = [seat |-> s, value |-> message[s]]
    /\ Taken
    /\ UNCHANGED <<hostVars, domainVars, modelVars, controlling, now>>

Apply ==
    /\ dispatching # Idle
    /\ command' = [command EXCEPT ![dispatching.seat] = TRUE]
    /\ dispatching' = Idle
    /\ UNCHANGED <<hostVars, domainVars, output, rosVars, controlling, now>>

ObserveHold(s) ==
    /\ controlling = Idle /\ Open(s) /\ Unlocked(s)
    /\ controlling' = [seat |-> s, value |-> ~Admit(IdOf[s], now)]
    /\ UNCHANGED <<hostVars, domainVars, modelVars, rosVars, dispatching, now>>

Control ==
    /\ controlling # Idle
    /\ output' = [output EXCEPT ![controlling.seat] =
                     ~controlling.value /\ command[controlling.seat]]
    /\ controlling' = Idle
    /\ UNCHANGED <<hostVars, domainVars, command, rosVars, dispatching, now>>

TimePasses ==
    /\ now < MaxTime
    /\ now' = now + 1
    /\ UNCHANGED <<hostVars, domainVars, modelVars, rosVars, lockVars>>

Next ==
    \/ \E s \in Seats : \/ Reserve(s) \/ ReserveFails(s) \/ Enroll(s)
                        \/ \E zero \in BOOLEAN : CloseSeat(s, zero)
                        \/ Unroster(s) \/ Erase(s)
                        \/ Receive(s) \/ ObserveHold(s)
    \/ \E i \in Ids : Engage(i) \/ Release(i) \/ Tick(i) \/ ZeroOutput(i)
    \/ Stop \/ Drop \/ Dispatch \/ Apply \/ Control \/ TimePasses

\* Holders of a seat's mutex end their short sections, and the tick, which runs
\* every 10 ms, gets the mutex among them at last.
Spec ==
    /\ Init /\ [][Next]_vars
    /\ WF_vars(Apply) /\ WF_vars(Control)
    /\ \A i \in Ids : SF_vars(Tick(i))

-------------------------------------------------------------------------------
(***************************************************************************)
(* Properties.                                                             *)
(***************************************************************************)

\* A robot has at most one model, although a seat leaves in three critical
\* sections while the next model loads (chassis_hold.cpp:205-222, 248-268).
OneModelPerRobot ==
    \A s, t \in Seats : Open(s) /\ Open(t) /\ IdOf[s] = IdOf[t] => s = t

\* The roster is exactly the enrolled seats: the end of an old seat never takes
\* a new one off the roster, no closed seat stays on it, and a new model never
\* finds its ID still there (chassis_hold.cpp:237-238, 262-267).
RosterIsEnrolled ==
    \A i \in Ids :
        /\ (\E s \in Seats : IdOf[s] = i /\ phase[s] = "enrolled") => i \in roster
        /\ i \in roster => \E s \in Seats : IdOf[s] = i /\ phase[s] \in {"enrolled", "closed"}
        /\ i \in roster => \A s \in Seats : IdOf[s] = i => phase[s] # "reserved"

\* The queue of ROS and the subscriptions agree: a callback is of a seat with a message
\* that is at least as new, and a seat has one callback at most, over messages that replace
\* each other and seats that leave (chassis_command_queue.cpp:14-36).
QueueIsKept ==
    /\ \A k \in DOMAIN queue : /\ message[queue[k].seat] # None
                                /\ queue[k].stamp <= message[queue[k].seat]
    /\ \A j, k \in DOMAIN queue : queue[j].seat = queue[k].seat => j = k

\* Seats, roster and the map of the host agree: one model per robot, and the roster
\* is the enrolled ones, at any time of a close that takes three critical sections.
SeatsAgree == TypeOK /\ OneModelPerRobot /\ RosterIsEnrolled /\ QueueIsKept

\* A held robot whose zero was written drives nothing and remembers no command,
\* whatever was admitted before the hold (docs/chassis-hold.md:73-78).
HeldIsZero ==
    \A s \in Seats : phase[s] = "enrolled" /\ IdOf[s] \in zeroed => ~command[s] /\ ~output[s]

\* A closed seat never acts on its model again (chassis_hold.hpp:67-70).
ClosedIsSilent ==
    [][\A s \in Seats : phase[s] \in {"closed", "unrostered", "gone"} =>
          command'[s] = command[s] /\ output'[s] = output[s]]_vars

\* A command is only admitted when it was received after the last release, also
\* when it runs under the callback of an older message, however late
\* (chassis_command_queue.cpp:20-23, docs/chassis-hold.md:60-64).
AdmittedIsFresh ==
    [][dispatching' # dispatching /\ dispatching' # Idle =>
          dispatching'.value > released[IdOf[dispatching'.seat]]]_vars

\* A hold of a robot with a model takes effect: its zero is written, unless the
\* hold or the model ends first or the host stops.
HoldTakesEffect ==
    \A s \in Seats : (phase[s] = "enrolled" /\ IdOf[s] \in held)
        ~> (IdOf[s] \in zeroed \/ IdOf[s] \notin held \/ phase[s] # "enrolled" \/ ~ticking)
=============================================================================
