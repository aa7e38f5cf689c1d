------------------------------ MODULE WorkerWake ------------------------------
(***************************************************************************)
(* How the domain worker of SimulationService::Impl goes to sleep and who  *)
(* wakes it.  One condition variable, queue_cv_, serves five producers:    *)
(* the IO thread (commands, cancellations, scene observers), the native    *)
(* callbacks that answer a create (factory, sensors, chassis), the physics *)
(* thread, the deadlines of the open creates, and Stop.                    *)
(*                                                                         *)
(* Only some of them change what the worker's predicate reads under        *)
(* queue_mutex_, the mutex that the worker holds from the predicate to the *)
(* wait.  A notification is lost unless the worker is asleep already, so   *)
(* the order of store, lock and notification of each producer matters.     *)
(***************************************************************************)
EXTENDS Integers, Sequences, FiniteSets, Functions

CONSTANTS Ops,        \* commands; any of them may turn out to be a create
          Parts,      \* native answers that complete a create
          LateParts,  \* the answers whose callback notifies after it unlocked
          Observers,  \* clients of /v1/extensions/scene/observe
          MaxSerial   \* bound of the scene serial in these runs

ASSUME WorkerWakeAssumption ==
    /\ LateParts \subseteq Parts
    /\ MaxSerial \in Nat

NoOp == "none"
ASSUME NoOpAssumption == NoOp \notin Ops

VARIABLES
    \* Read by the worker's predicate.
    queue,      \* queue_: the commands not taken yet
    requested,  \* scene_snapshot_requested_
    ackReady,   \* create_ack_ready_
    stopping,   \* stopping_
    \* Worker.
    worker, taken, left,
    alarm,      \* creates that were cancelled before the worker computed its wait
    leaving,    \* the worker is past its loop
    \* Creates that wait for their native answers.
    open,       \* pending_creates_ entries with a slot
    answered,   \* answered[o]: the parts that arrived, visible to the worker
    acking,     \* <<o, part>>: its callback has yet to raise ackReady
    late,       \* LateParts whose callback has yet to notify
    cancelled, expired,
    \* IO thread, physics thread, and the thread that stops the world.
    io, physics, stopper,
    \* Scene observation.
    serial,     \* NativeSceneController::serial
    watching,   \* watching[c]: after_serial of the held observer, or None
    active,     \* scene_observers_active_
    snapshot    \* the published snapshot's serial, or None (not ready)

predicateVars == <<queue, requested, ackReady, stopping>>
workerVars == <<worker, taken, left, alarm, leaving>>
createVars == <<open, answered, acking, late, cancelled, expired>>
threadVars == <<io, physics, stopper>>
sceneVars == <<serial, watching, active, snapshot>>
vars == <<predicateVars, workerVars, createVars, threadVars, sceneVars>>

None == -1
Serials == 0..MaxSerial

\* A command is somewhere between its admission and its terminal result.
Live(o) == o \in Range(queue) \/ o = taken \/ o \in open

TypeOK ==
    /\ queue \in Seq(Ops)
    /\ requested \in BOOLEAN /\ ackReady \in BOOLEAN /\ stopping \in BOOLEAN
    /\ leaving \in BOOLEAN
    /\ worker \in {"top", "deciding", "falling", "asleep", "woken", "taking",
                   "snapshot", "executing", "clearing", "visiting", "ended"}
    /\ taken \in Ops \cup {NoOp}
    /\ open \in SUBSET Ops
    /\ left \in SUBSET open
    /\ alarm \in SUBSET open
    /\ answered \in [Ops -> SUBSET Parts]
    /\ acking \in SUBSET (Ops \X Parts)
    /\ late \in SUBSET LateParts
    /\ cancelled \in SUBSET Ops
    /\ expired \in SUBSET Ops
    /\ io \in {"idle", "activate", "request", "notify"}
    /\ physics \in {"idle", "changed", "notify"}
    /\ stopper \in {"running", "notify", "joining"}
    /\ serial \in Serials
    /\ watching \in [Observers -> Serials \cup {None}]
    /\ active \in BOOLEAN
    /\ snapshot \in Serials \cup {None}

Init ==
    /\ queue = <<>>
    /\ requested = FALSE /\ ackReady = FALSE /\ stopping = FALSE
    /\ worker = "top" /\ taken = NoOp /\ left = {} /\ alarm = {} /\ leaving = FALSE
    /\ open = {}
    /\ answered = [o \in Ops |-> {}]
    /\ acking = {} /\ late = {} /\ cancelled = {} /\ expired = {}
    /\ io = "idle" /\ physics = "idle" /\ stopper = "running"
    /\ serial = 0
    /\ watching = [c \in Observers |-> None]
    /\ active = FALSE
    /\ snapshot = None

\* The worker is the only thread that keeps queue_mutex_ over several steps; the
\* critical sections of the others are single steps.
MutexFree == worker \notin {"deciding", "falling", "taking"}

\* notify_one and notify_all: nothing is remembered.
Notify == worker' = IF worker = "asleep" THEN "woken" ELSE worker

-------------------------------------------------------------------------------
(***************************************************************************)
(* Worker.                                                                 *)
(***************************************************************************)

\* while (!stopping_), and the pass over the open creates after the loop.
Top ==
    /\ worker = "top"
    /\ worker' = IF stopping THEN "clearing" ELSE "deciding"
    /\ leaving' = stopping
    \* The deadline of the wait is the earliest of the open creates: now, if one
    \* of them is cancelled already.
    /\ alarm' = IF stopping THEN alarm ELSE open \cap cancelled
    /\ UNCHANGED <<predicateVars, taken, left, createVars, threadVars, sceneVars>>

Idle == queue = <<>> /\ ~requested /\ ~ackReady /\ ~stopping

Decide ==
    /\ worker = "deciding"
    /\ worker' = IF Idle THEN "falling" ELSE "taking"
    /\ UNCHANGED <<predicateVars, taken, left, alarm, leaving, createVars,
                   threadVars, sceneVars>>

FallAsleep ==
    /\ worker = "falling"
    /\ worker' = "asleep"
    /\ UNCHANGED <<predicateVars, taken, left, alarm, leaving, createVars,
                   threadVars, sceneVars>>

\* The deadline of an open create passed, or one was cancelled before the wait.
WakeByDeadline ==
    /\ worker = "asleep"
    /\ \E o \in open : o \in expired \cup alarm
    /\ worker' = "woken"
    /\ UNCHANGED <<predicateVars, taken, left, alarm, leaving, createVars,
                   threadVars, sceneVars>>

Reacquire ==
    /\ worker = "woken"
    /\ worker' = "taking"
    /\ UNCHANGED <<predicateVars, taken, left, alarm, leaving, createVars,
                   threadVars, sceneVars>>

Take ==
    /\ worker = "taking"
    /\ leaving' = stopping
    /\ IF stopping
       THEN worker' = "clearing" /\ UNCHANGED <<queue, taken>>
       ELSE /\ worker' = "snapshot"
            /\ IF queue = <<>>
               THEN UNCHANGED <<queue, taken>>
               ELSE taken' = Head(queue) /\ queue' = Tail(queue)
    /\ UNCHANGED <<requested, ackReady, stopping, left, alarm, createVars,
                   threadVars, sceneVars>>

\* A requested snapshot is taken between two commands and published.
Publish ==
    /\ worker = "snapshot"
    /\ requested' = FALSE
    /\ snapshot' = IF requested /\ active THEN serial ELSE snapshot
    /\ worker' = IF taken = NoOp THEN "clearing" ELSE "executing"
    /\ UNCHANGED <<queue, ackReady, stopping, taken, left, alarm, leaving,
                   createVars, threadVars, serial, watching, active>>

\* The command ends, perhaps with a changed scene, ...
ExecuteToEnd(changed) ==
    /\ worker = "executing"
    /\ worker' = "clearing"
    /\ taken' = NoOp
    /\ cancelled' = cancelled \ {taken}
    /\ expired' = expired \ {taken}
    /\ changed => serial < MaxSerial
    /\ serial' = IF changed THEN serial + 1 ELSE serial
    /\ requested' = (requested \/ active)
    /\ UNCHANGED <<queue, ackReady, stopping, left, alarm, leaving, open, answered, acking,
                   late, threadVars, watching, active, snapshot>>

\* ... or a create is submitted and stays open.
ExecuteCreate ==
    /\ worker = "executing"
    /\ worker' = "clearing"
    /\ taken' = NoOp
    /\ open' = open \cup {taken}
    /\ UNCHANGED <<predicateVars, left, alarm, leaving, answered, acking, late, cancelled,
                   expired, threadVars, sceneVars>>

\* CompleteCreates: the flag is cleared before anything is looked at.
Clear ==
    /\ worker = "clearing"
    /\ worker' = "visiting"
    /\ ackReady' = FALSE
    /\ left' = open
    /\ UNCHANGED <<queue, requested, stopping, taken, alarm, leaving, createVars,
                   threadVars, sceneVars>>

Due(o) == stopping \/ o \in cancelled \/ o \in expired

\* The receipt of create o is terminal and its slot detached (or its entry erased).
Close(o) ==
    /\ open' = open \ {o}
    /\ left' = left \ {o}
    /\ alarm' = alarm \ {o}
    /\ answered' = [answered EXCEPT ![o] = {}]
    /\ cancelled' = cancelled \ {o}
    /\ expired' = expired \ {o}
    /\ requested' = (requested \/ active)

VisitFinished(o) ==
    /\ worker = "visiting" /\ o \in left
    /\ Due(o) \/ answered[o] = Parts
    /\ Close(o)
    /\ UNCHANGED <<queue, ackReady, stopping, worker, taken, leaving, acking,
                   late, threadVars, sceneVars>>

VisitUnfinished(o) ==
    /\ worker = "visiting" /\ o \in left
    /\ ~Due(o) /\ answered[o] # Parts
    /\ left' = left \ {o}
    /\ UNCHANGED <<predicateVars, worker, taken, alarm, leaving, createVars,
                   threadVars, sceneVars>>

\* Mutant of EndPass: the flag is cleared after the pass.
EndPassClears ==
    /\ worker = "visiting" /\ left = {}
    /\ worker' = IF leaving THEN "ended" ELSE "top"
    /\ ackReady' = FALSE
    /\ UNCHANGED <<queue, requested, stopping, taken, left, alarm, leaving, createVars,
                   threadVars, sceneVars>>

\* Back to the loop's condition, or the end after the pass that follows the loop.
EndPass ==
    /\ worker = "visiting" /\ left = {}
    /\ worker' = IF leaving THEN "ended" ELSE "top"
    /\ UNCHANGED <<predicateVars, taken, left, alarm, leaving, createVars,
                   threadVars, sceneVars>>

WorkerStep ==
    \/ Top \/ Decide \/ FallAsleep \/ Reacquire \/ Take \/ Publish
    \/ \E changed \in BOOLEAN : ExecuteToEnd(changed)
    \/ ExecuteCreate \/ Clear
    \/ \E o \in Ops : VisitFinished(o) \/ VisitUnfinished(o)
    \/ EndPass

-------------------------------------------------------------------------------
(***************************************************************************)
(* IO thread.                                                              *)
(***************************************************************************)

\* Mutant of Submit: the command is queued and nobody is told.
SubmitSilently(o) ==
    /\ io = "idle" /\ MutexFree
    /\ ~Live(o)
    /\ queue' = Append(queue, o)
    /\ UNCHANGED <<requested, ackReady, stopping, workerVars, createVars, threadVars,
                   sceneVars>>

\* The command is queued and the worker notified under the mutex.
Submit(o) ==
    /\ io = "idle" /\ MutexFree
    /\ ~Live(o)
    /\ queue' = Append(queue, o)
    /\ Notify
    /\ UNCHANGED <<requested, ackReady, stopping, taken, left, alarm, leaving,
                   createVars, threadVars, sceneVars>>

\* Mutant of Cancel: the flag is stored without the mutex.
CancelUnlocked(o) ==
    /\ io = "idle"
    /\ Live(o)
    /\ cancelled' = cancelled \cup {o}
    /\ io' = "notify"
    /\ UNCHANGED <<predicateVars, workerVars, open, answered, acking, late, expired,
                   physics, stopper, sceneVars>>

\* The flag is stored under the mutex, the notification comes after it.
Cancel(o) ==
    /\ io = "idle" /\ MutexFree
    /\ Live(o)
    /\ cancelled' = cancelled \cup {o}
    /\ io' = "notify"
    /\ UNCHANGED <<predicateVars, workerVars, open, answered, acking, late, expired,
                   physics, stopper, sceneVars>>

\* An observer is held; three more steps ask the worker for a snapshot, none of
\* them under the mutex.
Observe(c, after) ==
    /\ io = "idle"
    /\ watching[c] = None
    /\ watching' = [watching EXCEPT ![c] = after]
    /\ io' = "activate"
    /\ UNCHANGED <<predicateVars, workerVars, createVars, physics, stopper, serial,
                   active, snapshot>>

Activate ==
    /\ io = "activate"
    /\ active' = TRUE
    /\ io' = "request"
    /\ UNCHANGED <<predicateVars, workerVars, createVars, physics, stopper, serial,
                   watching, snapshot>>

Request ==
    /\ io = "request"
    /\ requested' = TRUE
    /\ io' = "notify"
    /\ UNCHANGED <<queue, ackReady, stopping, workerVars, createVars, physics, stopper,
                   sceneVars>>

IoNotify ==
    /\ io = "notify"
    /\ Notify
    /\ io' = "idle"
    /\ UNCHANGED <<predicateVars, taken, left, alarm, leaving, createVars, physics,
                   stopper, sceneVars>>

\* A published snapshot answers the observers that do not have its serial.
Drain ==
    /\ io = "idle"
    /\ watching' = [c \in Observers |->
                       IF snapshot # None /\ watching[c] # snapshot THEN None ELSE watching[c]]
    /\ snapshot' = None
    /\ active' = (\E c \in Observers : watching'[c] # None)
    /\ UNCHANGED <<predicateVars, workerVars, createVars, threadVars, serial>>

\* An observer's own deadline passes, or it disconnects (as far as Drain sees it).
GiveUp(c) ==
    /\ io = "idle"
    /\ watching[c] # None
    /\ watching' = [watching EXCEPT ![c] = None]
    /\ active' = (\E d \in Observers : watching'[d] # None)
    /\ UNCHANGED <<predicateVars, workerVars, createVars, threadVars, serial,
                   snapshot>>

IoStep == Activate \/ Request \/ IoNotify \/ Drain

-------------------------------------------------------------------------------
(***************************************************************************)
(* Native callbacks, clocks, physics, and Stop.                            *)
(***************************************************************************)

\* A part of the answer to create o is stored where the worker will find it.
Answer(o, part) ==
    /\ o \in open /\ part \notin answered[o]
    /\ ~stopping
    /\ answered' = [answered EXCEPT ![o] = @ \cup {part}]
    /\ acking' = acking \cup {<<o, part>>}
    /\ UNCHANGED <<predicateVars, workerVars, open, late, cancelled, expired,
                   threadVars, sceneVars>>

\* Then its callback raises the flag under the mutex, ...
Acknowledge(o, part) ==
    /\ <<o, part>> \in acking /\ part \notin LateParts
    /\ MutexFree
    /\ acking' = acking \ {<<o, part>>}
    /\ ackReady' = TRUE
    /\ Notify
    /\ UNCHANGED <<queue, requested, stopping, taken, left, alarm, leaving, open,
                   answered, late, cancelled, expired, threadVars, sceneVars>>

\* ... or, for a sensor, notifies only after it left the mutex.
AcknowledgeLate(o, part) ==
    /\ <<o, part>> \in acking /\ part \in LateParts \ late
    /\ MutexFree
    /\ acking' = acking \ {<<o, part>>}
    /\ ackReady' = TRUE
    /\ late' = late \cup {part}
    /\ UNCHANGED <<queue, requested, stopping, workerVars, open, answered, cancelled,
                   expired, threadVars, sceneVars>>

NotifyLate(part) ==
    /\ part \in late
    /\ late' = late \ {part}
    /\ Notify
    /\ UNCHANGED <<predicateVars, taken, left, alarm, leaving, open, answered, acking,
                   cancelled, expired, threadVars, sceneVars>>

CallbackStep ==
    \/ \E o \in Ops, part \in Parts : Acknowledge(o, part) \/ AcknowledgeLate(o, part)
    \/ \E part \in LateParts : NotifyLate(part)

Expire(o) ==
    /\ Live(o) /\ o \notin expired
    /\ expired' = expired \cup {o}
    /\ UNCHANGED <<predicateVars, workerVars, open, answered, acking, late, cancelled,
                   threadVars, sceneVars>>

\* A world update moves the scene, then looks whether anybody observes it.  Stop
\* closes this gate before it notifies.
Update ==
    /\ physics = "idle" /\ stopper = "running"
    /\ serial < MaxSerial
    /\ serial' = serial + 1
    /\ physics' = "changed"
    /\ UNCHANGED <<predicateVars, workerVars, createVars, io, stopper, watching,
                   active, snapshot>>

RequestSnapshot ==
    /\ physics = "changed"
    /\ requested' = (requested \/ active)
    /\ physics' = IF active /\ ~requested THEN "notify" ELSE "idle"
    /\ UNCHANGED <<queue, ackReady, stopping, workerVars, createVars, io, stopper,
                   sceneVars>>

PhysicsNotify ==
    /\ physics = "notify"
    /\ Notify
    /\ physics' = "idle"
    /\ UNCHANGED <<predicateVars, taken, left, alarm, leaving, createVars, io, stopper,
                   sceneVars>>

PhysicsStep == RequestSnapshot \/ PhysicsNotify

Stop ==
    /\ stopper = "running"
    /\ stopping' = TRUE
    /\ stopper' = "notify"
    /\ UNCHANGED <<queue, requested, ackReady, workerVars, createVars, io, physics,
                   sceneVars>>

\* No world update is running any more; the mutex is not taken.
StopNotify ==
    /\ stopper = "notify" /\ physics = "idle"
    /\ Notify
    /\ stopper' = "joining"
    /\ UNCHANGED <<predicateVars, taken, left, alarm, leaving, createVars, io, physics,
                   sceneVars>>

\* What the standard allows a condition variable to do.
WakeSpuriously ==
    /\ worker = "asleep"
    /\ worker' = "woken"
    /\ UNCHANGED <<predicateVars, taken, left, alarm, leaving, createVars, threadVars,
                   sceneVars>>

-------------------------------------------------------------------------------
Next ==
    \/ WorkerStep \/ WakeByDeadline \/ WakeSpuriously
    \/ \E o \in Ops : Submit(o) \/ Cancel(o) \/ Expire(o)
    \/ \E c \in Observers, after \in Serials : Observe(c, after)
    \/ \E c \in Observers : GiveUp(c)
    \/ IoStep
    \/ \E o \in Ops, part \in Parts : Answer(o, part)
    \/ CallbackStep
    \/ Update \/ PhysicsStep
    \/ Stop \/ StopNotify

Spec == Init /\ [][Next]_vars

(***************************************************************************)
(* Threads run, callbacks finish what they began and get a mutex that is   *)
(* free again and again, and a wait with a deadline ends.  Nobody is       *)
(* obliged to ask, to answer or to cancel, no deadline to come soon, and   *)
(* no spurious wake-up to come at all.                                     *)
(***************************************************************************)
Fairness ==
    /\ WF_vars(WorkerStep)
    /\ WF_vars(WakeByDeadline)
    /\ WF_vars(Activate \/ Request \/ IoNotify)
    /\ SF_vars(Drain)  \* every request handler begins with one
    /\ \A o \in Ops, part \in Parts :
          SF_vars(Acknowledge(o, part) \/ AcknowledgeLate(o, part))
    /\ \A part \in LateParts : WF_vars(NotifyLate(part))
    /\ WF_vars(PhysicsStep)
    /\ WF_vars(StopNotify)

FairSpec == Spec /\ Fairness

-------------------------------------------------------------------------------
(***************************************************************************)
(* Properties.                                                             *)
(***************************************************************************)

\* The worker never sleeps over work: when it is about to wait or waits, there is
\* no command, and every answer or cancellation of an open create has a
\* notification or an immediate deadline still to come.
NoLostWake ==
    worker \in {"falling", "asleep"} =>
        /\ queue = <<>>
        /\ ackReady => late # {}
        /\ \A o \in open :
              /\ answered[o] = Parts =>
                    ackReady \/ \E part \in Parts : <<o, part>> \in acking
              /\ o \in cancelled => io = "notify" \/ o \in alarm

\* What NoLostWake rests on: an answer that is complete is still to be visited, and
\* the wait's deadline was computed from all earlier cancellations.
WakeInv ==
    /\ TypeOK
    /\ NoLostWake
    /\ worker = "executing" => taken # NoOp
    /\ worker = "falling" => ~ackReady
    /\ \A o \in open :
          answered[o] = Parts =>
              \/ ackReady
              \/ \E part \in Parts : <<o, part>> \in acking
              \/ worker = "clearing"
              \/ worker = "visiting" /\ o \in left
    /\ worker \in {"deciding", "falling"} => open \cap cancelled \subseteq alarm

\* A scene change that an observer does not know yet is never forgotten: a
\* snapshot is requested, about to be requested, or published for the observer.
RequestKept ==
    \A c \in Observers :
        watching[c] \notin {None, serial} =>
            \/ requested
            \/ io \in {"activate", "request"}
            \/ physics = "changed"
            \/ snapshot \notin {None, watching[c]}

\* Nothing that the worker was told is lost between its test and its wait: neither a
\* command or an answer, nor a change of the scene (simulation_service.cpp:1713-1750).
WakesAgree == TypeOK /\ NoLostWake /\ RequestKept

\* ... because a held observer makes the scene active, once its handler got there.
RequestInv ==
    /\ TypeOK
    /\ RequestKept
    /\ \A c \in Observers : watching[c] # None => active \/ io = "activate"
    /\ worker = "executing" => taken # NoOp

\* Every queued command is taken, unless the world stops.
CommandTaken == \A o \in Ops : o \in Range(queue) ~> o \notin Range(queue) \/ stopping

\* Every open create that was answered, was cancelled or ran out of time gets its
\* terminal receipt, unless the world stops (and the last pass closes it).
OpenCreateCloses ==
    \A o \in Ops :
        o \in open /\ (answered[o] = Parts \/ o \in cancelled \/ o \in expired)
            ~> o \notin open \/ stopping

\* The worker, which Stop joins, ends once the world is stopped.
StopJoins == stopping ~> worker = "ended"

\* A held scene observer is answered when the scene has changed, unless the world
\* stops.
ObserverAnswered ==
    \A c \in Observers :
        watching[c] \notin {None, serial} ~> watching[c] \in {None, serial} \/ stopping
===============================================================================
