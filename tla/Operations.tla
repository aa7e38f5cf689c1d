------------------------------ MODULE Operations ------------------------------
(***************************************************************************)
(* The operation slots of one world endpoint (SimulationService::Impl):    *)
(* an IO thread that accepts, observes, cancels and reports operations,    *)
(* one domain worker that executes them in FIFO order, and creates whose   *)
(* slot stays open until the native factory answers.                       *)
(*                                                                         *)
(* The IO thread owns every slot in phase "free" or "retained"; the worker *)
(* owns it from "queued" on, until it stores "completed".  Nothing but the *)
(* phase of a slot hands it over, so the properties below are about the    *)
(* two threads never holding one slot for two different operations.        *)
(*                                                                         *)
(* How the worker goes to sleep and is woken is module WorkerWake.         *)
(***************************************************************************)
EXTENDS Integers, Sequences, FiniteSets, Functions

CONSTANTS Requests,   \* request IDs
          Bodies,     \* contents of mutating requests (their fingerprints)
          Creates,    \* the bodies that ask for entities.create
          Clients,    \* callers that can hold a /wait open
          NumSlots,   \* kReceipts
          QueueCap,   \* kQueue
          WaiterCap,  \* kWaiters
          None        \* no request, no body: a query slot or an unused one

ASSUME OperationsAssumption ==
    /\ NumSlots \in Nat \ {0}
    /\ QueueCap \in Nat \ {0}
    /\ WaiterCap \in Nat
    /\ Creates \subseteq Bodies
    /\ None \notin Requests \cup Bodies
    /\ IsFiniteSet(Clients)

Slots == 1..NumSlots
NoSlot == 0

VARIABLES
    \* A slot.  A query (GET) has no operation ID and no fingerprint.
    phase, operationId, fingerprint, state, code, effects, cancel, expired,
    ran,        \* history: the command passed Execute's guards in this life
    \* Shared by both threads.
    queue, pending, stopping,
    \* IO thread.
    io,         \* next slot of the running Drain, or one of the values below
    waiting,    \* waiting[c]: the slot whose waiters hold client c
    waiters,    \* waiters_
    asked,      \* history: the request client c waits for
    \* Worker.
    worker, current, open, left, leaving

slotVars == <<phase, operationId, fingerprint, state, code, effects, cancel,
              expired, ran>>
ioVars == <<io, waiting, waiters, asked>>
workerVars == <<worker, current, open, left, leaving>>
vars == <<slotVars, queue, pending, stopping, ioVars, workerVars>>

Phases == {"free", "queued", "executing", "completed", "retained"}
States == {"accepted", "running", "succeeded", "failed", "cancelled"}
\* The empty error code of a result is "ok" here.
Codes == {"ok", "cancelled", "deadline_exceeded", "unavailable", "error"}

\* Values of io besides a slot index: all slots drained, and thread ended.
Drained == NumSlots + 1
IoEnded == NumSlots + 2

Held(s) == {c \in Clients : waiting[c] = s}
HeldClients == {c \in Clients : waiting[c] # NoSlot}
Busy == {s \in Slots : phase[s] \in {"queued", "executing"}}

TypeOK ==
    /\ phase \in [Slots -> Phases]
    /\ operationId \in [Slots -> Requests \cup {None}]
    /\ fingerprint \in [Slots -> Bodies \cup {None}]
    /\ state \in [Slots -> States]
    /\ code \in [Slots -> Codes]
    /\ effects \in [Slots -> BOOLEAN]
    /\ cancel \in [Slots -> BOOLEAN]
    /\ expired \in [Slots -> BOOLEAN]
    /\ ran \in [Slots -> BOOLEAN]
    /\ queue \in Seq(Slots)
    /\ pending \in Nat
    /\ stopping \in BOOLEAN
    /\ io \in 1..IoEnded
    /\ waiting \in [Clients -> Slots \cup {NoSlot}]
    /\ waiters \in Nat
    /\ asked \in [Clients -> Requests \cup {None}]
    /\ worker \in {"idle", "popped", "entering", "applying", "retiring",
                   "creates", "ended"}
    /\ current \in Slots \cup {NoSlot}
    /\ open \in SUBSET Slots
    /\ left \in SUBSET Slots
    /\ leaving \in BOOLEAN

Init ==
    /\ phase = [s \in Slots |-> "free"]
    /\ operationId = [s \in Slots |-> None]
    /\ fingerprint = [s \in Slots |-> None]
    /\ state = [s \in Slots |-> "accepted"]
    /\ code = [s \in Slots |-> "ok"]
    /\ effects = [s \in Slots |-> FALSE]
    /\ cancel = [s \in Slots |-> FALSE]
    /\ expired = [s \in Slots |-> FALSE]
    /\ ran = [s \in Slots |-> FALSE]
    /\ queue = <<>>
    /\ pending = 0
    /\ stopping = FALSE
    /\ io = 1
    /\ waiting = [c \in Clients |-> NoSlot]
    /\ waiters = 0
    /\ asked = [c \in Clients |-> None]
    /\ worker = "idle"
    /\ current = NoSlot
    /\ open = {}
    /\ left = {}
    /\ leaving = FALSE

-------------------------------------------------------------------------------
(***************************************************************************)
(* IO thread.  Every request handler starts with a whole Drain, and the    *)
(* poll loop drains again afterwards, so the thread alternates between one *)
(* pass over the slots and at most one request.                            *)
(***************************************************************************)

\* Mutant of Release: the counter is forgotten.
ReleaseUncounted(s, gone) ==
    /\ gone \subseteq Held(s)
    /\ waiting' = [c \in Clients |-> IF c \in gone THEN NoSlot ELSE waiting[c]]
    /\ asked' = [c \in Clients |-> IF c \in gone THEN None ELSE asked[c]]
    /\ UNCHANGED waiters

\* Waiters of slot s leave: with the receipt, or with a 504.
Release(s, gone) ==
    /\ gone \subseteq Held(s)
    /\ waiting' = [c \in Clients |-> IF c \in gone THEN NoSlot ELSE waiting[c]]
    /\ asked' = [c \in Clients |-> IF c \in gone THEN None ELSE asked[c]]
    /\ waiters' = waiters - Cardinality(gone)

TerminalState(s) ==
    CASE code[s] = "cancelled" -> "cancelled"
      [] code[s] = "ok" -> "succeeded"
      [] OTHER -> "failed"

DrainStep(s) ==
    /\ io = s
    /\ io' = s + 1
    /\ UNCHANGED <<operationId, code, effects, cancel, expired, queue, pending,
                   stopping, workerVars>>

\* Work is not done: only the waiters whose own deadline passed are answered.
DrainLive(s) ==
    /\ DrainStep(s)
    /\ phase[s] \in {"free", "queued", "executing"}
    /\ state' = [state EXCEPT ![s] = IF phase[s] = "executing" THEN "running" ELSE @]
    /\ \E gone \in SUBSET Held(s) : Release(s, gone)
    /\ UNCHANGED <<phase, fingerprint, ran>>

\* The terminal receipt of a mutation is published and its waiters answered.
DrainCompleted(s) ==
    /\ DrainStep(s)
    /\ phase[s] = "completed"
    /\ operationId[s] # None
    /\ state' = [state EXCEPT ![s] = TerminalState(s)]
    /\ phase' = [phase EXCEPT ![s] = "retained"]
    /\ Release(s, Held(s))
    /\ UNCHANGED <<fingerprint, ran>>

\* A query is answered and its slot is free at once.
DrainQuery(s) ==
    /\ DrainStep(s)
    /\ phase[s] = "completed"
    /\ operationId[s] = None
    /\ state' = [state EXCEPT ![s] = TerminalState(s)]
    /\ phase' = [phase EXCEPT ![s] = "free"]
    /\ ran' = [ran EXCEPT ![s] = FALSE]
    /\ Release(s, {})
    /\ UNCHANGED fingerprint

\* A receipt older than five minutes may be forgotten; a younger one stays.
DrainRetained(s) ==
    /\ DrainStep(s)
    /\ phase[s] = "retained"
    /\ Release(s, Held(s))
    /\ \/ /\ phase' = [phase EXCEPT ![s] = "free"]
          /\ fingerprint' = [fingerprint EXCEPT ![s] = None]
          /\ ran' = [ran EXCEPT ![s] = FALSE]
       \/ UNCHANGED <<phase, fingerprint, ran>>
    /\ UNCHANGED state

DrainSlot(s) ==
    DrainLive(s) \/ DrainCompleted(s) \/ DrainQuery(s) \/ DrainRetained(s)

\* The slot that holds the receipt of request r.
IsReceiptOf(s, r) == phase[s] # "free" /\ operationId[s] = r
Known(r) == \E s \in Slots : IsReceiptOf(s, r)

FirstFree(s) ==
    /\ phase[s] = "free"
    /\ \A t \in Slots : t < s => phase[t] # "free"

\* One request is handled, and the next pass begins.
Handling ==
    /\ io = Drained
    /\ io' = 1
    /\ UNCHANGED <<stopping, workerVars>>

\* Take slot s for the command of request r, or for a query when r is None.
Enqueue(s, r, b) ==
    /\ FirstFree(s)
    /\ Len(queue) < QueueCap
    /\ phase' = [phase EXCEPT ![s] = "queued"]
    /\ operationId' = [operationId EXCEPT ![s] = r]
    /\ fingerprint' = [fingerprint EXCEPT ![s] = b]
    /\ state' = [state EXCEPT ![s] = "accepted"]
    /\ code' = [code EXCEPT ![s] = "ok"]
    /\ effects' = [effects EXCEPT ![s] = FALSE]
    /\ cancel' = [cancel EXCEPT ![s] = FALSE]
    /\ expired' = [expired EXCEPT ![s] = FALSE]
    /\ queue' = Append(queue, s)
    /\ pending' = pending + 1
    /\ UNCHANGED <<ran, waiting, waiters, asked>>

\* A known request ID is answered from its receipt (or refused as a conflict),
\* never enqueued again.
Submit(r, b) ==
    /\ Handling
    /\ ~Known(r)
    /\ \E s \in Slots : Enqueue(s, r, b)

Query ==
    /\ Handling
    /\ \E s \in Slots : Enqueue(s, None, None)

\* Mutant of Cancel: the receipt is published as cancelled at once.
CancelPublishes(r) ==
    /\ Handling
    /\ \E s \in Slots :
          /\ IsReceiptOf(s, r)
          /\ cancel' = [cancel EXCEPT ![s] = TRUE]
          /\ state' = [state EXCEPT ![s] = "cancelled"]
    /\ UNCHANGED <<phase, operationId, fingerprint, code, effects, expired,
                   ran, queue, pending, waiting, waiters, asked>>

\* Any retained operation, a terminal one included.
Cancel(r) ==
    /\ Handling
    /\ \E s \in Slots :
          /\ IsReceiptOf(s, r)
          /\ cancel' = [cancel EXCEPT ![s] = TRUE]
    /\ UNCHANGED <<phase, operationId, fingerprint, state, code, effects,
                   expired, ran, queue, pending, waiting, waiters, asked>>

Unreported(s) == phase[s] # "retained"

\* A terminal receipt is returned at once and holds nobody.
Wait(c, r) ==
    /\ Handling
    /\ waiting[c] = NoSlot
    /\ waiters < WaiterCap
    /\ \E s \in Slots :
          /\ IsReceiptOf(s, r)
          /\ Unreported(s)
          /\ waiting' = [waiting EXCEPT ![c] = s]
    /\ asked' = [asked EXCEPT ![c] = r]
    /\ waiters' = waiters + 1
    /\ UNCHANGED <<slotVars, queue, pending>>

\* No request, or one whose answer changes nothing (a receipt read, a conflict,
\* an invalid request, a full queue or slot table).
HandleNothing ==
    /\ Handling
    /\ UNCHANGED <<slotVars, queue, pending, waiting, waiters, asked>>

\* The poll loop tests stopping_ between two rounds.
IoEnd ==
    /\ io = Drained
    /\ stopping
    /\ io' = IoEnded
    /\ UNCHANGED <<slotVars, queue, pending, stopping, waiting, waiters, asked,
                   workerVars>>

\* A command's deadline passes (a clock, not a thread).
Expire(s) ==
    /\ phase[s] \in {"queued", "executing"}
    /\ ~expired[s]
    /\ expired' = [expired EXCEPT ![s] = TRUE]
    /\ UNCHANGED <<phase, operationId, fingerprint, state, code, effects,
                   cancel, ran, queue, pending, stopping, ioVars, workerVars>>

-------------------------------------------------------------------------------
(***************************************************************************)
(* Worker.                                                                 *)
(***************************************************************************)
WorkerOnly == UNCHANGED <<operationId, fingerprint, state, cancel, expired,
                          stopping, ioVars>>

\* Take the oldest command off the queue.
Pop ==
    /\ WorkerOnly
    /\ worker = "idle" /\ ~stopping /\ queue # <<>>
    /\ current' = Head(queue)
    /\ queue' = Tail(queue)
    /\ worker' = "popped"
    /\ UNCHANGED <<phase, code, effects, ran, pending, open, left, leaving>>

\* Woken without a command: a factory ACK, a cancellation, a deadline, a scene
\* observer.  The pass over the pending creates is made in any case.
Scan ==
    /\ WorkerOnly
    /\ worker = "idle" /\ ~stopping /\ queue = <<>>
    /\ worker' = "creates"
    /\ left' = open
    /\ UNCHANGED <<phase, code, effects, ran, queue, pending, current, open,
                   leaving>>

Begin ==
    /\ WorkerOnly
    /\ worker = "popped"
    /\ phase' = [phase EXCEPT ![current] = "executing"]
    /\ worker' = "entering"
    /\ UNCHANGED <<code, effects, ran, queue, pending, current, open, left,
                   leaving>>

\* Mutant of Complete: the native create stays attached to the finished slot.
CompleteAttached(s, result, begun) ==
    /\ code' = [code EXCEPT ![s] = result]
    /\ effects' = [effects EXCEPT ![s] = begun]
    /\ phase' = [phase EXCEPT ![s] = "completed"]
    /\ worker' = "retiring"
    /\ UNCHANGED open

\* Leave the slot with its result; the IO thread owns it from here on.
Complete(s, result, begun) ==
    /\ code' = [code EXCEPT ![s] = result]
    /\ effects' = [effects EXCEPT ![s] = begun]
    /\ phase' = [phase EXCEPT ![s] = "completed"]
    /\ worker' = "retiring"
    /\ open' = open \ {s}

\* Execute's first lines: an operation cancelled or expired before it starts
\* does not touch the world.
Refuse ==
    /\ WorkerOnly
    /\ worker = "entering"
    /\ cancel[current] \/ expired[current]
    /\ Complete(current,
                IF cancel[current] THEN "cancelled" ELSE "deadline_exceeded", FALSE)
    /\ left' = open
    /\ current' = NoSlot
    /\ UNCHANGED <<ran, queue, pending, leaving>>

\* Mutant of Enter: the cancel flag is not looked at.
EnterUnchecked ==
    /\ WorkerOnly
    /\ worker = "entering"
    /\ ~expired[current]
    /\ ran' = [ran EXCEPT ![current] = TRUE]
    /\ worker' = "applying"
    /\ UNCHANGED <<phase, code, effects, queue, pending, current, open, left,
                   leaving>>

Enter ==
    /\ WorkerOnly
    /\ worker = "entering"
    /\ ~cancel[current] /\ ~expired[current]
    /\ ran' = [ran EXCEPT ![current] = TRUE]
    /\ worker' = "applying"
    /\ UNCHANGED <<phase, code, effects, queue, pending, current, open, left,
                   leaving>>

\* The command runs to its end on the worker.  Handlers that wait for native
\* callbacks watch the cancel flag and the deadline; a query changes nothing.
Apply(result, begun) ==
    /\ WorkerOnly
    /\ worker = "applying"
    /\ result = "cancelled" => cancel[current]
    /\ result = "deadline_exceeded" => expired[current]
    /\ fingerprint[current] \in Creates => result = "error"
    /\ operationId[current] = None => result \in {"ok", "error"} /\ ~begun
    /\ Complete(current, result, begun)
    /\ left' = open
    /\ current' = NoSlot
    /\ UNCHANGED <<ran, queue, pending, leaving>>

\* A create was submitted to the native factory: its slot stays open.
OpenCreate ==
    /\ WorkerOnly
    /\ worker = "applying"
    /\ fingerprint[current] \in Creates
    /\ effects' = [effects EXCEPT ![current] = TRUE]
    /\ open' = open \cup {current}
    /\ left' = open \cup {current}
    /\ current' = NoSlot
    /\ worker' = "creates"
    /\ UNCHANGED <<phase, code, ran, queue, pending, leaving>>

\* The counter follows the phase in a step of its own.
Retire ==
    /\ WorkerOnly
    /\ worker = "retiring"
    /\ pending' = pending - 1
    /\ worker' = "creates"
    /\ UNCHANGED <<phase, code, effects, ran, queue, current, open, left,
                   leaving>>

\* Mutant of Due: the deadline of an open create is not looked at.
DueWithoutDeadline(s) == stopping \/ cancel[s]

\* CompleteCreates: a create that ran out of time ends without its factory.
Due(s) == stopping \/ cancel[s] \/ expired[s]

DueCode(s) ==
    CASE stopping -> "unavailable"
      [] ~stopping /\ cancel[s] -> "cancelled"
      [] OTHER -> "deadline_exceeded"

VisitDue(s) ==
    /\ WorkerOnly
    /\ worker = "creates" /\ s \in left
    /\ Due(s)
    /\ Complete(s, DueCode(s), TRUE)
    /\ left' = left \ {s}
    /\ UNCHANGED <<ran, queue, pending, current, leaving>>

\* The model arrived and its sensors and chassis answered.
VisitAnswered(s, result) ==
    /\ WorkerOnly
    /\ worker = "creates" /\ s \in left
    /\ ~Due(s)
    /\ Complete(s, result, TRUE)
    /\ left' = left \ {s}
    /\ UNCHANGED <<ran, queue, pending, current, leaving>>

VisitUnanswered(s) ==
    /\ WorkerOnly
    /\ worker = "creates" /\ s \in left
    /\ ~Due(s)
    /\ left' = left \ {s}
    /\ UNCHANGED <<phase, code, effects, ran, queue, pending, worker, current,
                   open, leaving>>

EndPass ==
    /\ WorkerOnly
    /\ worker = "creates" /\ left = {}
    /\ worker' = IF leaving THEN "ended" ELSE "idle"
    /\ UNCHANGED <<phase, code, effects, ran, queue, pending, current, open,
                   left, leaving>>

\* Work leaves its loop and makes one last pass over the pending creates.
Leave ==
    /\ WorkerOnly
    /\ worker = "idle" /\ stopping
    /\ leaving' = TRUE
    /\ worker' = "creates"
    /\ left' = open
    /\ UNCHANGED <<phase, code, effects, ran, queue, pending, current, open>>

Stop ==
    /\ ~stopping
    /\ stopping' = TRUE
    /\ UNCHANGED <<slotVars, queue, pending, ioVars, workerVars>>

\* Mutant of DropReplies: the held replies survive their server.
DropNothing ==
    /\ worker = "ended" /\ io = IoEnded
    /\ UNCHANGED vars

\* Both threads are joined: Stop drops the held replies (not their count).
DropReplies ==
    /\ worker = "ended" /\ io = IoEnded
    /\ waiting' = [c \in Clients |-> NoSlot]
    /\ asked' = [c \in Clients |-> None]
    /\ UNCHANGED <<slotVars, queue, pending, stopping, io, waiters, workerVars>>

-------------------------------------------------------------------------------
IoStep ==
    \/ \E s \in Slots : DrainSlot(s)
    \/ \E r \in Requests, b \in Bodies : Submit(r, b)
    \/ Query
    \/ \E r \in Requests : Cancel(r)
    \/ \E c \in Clients, r \in Requests : Wait(c, r)
    \/ HandleNothing
    \/ IoEnd

WorkerStep ==
    \/ Pop \/ Scan \/ Begin \/ Refuse \/ Enter
    \/ \E result \in Codes \ {"unavailable"}, begun \in BOOLEAN : Apply(result, begun)
    \/ OpenCreate \/ Retire
    \/ \E s \in Slots :
          \/ VisitDue(s)
          \/ \E result \in {"ok", "error"} : VisitAnswered(s, result)
          \/ VisitUnanswered(s)
    \/ EndPass \/ Leave

Next ==
    \/ IoStep
    \/ WorkerStep
    \/ \E s \in Slots : Expire(s)
    \/ Stop
    \/ DropReplies

Spec == Init /\ [][Next]_vars

(***************************************************************************)
(* The IO thread polls every 25 ms and tests stopping_ between two polls   *)
(* (hence the strong fairness of IoEnd).  The worker is never blocked for  *)
(* ever: module WorkerWake has the wake-ups, and every native wait inside  *)
(* a command is bounded by the command's deadline.  Deadlines pass because *)
(* a clock runs, and Stop goes on once both threads are joined.  Nothing   *)
(* obliges a client to ask, a factory to answer, a receipt to be forgotten *)
(* or the world to stop.                                                   *)
(***************************************************************************)
Fairness ==
    /\ WF_vars(IoStep)
    /\ SF_vars(IoEnd)
    /\ WF_vars(WorkerStep)
    /\ WF_vars(DropReplies)
    /\ \A s \in Slots : WF_vars(Expire(s))

FairSpec == Spec /\ Fairness

-------------------------------------------------------------------------------
(***************************************************************************)
(* Properties.                                                             *)
(***************************************************************************)

\* Phase, queue and worker agree on who has a slot: a command is queued exactly
\* once (or was just taken off the queue), and a slot is executing only while
\* the worker runs its command or a native create keeps it open.  A slot freed
\* under the worker, or one left behind by it, would break this.
SlotOwnership ==
    /\ \A s \in Slots :
          /\ phase[s] = "queued" <=> s \in Range(queue) \/ (worker = "popped" /\ s = current)
          /\ phase[s] = "executing" <=> s \in open \/ (worker \in {"entering", "applying"} /\ s = current)
    /\ \A i, j \in DOMAIN queue : queue[i] = queue[j] => i = j
    /\ current \notin open \cup Range(queue)

\* Retained receipts have distinct request IDs: a request that is sent again
\* while its first receipt is known is never given a second slot.
OneReceiptPerRequest ==
    \A s, t \in Slots :
        phase[s] # "free" /\ phase[t] # "free" /\ operationId[s] = operationId[t]
            => s = t \/ operationId[s] = None

\* A held /wait belongs to an operation that is still to be reported, and to the
\* one that the client asked for: its slot was not recycled for another request.
WaitersBelong ==
    \A c \in Clients :
        waiting[c] # NoSlot =>
            /\ phase[waiting[c]] \in {"queued", "executing", "completed"}
            /\ operationId[waiting[c]] = asked[c]
            /\ asked[c] # None

\* waiters_ counts the held replies and never exceeds kWaiters, whichever way a
\* reply leaves (receipt, deadline, disconnect).
WaitersCounted ==
    io # IoEnded =>
        waiters = Cardinality(HeldClients) /\ waiters <= WaiterCap

\* pending_commands in the health document counts the commands that are queued
\* or executing, and one more only between the two stores that end a command.
PendingCounted ==
    pending = Cardinality(Busy) + (IF worker = "retiring" THEN 1 ELSE 0)

\* effects.started is reported only for a command that was let through, and a
\* mutation that succeeded was let through: "applied: false" is the truth.
EffectsAreTrue ==
    \A s \in Slots :
        phase[s] \in {"completed", "retained"} =>
            /\ effects[s] => ran[s]
            /\ code[s] = "ok" => ran[s]
            /\ code[s] = "cancelled" => cancel[s]

\* When the worker has ended no native create is still attached to a slot: every
\* submitted factory receipt was quiesced before the endpoint is released.
QuiescedAtEnd ==
    worker = "ended" =>
        /\ open = {}
        /\ \A s \in Slots : phase[s] # "executing"

\* What the invariants above rest on.  The worker has a command in hand exactly
\* between Pop and the end of Execute; a pass visits open creates only, and the
\* last pass visits all of them.
WorkerState ==
    /\ worker \in {"popped", "entering", "applying"} <=> current \in Slots
    /\ left \subseteq open
    /\ leaving => stopping /\ left = open /\ worker \in {"creates", "retiring", "ended"}
    /\ worker = "ended" => leaving /\ left = {}

\* A command is let through after it was queued and before it is completed.
RunHistory ==
    /\ \A s \in Slots : phase[s] \in {"free", "queued"} => ~ran[s]
    /\ \A s \in open : ran[s]
    /\ worker = "entering" => ~ran[current]
    /\ worker = "applying" => ran[current]

\* The slots are consistent: each has one owner, one receipt per request, exact counts of
\* waiters and of pending commands, and receipts that tell the truth about effects, in
\* every interleaving of the handlers, the worker, deadlines and the stop.
IInv ==
    /\ TypeOK
    /\ SlotOwnership
    /\ WorkerState
    /\ RunHistory
    /\ OneReceiptPerRequest
    /\ WaitersBelong
    /\ WaitersCounted
    /\ PendingCounted
    /\ EffectsAreTrue

\* The receipt that the slots show for request r, as module OperationLog has it.
SlotOf(r) == CHOOSE s \in Slots : IsReceiptOf(s, r)
ReceiptOf(r) == IF Known(r) THEN state[SlotOf(r)] ELSE "unknown"
BodyOf(r) == IF Known(r) THEN fingerprint[SlotOf(r)] ELSE None
RanOf(r) == IF Known(r) THEN ran[SlotOf(r)] ELSE FALSE

Log == INSTANCE OperationLog WITH
           receipt <- [r \in Requests |-> ReceiptOf(r)],
           body <- [r \in Requests |-> BodyOf(r)],
           ran <- [r \in Requests |-> RanOf(r)]

\* The slots implement the promised receipts: receipts move forward only, keep
\* their body, are final once terminal, and a request runs at most once while
\* its receipt is known.
ImplementsLog == Log!Spec

\* Every accepted operation gets a terminal receipt, unless the world stops.
AcceptedTerminates ==
    \A r \in Requests :
        ReceiptOf(r) \in {"accepted", "running"}
            ~> ReceiptOf(r) \in {"succeeded", "failed", "cancelled"} \/ stopping

\* A cancellation that arrives while the command is queued always wins: the
\* command never runs, and the receipt ends as cancelled with no effects.
QueuedCancelWins ==
    \A s \in Slots :
        phase[s] = "queued" /\ cancel[s]
            ~> \/ phase[s] = "completed" /\ code[s] = "cancelled" /\ ~effects[s] /\ ~ran[s]
               \/ stopping

\* Every client that waits is answered or, at the stop, released.
WaitersAnswered ==
    \A c \in Clients : waiting[c] # NoSlot ~> waiting[c] = NoSlot
===============================================================================
