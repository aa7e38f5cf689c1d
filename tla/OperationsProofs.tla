--------------------------- MODULE OperationsProofs ---------------------------
(***************************************************************************)
(* Proofs about the operation slots, for any number of slots, requests,    *)
(* bodies and clients and any queue and waiter limits.                     *)
(***************************************************************************)
EXTENDS Operations, FiniteSetTheorems, TLAPS

-------------------------------------------------------------------------------
(***************************************************************************)
(* Lemmas on the queue.                                                    *)
(***************************************************************************)

\* Appending to a queue adds one element; no element is repeated if the new one
\* was not there.
LEMMA RangeAppend ==
    ASSUME NEW S, NEW q \in Seq(S), NEW x \in S
    PROVE  /\ Append(q, x) \in Seq(S)
           /\ Range(Append(q, x)) = Range(q) \cup {x}
           /\ (\A i, j \in DOMAIN q : q[i] = q[j] => i = j) /\ x \notin Range(q)
                 => \A i, j \in DOMAIN Append(q, x) :
                       Append(q, x)[i] = Append(q, x)[j] => i = j
<1>1. /\ Append(q, x) \in Seq(S)
      /\ DOMAIN q = 1..Len(q) /\ Len(q) \in Nat
      /\ DOMAIN Append(q, x) = 1..(Len(q) + 1)
      /\ Append(q, x)[Len(q) + 1] = x
      /\ \A i \in 1..Len(q) : Append(q, x)[i] = q[i]
  OBVIOUS
<1>2. Range(Append(q, x)) = Range(q) \cup {x}
  <2>1. \A y : y \in Range(Append(q, x)) => y \in Range(q) \cup {x}
    BY <1>1 DEF Range
  <2>2. \A y \in Range(q) : y \in Range(Append(q, x))
    BY <1>1 DEF Range
  <2>3. x \in Range(Append(q, x))
    <3>1. Len(q) + 1 \in DOMAIN Append(q, x)
      BY <1>1
    <3>2. QED
      BY <1>1, <3>1 DEF Range
  <2>4. QED
    BY <2>1, <2>2, <2>3
<1>3. ASSUME \A i, j \in DOMAIN q : q[i] = q[j] => i = j, x \notin Range(q),
             NEW i \in DOMAIN Append(q, x), NEW j \in DOMAIN Append(q, x),
             Append(q, x)[i] = Append(q, x)[j]
      PROVE  i = j
  <2>1. \A k \in 1..Len(q) : q[k] # x
    BY <1>1, <1>3 DEF Range
  <2>2. QED
    BY <1>1, <1>3, <2>1
<1>4. QED
  BY <1>1, <1>2, <1>3

\* Taking the head of a queue without repetitions removes exactly that element.
LEMMA RangeTail ==
    ASSUME NEW S, NEW q \in Seq(S), q # <<>>,
           \A i, j \in DOMAIN q : q[i] = q[j] => i = j
    PROVE  /\ Tail(q) \in Seq(S)
           /\ Head(q) \in S
           /\ Range(q) = Range(Tail(q)) \cup {Head(q)}
           /\ Head(q) \notin Range(Tail(q))
           /\ \A i, j \in DOMAIN Tail(q) : Tail(q)[i] = Tail(q)[j] => i = j
<1>1. /\ Tail(q) \in Seq(S)
      /\ Head(q) = q[1] /\ Head(q) \in S
      /\ Len(q) \in Nat /\ Len(q) > 0
      /\ DOMAIN q = 1..Len(q)
      /\ DOMAIN Tail(q) = 1..(Len(q) - 1)
      /\ \A i \in 1..(Len(q) - 1) : Tail(q)[i] = q[i + 1]
  OBVIOUS
<1>2. Head(q) \notin Range(Tail(q))
  <2>1. \A i \in 1..(Len(q) - 1) : i + 1 \in DOMAIN q /\ 1 \in DOMAIN q /\ i + 1 # 1
    BY <1>1
  <2>2. QED
    BY <1>1, <2>1 DEF Range
<1>3. Range(q) = Range(Tail(q)) \cup {Head(q)}
  <2>1. \A k \in DOMAIN q : k = 1 \/ (k - 1 \in 1..(Len(q) - 1) /\ q[k] = Tail(q)[k - 1])
    BY <1>1
  <2>2. \A k \in DOMAIN Tail(q) : k + 1 \in DOMAIN q /\ Tail(q)[k] = q[k + 1]
    BY <1>1
  <2>3. QED
    BY <1>1, <2>1, <2>2 DEF Range
<1>4. \A i, j \in DOMAIN Tail(q) : Tail(q)[i] = Tail(q)[j] => i = j
  BY <1>1
<1>5. QED
  BY <1>1, <1>2, <1>3, <1>4

\* The same for the worker's queue.
LEMMA QueueAppend ==
    ASSUME IInv, NEW s \in Slots, s \notin Range(queue)
    PROVE  /\ Append(queue, s) \in Seq(Slots)
           /\ Range(Append(queue, s)) = Range(queue) \cup {s}
           /\ \A i, j \in DOMAIN Append(queue, s) :
                 Append(queue, s)[i] = Append(queue, s)[j] => i = j
<1>1. /\ queue \in Seq(Slots)
      /\ \A i, j \in DOMAIN queue : queue[i] = queue[j] => i = j
  BY DEF IInv, TypeOK, SlotOwnership
<1>2. QED
  BY <1>1, RangeAppend

\* What Pop does to the queue: the rest of it lost its head only, which was there once.
LEMMA QueueTail ==
    ASSUME IInv, queue # <<>>
    PROVE  /\ Tail(queue) \in Seq(Slots)
           /\ Head(queue) \in Slots
           /\ Range(queue) = Range(Tail(queue)) \cup {Head(queue)}
           /\ Head(queue) \notin Range(Tail(queue))
           /\ \A i, j \in DOMAIN Tail(queue) : Tail(queue)[i] = Tail(queue)[j] => i = j
<1>1. /\ queue \in Seq(Slots)
      /\ \A i, j \in DOMAIN queue : queue[i] = queue[j] => i = j
  BY DEF IInv, TypeOK, SlotOwnership
<1>2. QED
  BY <1>1, RangeTail

-------------------------------------------------------------------------------
(***************************************************************************)
(* Finite sets that the counters count.                                    *)
(***************************************************************************)
LEMMA SlotsFinite == IsFiniteSet(Slots) /\ IsFiniteSet(Busy) /\ Cardinality(Busy) \in Nat
<1>1. NumSlots \in Nat /\ 1 \in Int
  BY OperationsAssumption
<1>2. IsFiniteSet(Slots)
  BY <1>1, FS_Interval DEF Slots
<1>3. Busy \in SUBSET Slots
  BY DEF Busy
<1>4. IsFiniteSet(Busy)
  BY <1>2, <1>3, FS_Subset
<1>5. QED
  BY <1>2, <1>4, FS_CardinalityType

\* Held replies can be counted.
LEMMA ClientsFinite ==
    /\ IsFiniteSet(Clients) /\ IsFiniteSet(HeldClients) /\ Cardinality(HeldClients) \in Nat
    /\ \A gone \in SUBSET HeldClients :
          /\ IsFiniteSet(gone) /\ Cardinality(gone) \in Nat
          /\ Cardinality(HeldClients \ gone) = Cardinality(HeldClients) - Cardinality(gone)
          /\ Cardinality(gone) <= Cardinality(HeldClients)
<1>1. IsFiniteSet(Clients)
  BY OperationsAssumption
<1>2. HeldClients \in SUBSET Clients
  BY DEF HeldClients
<1>3. IsFiniteSet(HeldClients)
  BY <1>1, <1>2, FS_Subset
<1>4. Cardinality(HeldClients) \in Nat
  BY <1>3, FS_CardinalityType
<1>5. ASSUME NEW gone \in SUBSET HeldClients
      PROVE  /\ IsFiniteSet(gone) /\ Cardinality(gone) \in Nat
             /\ Cardinality(HeldClients \ gone) = Cardinality(HeldClients) - Cardinality(gone)
             /\ Cardinality(gone) <= Cardinality(HeldClients)
  <2>1. IsFiniteSet(gone) /\ Cardinality(gone) <= Cardinality(HeldClients)
    BY <1>3, <1>5, FS_Subset
  <2>2. Cardinality(gone) \in Nat
    BY <2>1, FS_CardinalityType
  <2>3. HeldClients \cap gone = gone
    BY <1>5
  <2>4. Cardinality(HeldClients \ gone) = Cardinality(HeldClients) - Cardinality(gone)
    BY <1>3, <2>3, FS_Difference
  <2>5. QED
    BY <2>1, <2>2, <2>4
<1>6. QED
  BY <1>1, <1>3, <1>4, <1>5

\* An empty slot table satisfies the invariant.
LEMMA InitIInv == Init => IInv
<1> SUFFICES ASSUME Init PROVE IInv
  OBVIOUS
<1> USE DEF Init, Slots, NoSlot
<1>1. TypeOK
  <2>1. io \in 1..IoEnded
    BY OperationsAssumption DEF IoEnded
  <2>2. queue \in Seq(Slots) /\ pending \in Nat /\ waiters \in Nat
    OBVIOUS
  <2>3. /\ phase \in [Slots -> Phases]
        /\ operationId \in [Slots -> Requests \cup {None}]
        /\ fingerprint \in [Slots -> Bodies \cup {None}]
        /\ state \in [Slots -> States]
        /\ code \in [Slots -> Codes]
    BY DEF Phases, States, Codes
  <2>4. /\ effects \in [Slots -> BOOLEAN] /\ cancel \in [Slots -> BOOLEAN]
        /\ expired \in [Slots -> BOOLEAN] /\ ran \in [Slots -> BOOLEAN]
    OBVIOUS
  <2>5. /\ waiting \in [Clients -> Slots \cup {NoSlot}]
        /\ asked \in [Clients -> Requests \cup {None}]
    OBVIOUS
  <2>6. QED
    BY <2>1, <2>2, <2>3, <2>4, <2>5 DEF TypeOK
<1>2. SlotOwnership
  <2>1. Range(queue) = {} /\ DOMAIN queue = {}
    BY DEF Range
  <2>2. QED
    BY <2>1 DEF SlotOwnership
<1>3. WorkerState /\ RunHistory /\ OneReceiptPerRequest
  BY DEF WorkerState, RunHistory, OneReceiptPerRequest
<1>4. WaitersBelong /\ EffectsAreTrue
  BY DEF WaitersBelong, EffectsAreTrue
<1>5. WaitersCounted
  <2>1. HeldClients = {}
    BY DEF HeldClients
  <2>2. Cardinality(HeldClients) = 0
    BY <2>1, FS_EmptySet
  <2>3. QED
    BY <2>2, OperationsAssumption DEF WaitersCounted
<1>6. PendingCounted
  <2>1. Busy = {}
    BY DEF Busy
  <2>2. Cardinality(Busy) = 0
    BY <2>1, FS_EmptySet
  <2>3. QED
    BY <2>2 DEF PendingCounted
<1>7. QED
  BY <1>1, <1>2, <1>3, <1>4, <1>5, <1>6 DEF IInv

-------------------------------------------------------------------------------
(***************************************************************************)
(* IO thread.                                                              *)
(***************************************************************************)

\* What Release does to the counters and to the waiters of other slots.
LEMMA ReleaseLemma ==
    ASSUME IInv, NEW s \in Slots, NEW gone, io = s, Release(s, gone)
    PROVE  /\ waiting' \in [Clients -> Slots \cup {NoSlot}]
           /\ asked' \in [Clients -> Requests \cup {None}]
           /\ waiters' \in Nat
           /\ waiters' = Cardinality(HeldClients') /\ waiters' <= WaiterCap
           /\ gone \subseteq Held(s)
           /\ \A c \in Clients : waiting'[c] # NoSlot =>
                 c \notin gone /\ waiting'[c] = waiting[c] /\ asked'[c] = asked[c]
<1> USE DEF Slots, NoSlot
<1>1. /\ waiting' \in [Clients -> Slots \cup {NoSlot}]
      /\ asked' \in [Clients -> Requests \cup {None}]
      /\ gone \subseteq Held(s)
      /\ \A c \in Clients : waiting'[c] # NoSlot =>
            c \notin gone /\ waiting'[c] = waiting[c] /\ asked'[c] = asked[c]
  BY DEF IInv, TypeOK, Release
<1>2. gone \in SUBSET HeldClients
  BY <1>1 DEF Held, HeldClients
<1>3. HeldClients' = HeldClients \ gone
  BY <1>1 DEF HeldClients, Release
<1>4. waiters = Cardinality(HeldClients) /\ waiters <= WaiterCap
  BY OperationsAssumption DEF IInv, WaitersCounted, IoEnded
<1>5. waiters' = waiters - Cardinality(gone)
  BY DEF Release
<1>6. QED
  BY <1>1, <1>2, <1>3, <1>4, <1>5, ClientsFinite, OperationsAssumption

\* The pass over the slots: only slot s changes, and only the waiters of s leave.
LEMMA DrainSlotStep == ASSUME IInv, NEW s \in Slots, DrainSlot(s) PROVE IInv'
<1> USE DEF Slots, NoSlot
<1>1. PICK gone : Release(s, gone) /\ (phase'[s] = "retained" => gone = Held(s))
                  /\ (phase'[s] = "free" /\ phase[s] # "free" => phase[s] = "retained" \/ operationId[s] = None)
                  /\ (phase[s] = "retained" => gone = Held(s))
  BY DEF DrainSlot, DrainLive, DrainCompleted, DrainQuery, DrainRetained, DrainStep, IInv, TypeOK
<1>2. /\ io = s /\ io' = s + 1
      /\ UNCHANGED <<operationId, code, effects, cancel, expired, queue, pending,
                     stopping, worker, current, open, left, leaving>>
  BY DEF DrainSlot, DrainLive, DrainCompleted, DrainQuery, DrainRetained, DrainStep, workerVars
<1>3. /\ waiting' \in [Clients -> Slots \cup {NoSlot}]
      /\ asked' \in [Clients -> Requests \cup {None}]
      /\ waiters' \in Nat
      /\ waiters' = Cardinality(HeldClients') /\ waiters' <= WaiterCap
      /\ gone \subseteq Held(s)
      /\ \A c \in Clients : waiting'[c] # NoSlot =>
            c \notin gone /\ waiting'[c] = waiting[c] /\ asked'[c] = asked[c]
  BY <1>1, <1>2, ReleaseLemma
<1>4. /\ phase' \in [Slots -> Phases]
      /\ state' \in [Slots -> States]
      /\ fingerprint' \in [Slots -> Bodies \cup {None}]
      /\ ran' \in [Slots -> BOOLEAN]
  <2>1. /\ phase \in [Slots -> Phases]
        /\ state \in [Slots -> States]
        /\ fingerprint \in [Slots -> Bodies \cup {None}]
        /\ ran \in [Slots -> BOOLEAN]
    BY DEF IInv, TypeOK
  <2>2. CASE DrainLive(s)
    BY <2>1, <2>2 DEF DrainLive, Phases, States
  <2>3. CASE DrainCompleted(s)
    BY <2>1, <2>3 DEF DrainCompleted, Phases, States, TerminalState
  <2>4. CASE DrainQuery(s)
    BY <2>1, <2>4 DEF DrainQuery, Phases, States, TerminalState
  <2>5. CASE DrainRetained(s)
    BY <2>1, <2>5 DEF DrainRetained, Phases
  <2>6. QED
    BY <2>2, <2>3, <2>4, <2>5 DEF DrainSlot
<1>5. /\ \A t \in Slots : t # s => phase'[t] = phase[t] /\ ran'[t] = ran[t]
      /\ \/ phase'[s] = phase[s] /\ ran'[s] = ran[s]
         \/ phase[s] = "completed" /\ phase'[s] = "retained" /\ ran'[s] = ran[s]
         \/ phase[s] \in {"completed", "retained"} /\ phase'[s] = "free" /\ ~ran'[s]
  BY DEF DrainSlot, DrainLive, DrainCompleted, DrainQuery, DrainRetained, IInv, TypeOK
<1>6. TypeOK'
  <2>1. io' \in 1..IoEnded
    BY <1>2, OperationsAssumption DEF IoEnded
  <2>2. QED
    BY <1>2, <1>3, <1>4, <2>1 DEF IInv, TypeOK
<1>7. SlotOwnership'
  BY <1>2, <1>5 DEF IInv, SlotOwnership
<1>8. WorkerState'
  BY <1>2 DEF IInv, WorkerState
<1>9. RunHistory'
  <2>1. \A t \in open : phase[t] = "executing"
    BY DEF IInv, TypeOK, SlotOwnership
  <2>2. worker \in {"entering", "applying"} => current \in Slots /\ phase[current] = "executing"
    BY DEF IInv, TypeOK, SlotOwnership, WorkerState
  <2>3. \A t \in Slots : phase[t] = "executing" => ran'[t] = ran[t]
    BY <1>5
  <2>4. \A t \in Slots : phase'[t] \in {"free", "queued"} => ~ran'[t]
    BY <1>5 DEF IInv, RunHistory
  <2>5. QED
    BY <1>2, <2>1, <2>2, <2>3, <2>4 DEF IInv, TypeOK, RunHistory
<1>10. OneReceiptPerRequest'
  BY <1>2, <1>5 DEF IInv, OneReceiptPerRequest
<1>11. WaitersBelong'
  <2> SUFFICES ASSUME NEW c \in Clients, waiting'[c] # NoSlot
               PROVE  /\ phase'[waiting'[c]] \in {"queued", "executing", "completed"}
                      /\ operationId'[waiting'[c]] = asked'[c]
                      /\ asked'[c] # None
    BY DEF WaitersBelong
  <2>1. c \notin gone /\ waiting'[c] = waiting[c] /\ asked'[c] = asked[c] /\ waiting[c] \in Slots
    BY <1>3
  <2>2. /\ phase[waiting[c]] \in {"queued", "executing", "completed"}
        /\ operationId[waiting[c]] = asked[c]
        /\ asked[c] # None
    BY <2>1 DEF IInv, WaitersBelong
  <2>3. waiting[c] = s => phase'[s] = phase[s]
    BY <1>1, <1>5, <2>1, <2>2 DEF Held
  <2>4. QED
    BY <1>2, <1>5, <2>1, <2>2, <2>3
<1>12. WaitersCounted'
  BY <1>3 DEF WaitersCounted
<1>13. PendingCounted'
  <2>1. Busy' = Busy
    BY <1>5 DEF Busy
  <2>2. QED
    BY <1>2, <2>1 DEF IInv, PendingCounted
<1>14. EffectsAreTrue'
  BY <1>2, <1>5 DEF IInv, EffectsAreTrue
<1>15. QED
  BY <1>6, <1>7, <1>8, <1>9, <1>10, <1>11, <1>12, <1>13, <1>14 DEF IInv

\* A free slot is taken for a request that no slot knows, or for a query.
LEMMA EnqueueStep ==
    ASSUME IInv, NEW s \in Slots, NEW r \in Requests \cup {None},
           NEW b \in Bodies \cup {None}, Handling, Enqueue(s, r, b),
           r = None \/ ~Known(r)
    PROVE  IInv'
<1> USE DEF Slots, NoSlot, Handling, workerVars
<1>1. /\ phase[s] = "free" /\ s \notin Range(queue) /\ s \notin open /\ s # current
      /\ s \notin Busy
  BY DEF Enqueue, FirstFree, IInv, SlotOwnership, WorkerState, Busy
<1>2. /\ queue' \in Seq(Slots)
      /\ Range(queue') = Range(queue) \cup {s}
      /\ \A i, j \in DOMAIN queue' : queue'[i] = queue'[j] => i = j
  BY <1>1, QueueAppend DEF Enqueue
<1>3. phase' = [phase EXCEPT ![s] = "queued"] /\ phase \in [Slots -> Phases]
  BY DEF Enqueue, IInv, TypeOK
<1>4. TypeOK'
  <2> USE DEF Enqueue, IInv, TypeOK
  <2>1. /\ phase' \in [Slots -> Phases]
        /\ state' \in [Slots -> States]
        /\ code' \in [Slots -> Codes]
    BY <1>3 DEF Phases, States, Codes
  <2>2. /\ operationId' \in [Slots -> Requests \cup {None}]
        /\ fingerprint' \in [Slots -> Bodies \cup {None}]
    OBVIOUS
  <2>3. /\ effects' \in [Slots -> BOOLEAN]
        /\ cancel' \in [Slots -> BOOLEAN]
        /\ expired' \in [Slots -> BOOLEAN]
        /\ ran' \in [Slots -> BOOLEAN]
    OBVIOUS
  <2>4. pending' \in Nat /\ io' \in 1..IoEnded
    BY OperationsAssumption DEF IoEnded
  <2>5. QED
    BY <1>2, <2>1, <2>2, <2>3, <2>4
<1>5. SlotOwnership'
  BY <1>1, <1>2, <1>3 DEF Enqueue, IInv, TypeOK, SlotOwnership
<1>6. WorkerState'
  BY DEF IInv, WorkerState
<1>7. RunHistory'
  <2>1. UNCHANGED <<ran, worker, current, open>>
    BY DEF Enqueue
  <2>2. \A t \in Slots : phase'[t] \in {"free", "queued"} => ~ran[t]
    BY <1>1, <1>3 DEF IInv, RunHistory
  <2>3. QED
    BY <2>1, <2>2 DEF IInv, RunHistory
<1>8. OneReceiptPerRequest'
  BY <1>3 DEF Enqueue, IInv, TypeOK, OneReceiptPerRequest, Known, IsReceiptOf
<1>9. WaitersBelong'
  BY <1>1, <1>3 DEF Enqueue, IInv, TypeOK, WaitersBelong
<1>10. WaitersCounted'
  BY OperationsAssumption
     DEF Enqueue, IInv, WaitersCounted, HeldClients, Drained, IoEnded
<1>11. PendingCounted'
  <2>1. Busy' = Busy \cup {s}
    BY <1>3 DEF Busy
  <2>2. Cardinality(Busy') = Cardinality(Busy) + 1
    BY <1>1, <2>1, SlotsFinite, FS_AddElement
  <2>3. pending' = pending + 1
    BY DEF Enqueue
  <2>4. QED
    BY <2>2, <2>3, SlotsFinite DEF IInv, PendingCounted
<1>12. EffectsAreTrue'
  BY <1>3 DEF Enqueue, IInv, TypeOK, EffectsAreTrue
<1>13. QED
  BY <1>4, <1>5, <1>6, <1>7, <1>8, <1>9, <1>10, <1>11, <1>12 DEF IInv

\* Handle, /cancel: a flag of the one slot that has the receipt.
LEMMA CancelStep == ASSUME IInv, NEW r \in Requests, Cancel(r) PROVE IInv'
<1> USE DEF Slots, NoSlot, Handling, workerVars, Cancel
<1>1. PICK s \in Slots : cancel' = [cancel EXCEPT ![s] = TRUE]
  OBVIOUS
<1>2. TypeOK'
  BY <1>1, OperationsAssumption DEF IInv, TypeOK, IoEnded
<1>3. SlotOwnership' /\ WorkerState' /\ RunHistory' /\ OneReceiptPerRequest' /\ WaitersBelong'
  BY DEF IInv, SlotOwnership, WorkerState, RunHistory, OneReceiptPerRequest, WaitersBelong
<1>4. WaitersCounted' /\ PendingCounted'
  BY OperationsAssumption
     DEF IInv, WaitersCounted, HeldClients, Drained, IoEnded, PendingCounted, Busy
<1>5. EffectsAreTrue'
  BY <1>1 DEF IInv, TypeOK, EffectsAreTrue
<1>6. QED
  BY <1>2, <1>3, <1>4, <1>5 DEF IInv

\* Handle, /wait: one more held reply, of an operation without a report.
LEMMA WaitStep ==
    ASSUME IInv, NEW c \in Clients, NEW r \in Requests, Wait(c, r) PROVE IInv'
<1> USE DEF Slots, NoSlot, Handling, workerVars, slotVars
<1>1. PICK s \in Slots : /\ IsReceiptOf(s, r) /\ Unreported(s)
                        /\ waiting' = [waiting EXCEPT ![c] = s]
  BY DEF Wait
<1>2. TypeOK'
  BY <1>1, OperationsAssumption DEF Wait, IInv, TypeOK, IoEnded
<1>3. SlotOwnership' /\ WorkerState' /\ RunHistory' /\ OneReceiptPerRequest'
  BY DEF Wait, IInv, SlotOwnership, WorkerState, RunHistory, OneReceiptPerRequest
<1>4. WaitersBelong'
  <2>1. /\ phase[s] \in {"queued", "executing", "completed"}
        /\ operationId[s] = r /\ r # None
    BY <1>1, OperationsAssumption DEF IsReceiptOf, Unreported, IInv, TypeOK, Phases
  <2>2. asked' = [asked EXCEPT ![c] = r] /\ UNCHANGED <<phase, operationId>>
    BY DEF Wait
  <2>3. QED
    BY <1>1, <2>1, <2>2 DEF IInv, TypeOK, WaitersBelong
<1>5. WaitersCounted'
  <2>1. HeldClients' = HeldClients \cup {c} /\ c \notin HeldClients
    BY <1>1 DEF HeldClients, Wait, IInv, TypeOK
  <2>2. Cardinality(HeldClients') = Cardinality(HeldClients) + 1
    BY <2>1, ClientsFinite, FS_AddElement
  <2>3. waiters = Cardinality(HeldClients)
    BY OperationsAssumption DEF Wait, IInv, WaitersCounted, Drained, IoEnded
  <2>4. waiters' = waiters + 1 /\ waiters < WaiterCap
    BY DEF Wait
  <2>5. QED
    BY <2>2, <2>3, <2>4, ClientsFinite, OperationsAssumption DEF WaitersCounted
<1>6. PendingCounted' /\ EffectsAreTrue'
  BY DEF Wait, IInv, PendingCounted, Busy, EffectsAreTrue
<1>7. QED
  BY <1>2, <1>3, <1>4, <1>5, <1>6 DEF IInv

\* Steps that move only io, expired or stopping.
LEMMA QuietStep ==
    ASSUME IInv, HandleNothing \/ IoEnd \/ (\E s \in Slots : Expire(s)) \/ Stop
    PROVE  IInv'
<1> USE DEF Slots, NoSlot, workerVars, slotVars, ioVars, HandleNothing, Handling,
        IoEnd, Expire, Stop
<1>1. /\ UNCHANGED <<phase, operationId, fingerprint, state, code, effects, cancel, ran,
                     queue, pending, waiting, waiters, asked, workerVars>>
      /\ stopping => stopping'
      /\ io' \in {io, 1, IoEnded} /\ (io = IoEnded => io' = IoEnded)
      /\ expired' \in [Slots -> BOOLEAN] /\ stopping' \in BOOLEAN
  <2>1. /\ io \in 1..IoEnded /\ expired \in [Slots -> BOOLEAN] /\ stopping \in BOOLEAN
        /\ NumSlots \in Nat
    BY OperationsAssumption DEF IInv, TypeOK
  <2>2. CASE HandleNothing \/ IoEnd
    BY <2>1, <2>2 DEF IoEnded, Drained
  <2>3. CASE (\E s \in Slots : Expire(s)) \/ Stop
    BY <2>1, <2>3
  <2>4. QED
    BY <2>2, <2>3
<1>2. TypeOK'
  BY <1>1, OperationsAssumption DEF IInv, TypeOK, IoEnded
<1>3. SlotOwnership' /\ WorkerState' /\ RunHistory' /\ OneReceiptPerRequest' /\ WaitersBelong'
  BY <1>1 DEF IInv, SlotOwnership, WorkerState, RunHistory, OneReceiptPerRequest, WaitersBelong
<1>4. WaitersCounted' /\ PendingCounted' /\ EffectsAreTrue'
  BY <1>1 DEF IInv, WaitersCounted, HeldClients, PendingCounted, Busy, EffectsAreTrue
<1>5. QED
  BY <1>2, <1>3, <1>4 DEF IInv

\* Stop: all held replies go, after the worker and the IO thread.
LEMMA DropRepliesStep == ASSUME IInv, DropReplies PROVE IInv'
<1> USE DEF Slots, NoSlot, workerVars, slotVars, DropReplies
<1>1. TypeOK'
  BY DEF IInv, TypeOK
<1>2. SlotOwnership' /\ WorkerState' /\ RunHistory' /\ OneReceiptPerRequest'
  BY DEF IInv, SlotOwnership, WorkerState, RunHistory, OneReceiptPerRequest
<1>3. WaitersBelong' /\ WaitersCounted' /\ PendingCounted' /\ EffectsAreTrue'
  BY DEF IInv, WaitersBelong, WaitersCounted, PendingCounted, Busy, EffectsAreTrue
<1>4. QED
  BY <1>1, <1>2, <1>3 DEF IInv

-------------------------------------------------------------------------------
(***************************************************************************)
(* Worker.  Every step of it leaves the clients and the request of a slot  *)
(* alone.                                                                  *)
(***************************************************************************)

\* Work takes the head of the queue: the slot changes hands and no phase.
LEMMA PopStep == ASSUME IInv, Pop PROVE IInv'
<1> USE DEF NoSlot, WorkerOnly, ioVars
<1>1. /\ queue' \in Seq(Slots) /\ current' \in Slots
      /\ Range(queue) = Range(queue') \cup {current'}
      /\ current' \notin Range(queue')
      /\ \A i, j \in DOMAIN queue' : queue'[i] = queue'[j] => i = j
  BY QueueTail DEF Pop
<1>2. worker' = "popped" /\ worker = "idle" /\ ~stopping
      /\ UNCHANGED <<phase, code, effects, ran, pending, open, left, leaving,
                     operationId, fingerprint, state, cancel, expired, stopping,
                     io, waiting, waiters, asked>>
  BY DEF Pop
<1>3. TypeOK'
  BY <1>1, <1>2 DEF IInv, TypeOK
<1>4. SlotOwnership'
  <2>1. phase[current'] = "queued" /\ current' \notin open
    BY <1>1, <1>2 DEF IInv, SlotOwnership
  <2>2. QED
    BY <1>1, <1>2, <2>1 DEF IInv, SlotOwnership
<1>5. WorkerState' /\ RunHistory'
  BY <1>1, <1>2 DEF IInv, WorkerState, RunHistory
<1>6. OneReceiptPerRequest' /\ WaitersBelong' /\ WaitersCounted' /\ PendingCounted' /\ EffectsAreTrue'
  BY <1>2 DEF IInv, OneReceiptPerRequest, WaitersBelong, WaitersCounted, HeldClients,
              PendingCounted, Busy, EffectsAreTrue
<1>7. QED
  BY <1>3, <1>4, <1>5, <1>6 DEF IInv

\* Work stores phase 2 for the command in hand.
LEMMA BeginStep == ASSUME IInv, Begin PROVE IInv'
<1> USE DEF Slots, NoSlot, WorkerOnly, ioVars
<1>1. current \in Slots /\ phase[current] = "queued" /\ current \notin Range(queue)
      /\ current \notin open /\ ~ran[current] /\ ~leaving
  BY DEF Begin, IInv, TypeOK, WorkerState, SlotOwnership, RunHistory
<1>2. worker = "popped" /\ worker' = "entering" /\ phase' = [phase EXCEPT ![current] = "executing"]
      /\ UNCHANGED <<code, effects, ran, queue, pending, current, open, left, leaving,
                     operationId, fingerprint, state, cancel, expired, stopping,
                     io, waiting, waiters, asked>>
  BY DEF Begin
<1>3. TypeOK'
  BY <1>1, <1>2 DEF IInv, TypeOK, Phases
<1>4. SlotOwnership'
  BY <1>1, <1>2 DEF IInv, TypeOK, SlotOwnership
<1>5. WorkerState' /\ RunHistory'
  BY <1>1, <1>2 DEF IInv, TypeOK, WorkerState, RunHistory
<1>6. OneReceiptPerRequest' /\ WaitersBelong' /\ EffectsAreTrue'
  BY <1>1, <1>2 DEF IInv, TypeOK, OneReceiptPerRequest, WaitersBelong, EffectsAreTrue
<1>7. WaitersCounted' /\ PendingCounted'
  <2>1. Busy' = Busy
    BY <1>1, <1>2 DEF IInv, TypeOK, Busy
  <2>2. QED
    BY <1>2, <2>1 DEF IInv, WaitersCounted, HeldClients, PendingCounted
<1>8. QED
  BY <1>3, <1>4, <1>5, <1>6, <1>7 DEF IInv

\* Execute lets the command through.
LEMMA EnterStep == ASSUME IInv, Enter PROVE IInv'
<1> USE DEF Slots, NoSlot, WorkerOnly, ioVars
<1>1. current \in Slots /\ phase[current] = "executing" /\ current \notin open /\ ~leaving
  BY DEF Enter, IInv, TypeOK, WorkerState, SlotOwnership
<1>2. worker = "entering" /\ worker' = "applying" /\ ran' = [ran EXCEPT ![current] = TRUE]
      /\ UNCHANGED <<phase, code, effects, queue, pending, current, open, left, leaving,
                     operationId, fingerprint, state, cancel, expired, stopping,
                     io, waiting, waiters, asked>>
  BY DEF Enter
<1>3. TypeOK' /\ SlotOwnership'
  BY <1>2 DEF IInv, TypeOK, SlotOwnership
<1>4. WorkerState'
  BY <1>1, <1>2 DEF IInv, WorkerState
<1>5. RunHistory'
  BY <1>1, <1>2 DEF IInv, TypeOK, RunHistory
<1>6. OneReceiptPerRequest' /\ WaitersBelong' /\ WaitersCounted' /\ PendingCounted'
  BY <1>2 DEF IInv, OneReceiptPerRequest, WaitersBelong, WaitersCounted, HeldClients,
              PendingCounted, Busy
<1>7. EffectsAreTrue'
  BY <1>1, <1>2 DEF IInv, TypeOK, EffectsAreTrue
<1>8. QED
  BY <1>3, <1>4, <1>5, <1>6, <1>7 DEF IInv

\* A command ends, in Execute (its slot is current) or in a pass over the open
\* creates: its slot goes to the IO thread with a truthful result.
LEMMA CompleteStep ==
    ASSUME IInv, NEW s \in Slots, NEW result \in Codes, NEW begun \in BOOLEAN,
           WorkerOnly, Complete(s, result, begun), UNCHANGED <<ran, queue, pending, leaving>>,
           begun => ran[s], result = "ok" => ran[s], result = "cancelled" => cancel[s],
           \/ worker \in {"entering", "applying"} /\ s = current /\ current' = NoSlot /\ left' = open
           \/ worker = "creates" /\ s \in left /\ current' = current /\ left' = left \ {s}
    PROVE  IInv'
<1> USE DEF NoSlot, WorkerOnly, ioVars
<1>1. /\ code' = [code EXCEPT ![s] = result]
      /\ effects' = [effects EXCEPT ![s] = begun]
      /\ phase' = [phase EXCEPT ![s] = "completed"]
      /\ worker' = "retiring"
      /\ open' = open \ {s}
      /\ UNCHANGED <<ran, queue, pending, leaving, operationId, fingerprint, state,
                     cancel, expired, stopping, io, waiting, waiters, asked>>
  BY DEF Complete
<1>2. phase[s] = "executing" /\ s \notin Range(queue) /\ current' = NoSlot
      /\ current' \notin Slots
  BY DEF IInv, TypeOK, SlotOwnership, WorkerState, Slots
<1>3. TypeOK'
  BY <1>1, <1>2 DEF IInv, TypeOK, Phases
<1>4. SlotOwnership'
  <2>1. phase'[s] = "completed" /\ \A t \in Slots : t # s => phase'[t] = phase[t]
    BY <1>1 DEF IInv, TypeOK
  <2>2. \A t \in Slots : t # s =>
            /\ phase[t] = "queued" <=> t \in Range(queue)
            /\ phase[t] = "executing" <=> t \in open
    BY <1>2 DEF IInv, TypeOK, SlotOwnership, WorkerState
  <2>3. Range(queue') = Range(queue) /\ current' \notin open' \cup Range(queue')
    <3>1. Range(queue) \subseteq Slots
      BY DEF IInv, TypeOK, Range
    <3>2. QED
      BY <1>1, <1>2, <3>1 DEF IInv, TypeOK
  <2>4. QED
    BY <1>1, <1>2, <2>1, <2>2, <2>3 DEF IInv, SlotOwnership
<1>5. WorkerState'
  <2>1. left' \subseteq open' /\ (leaving => stopping /\ left' = open')
    BY <1>1 DEF IInv, SlotOwnership, WorkerState
  <2>2. QED
    BY <1>1, <1>2, <2>1 DEF WorkerState
<1>6. RunHistory'
  <2>1. \A t \in Slots : phase'[t] \in {"free", "queued"} => ~ran[t]
    BY <1>1 DEF IInv, TypeOK, RunHistory
  <2>2. \A t \in open' : ran[t]
    BY <1>1 DEF IInv, RunHistory
  <2>3. QED
    BY <1>1, <2>1, <2>2 DEF RunHistory
<1>7. OneReceiptPerRequest' /\ WaitersBelong'
  BY <1>1, <1>2 DEF IInv, TypeOK, OneReceiptPerRequest, WaitersBelong
<1>8. WaitersCounted'
  BY <1>1 DEF IInv, WaitersCounted, HeldClients
<1>9. PendingCounted'
  <2>1. Busy' = Busy \ {s} /\ s \in Busy
    BY <1>1, <1>2 DEF IInv, TypeOK, Busy
  <2>2. Cardinality(Busy') = Cardinality(Busy) - 1
    BY <2>1, SlotsFinite, FS_RemoveElement
  <2>3. worker # "retiring"
    OBVIOUS
  <2>4. QED
    BY <1>1, <2>2, <2>3, SlotsFinite DEF IInv, PendingCounted
<1>10. EffectsAreTrue'
  BY <1>1 DEF IInv, TypeOK, EffectsAreTrue
<1>11. QED
  BY <1>3, <1>4, <1>5, <1>6, <1>7, <1>8, <1>9, <1>10 DEF IInv

\* Execute refuses a command that was cancelled or is out of time.
LEMMA RefuseStep == ASSUME IInv, Refuse PROVE IInv'
<1>1. current \in Slots
  BY DEF Refuse, IInv, WorkerState
<1>2. PICK result \in {"cancelled", "deadline_exceeded"} :
          Complete(current, result, FALSE) /\ (result = "cancelled" => cancel[current])
  BY DEF Refuse
<1>3. result \in Codes /\ result # "ok"
  BY DEF Codes
<1>4. QED
  BY <1>1, <1>2, <1>3, CompleteStep DEF Refuse

\* Execute ends a command, or leaves a create open for the native factory.
LEMMA ApplyStep ==
    ASSUME IInv, NEW result \in Codes, NEW begun \in BOOLEAN, Apply(result, begun)
    PROVE  IInv'
<1>1. current \in Slots /\ ran[current]
  BY DEF Apply, IInv, WorkerState, RunHistory
<1>2. QED
  BY <1>1, CompleteStep DEF Apply

\* CompleteCreates ends a create that was cancelled, is out of time or outlived the
\* world.
LEMMA VisitDueStep == ASSUME IInv, NEW s \in Slots, VisitDue(s) PROVE IInv'
<1>1. ran[s]
  BY DEF VisitDue, IInv, WorkerState, RunHistory
<1>2. DueCode(s) \in Codes /\ DueCode(s) # "ok" /\ (DueCode(s) = "cancelled" => cancel[s])
  BY DEF DueCode, Codes
<1>3. QED
  BY <1>1, <1>2, CompleteStep DEF VisitDue

\* CompleteCreates ends a create that the factory answered.
LEMMA VisitAnsweredStep ==
    ASSUME IInv, NEW s \in Slots, NEW result \in {"ok", "error"}, VisitAnswered(s, result)
    PROVE  IInv'
<1>1. ran[s]
  BY DEF VisitAnswered, IInv, WorkerState, RunHistory
<1>2. result \in Codes /\ result # "cancelled"
  BY DEF Codes
<1>3. QED
  BY <1>1, <1>2, CompleteStep DEF VisitAnswered

\* The slot of a create stays open on the worker's side when Execute is over.
LEMMA OpenCreateStep == ASSUME IInv, OpenCreate PROVE IInv'
<1> USE DEF NoSlot, WorkerOnly, ioVars
<1>1. /\ worker = "applying" /\ worker' = "creates" /\ current' = NoSlot
      /\ effects' = [effects EXCEPT ![current] = TRUE]
      /\ open' = open \cup {current} /\ left' = open \cup {current}
      /\ UNCHANGED <<phase, code, ran, queue, pending, leaving, operationId, fingerprint,
                     state, cancel, expired, stopping, io, waiting, waiters, asked>>
  BY DEF OpenCreate
<1>2. current \in Slots /\ phase[current] = "executing" /\ ran[current] /\ ~leaving
      /\ NoSlot \notin Slots
  BY <1>1 DEF IInv, SlotOwnership, WorkerState, RunHistory, Slots
<1>3. TypeOK'
  BY <1>1, <1>2 DEF IInv, TypeOK
<1>4. SlotOwnership'
  <2>1. Range(queue) \subseteq Slots
    BY DEF IInv, TypeOK, Range
  <2>2. QED
    BY <1>1, <1>2, <2>1 DEF IInv, TypeOK, SlotOwnership
<1>5. WorkerState' /\ RunHistory'
  BY <1>1, <1>2 DEF IInv, WorkerState, RunHistory
<1>6. OneReceiptPerRequest' /\ WaitersBelong' /\ WaitersCounted' /\ PendingCounted'
  BY <1>1 DEF IInv, OneReceiptPerRequest, WaitersBelong, WaitersCounted, HeldClients,
              PendingCounted, Busy
<1>7. EffectsAreTrue'
  BY <1>1, <1>2 DEF IInv, TypeOK, EffectsAreTrue
<1>8. QED
  BY <1>3, <1>4, <1>5, <1>6, <1>7 DEF IInv

\* The second store of ApplySlot: the count follows the phase.
LEMMA RetireStep == ASSUME IInv, Retire PROVE IInv'
<1> USE DEF NoSlot, WorkerOnly, ioVars
<1>1. /\ worker = "retiring" /\ worker' = "creates" /\ pending' = pending - 1
      /\ UNCHANGED <<phase, code, effects, ran, queue, current, open, left, leaving,
                     operationId, fingerprint, state, cancel, expired, stopping,
                     io, waiting, waiters, asked>>
  BY DEF Retire
<1>2. pending = Cardinality(Busy) + 1 /\ Busy' = Busy
  BY <1>1 DEF IInv, PendingCounted, Busy
<1>3. TypeOK'
  BY <1>1, <1>2, SlotsFinite DEF IInv, TypeOK
<1>4. PendingCounted'
  BY <1>1, <1>2, SlotsFinite DEF PendingCounted
<1>5. SlotOwnership' /\ WorkerState' /\ RunHistory'
  BY <1>1 DEF IInv, SlotOwnership, WorkerState, RunHistory
<1>6. OneReceiptPerRequest' /\ WaitersBelong' /\ WaitersCounted' /\ EffectsAreTrue'
  BY <1>1 DEF IInv, OneReceiptPerRequest, WaitersBelong, WaitersCounted, HeldClients,
              EffectsAreTrue
<1>7. QED
  BY <1>3, <1>4, <1>5, <1>6 DEF IInv

\* Steps that move the worker over the open creates and complete nothing.
LEMMA PassStep ==
    ASSUME IInv, Scan \/ (\E s \in Slots : VisitUnanswered(s)) \/ EndPass \/ Leave
    PROVE  IInv'
<1> USE DEF NoSlot, WorkerOnly, ioVars
<1>1. /\ worker \in {"idle", "creates"}
      /\ UNCHANGED <<phase, code, effects, ran, queue, pending, current, open,
                     operationId, fingerprint, state, cancel, expired, stopping,
                     io, waiting, waiters, asked>>
  BY DEF Scan, VisitUnanswered, EndPass, Leave
<1>2. /\ worker' \in {"idle", "creates", "ended"}
      /\ left' \subseteq open
      /\ leaving' \in BOOLEAN
      /\ leaving' => stopping /\ left' = open /\ worker' \in {"creates", "ended"}
      /\ worker' = "ended" => leaving' /\ left' = {}
  <2>1. /\ left \subseteq open /\ leaving \in BOOLEAN
        /\ leaving => stopping /\ left = open /\ worker # "idle"
    BY DEF IInv, TypeOK, WorkerState
  <2>2. CASE Scan
    BY <2>1, <2>2 DEF Scan
  <2>3. CASE EndPass
    BY <2>1, <2>3 DEF EndPass
  <2>4. CASE Leave
    BY <2>1, <2>4 DEF Leave
  <2>5. CASE \E s \in Slots : VisitUnanswered(s)
    <3>1. PICK s \in Slots : VisitUnanswered(s)
      BY <2>5
    <3>2. /\ ~stopping /\ worker = "creates" /\ left' = left \ {s}
          /\ worker' = worker /\ leaving' = leaving
      BY <3>1 DEF VisitUnanswered, Due
    <3>3. leaving' = FALSE
      BY <2>1, <3>2
    <3>4. QED
      BY <2>1, <3>2, <3>3
  <2>6. QED
    BY <2>2, <2>3, <2>4, <2>5
<1>3. TypeOK'
  BY <1>1, <1>2 DEF IInv, TypeOK
<1>4. SlotOwnership' /\ WorkerState' /\ RunHistory'
  BY <1>1, <1>2 DEF IInv, SlotOwnership, WorkerState, RunHistory
<1>5. OneReceiptPerRequest' /\ WaitersBelong' /\ WaitersCounted' /\ EffectsAreTrue'
  BY <1>1 DEF IInv, OneReceiptPerRequest, WaitersBelong, WaitersCounted, HeldClients,
              EffectsAreTrue
<1>6. PendingCounted'
  BY <1>1, <1>2 DEF IInv, PendingCounted, Busy
<1>7. QED
  BY <1>3, <1>4, <1>5, <1>6 DEF IInv

-------------------------------------------------------------------------------
(***************************************************************************)
(* The invariant, and the properties that follow from it.                  *)
(***************************************************************************)
LEMMA IoStepIInv == ASSUME IInv, IoStep PROVE IInv'
<1>1. ASSUME NEW r \in Requests, NEW b \in Bodies, Submit(r, b) PROVE IInv'
  BY <1>1, EnqueueStep DEF Submit
<1>2. CASE Query
  BY <1>2, EnqueueStep DEF Query
<1>3. QED
  BY <1>1, <1>2, DrainSlotStep, CancelStep, WaitStep, QuietStep DEF IoStep

\* Every step of the worker.
LEMMA WorkerStepIInv == ASSUME IInv, WorkerStep PROVE IInv'
<1>1. \A result \in Codes \ {"unavailable"} : result \in Codes
  OBVIOUS
<1>2. QED
  BY <1>1, PopStep, BeginStep, RefuseStep, EnterStep, ApplyStep, OpenCreateStep,
     RetireStep, VisitDueStep, VisitAnsweredStep, PassStep DEF WorkerStep

\* The invariant depends on the variables only.
LEMMA StutterIInv == ASSUME IInv, UNCHANGED vars PROVE IInv'
<1> USE DEF vars, slotVars, ioVars, workerVars
<1>1. TypeOK' /\ SlotOwnership' /\ WorkerState' /\ RunHistory'
  BY DEF IInv, TypeOK, SlotOwnership, WorkerState, RunHistory
<1>2. OneReceiptPerRequest' /\ WaitersBelong' /\ WaitersCounted' /\ PendingCounted' /\ EffectsAreTrue'
  BY DEF IInv, OneReceiptPerRequest, WaitersBelong, WaitersCounted, HeldClients,
         PendingCounted, Busy, EffectsAreTrue
<1>3. QED
  BY <1>1, <1>2 DEF IInv

\* The inductive invariant: the queue, the phases of the slots, the worker's place
\* in its cycle, the counters and the held replies agree after every step of
\* either thread (Handle and Drain against Work).
THEOREM Inductive == Spec => []IInv
<1>1. IInv /\ [Next]_vars => IInv'
  BY IoStepIInv, WorkerStepIInv, QuietStep, DropRepliesStep, StutterIInv DEF Next
<1>2. QED
  BY <1>1, InitIInv, PTL DEF Spec

\* Type correctness of the slots, the queue and both threads' variables.
THEOREM TypeCorrect == Spec => []TypeOK
<1>1. IInv => TypeOK
  BY DEF IInv
<1>2. QED
  BY <1>1, Inductive, PTL

\* Only the phase hands a slot over: the IO thread's Drain never frees or reuses a
\* slot that the queue, the worker or an open create still refers to.
THEOREM SlotsAreOwned == Spec => []SlotOwnership
<1>1. IInv => SlotOwnership
  BY DEF IInv
<1>2. QED
  BY <1>1, Inductive, PTL

\* Handle finds the receipt of a repeated request ID whatever state it is in, so
\* that no request ID ever has two slots.
THEOREM RequestsAreUnique == Spec => []OneReceiptPerRequest
<1>1. IInv => OneReceiptPerRequest
  BY DEF IInv
<1>2. QED
  BY <1>1, Inductive, PTL

\* A held /wait is answered from the operation it asked for: Drain releases the
\* waiters of a slot before the slot can be given to another request.
THEOREM WaitersAreRight == Spec => []WaitersBelong
<1>1. IInv => WaitersBelong
  BY DEF IInv
<1>2. QED
  BY <1>1, Inductive, PTL

\* waiters_ is the number of held replies, at most kWaiters, until the IO thread
\* ends.
THEOREM WaitersAreBounded == Spec => []WaitersCounted
<1>1. IInv => WaitersCounted
  BY DEF IInv
<1>2. QED
  BY <1>1, Inductive, PTL

\* pending_ is the number of queued and executing commands, but for the instant
\* between the two stores with which Complete's caller retires one.
THEOREM PendingIsExact == Spec => []PendingCounted
<1>1. IInv => PendingCounted
  BY DEF IInv
<1>2. QED
  BY <1>1, Inductive, PTL

\* A result that reports effects, or success, is of a command that Execute let
\* through, and one that reports a cancellation was cancelled.
THEOREM EffectsReported == Spec => []EffectsAreTrue
<1>1. IInv => EffectsAreTrue
  BY DEF IInv
<1>2. QED
  BY <1>1, Inductive, PTL

\* Work does not return while a native create is attached to a slot.
THEOREM WorkerQuiesces == Spec => []QuiescedAtEnd
<1>1. IInv => QuiescedAtEnd
  BY DEF IInv, SlotOwnership, WorkerState, QuiescedAtEnd
<1>2. QED
  BY <1>1, Inductive, PTL

-------------------------------------------------------------------------------
(***************************************************************************)
(* The slots implement the promised receipts of module OperationLog.       *)
(***************************************************************************)

\* A receipt reports an end exactly when the slot is retained.
ReportedStates ==
    \A s \in Slots :
        /\ phase[s] \in {"queued", "executing", "completed"} => state[s] \in {"accepted", "running"}
        /\ phase[s] = "retained" => state[s] \in {"succeeded", "failed", "cancelled"}

\* Only the IO thread's drain and its handlers touch the states that are reported.
LEMMA ReportedStep ==
    ASSUME IInv, ReportedStates, [Next]_vars
    PROVE  ReportedStates'
<1> USE DEF IInv, TypeOK, ReportedStates
<1>1. ASSUME NEW s \in Slots, DrainSlot(s) PROVE ReportedStates'
  BY <1>1 DEF DrainSlot, DrainStep, DrainLive, DrainCompleted, DrainQuery, DrainRetained,
              TerminalState, States, Codes
<1>2. ASSUME NEW s \in Slots, NEW r, NEW b, Enqueue(s, r, b) PROVE ReportedStates'
  BY <1>2 DEF Enqueue
<1>3. ASSUME UNCHANGED state,
             \A s \in Slots : phase'[s] # phase[s] =>
                 /\ phase[s] \in {"queued", "executing", "completed"}
                 /\ phase'[s] \in {"queued", "executing", "completed"}
      PROVE  ReportedStates'
  BY <1>3
<1>4. ASSUME NEW s \in Slots, NEW result, NEW begun, WorkerOnly,
             Complete(s, result, begun), phase[s] = "executing"
      PROVE  ReportedStates'
  BY <1>3, <1>4 DEF Complete, WorkerOnly
<1>5. current \in Slots /\ worker \in {"entering", "applying"} => phase[current] = "executing"
  BY DEF SlotOwnership
<1>6. worker \in {"popped", "entering", "applying"} => current \in Slots
  BY DEF WorkerState
<1>7. left \subseteq open /\ \A s \in open : phase[s] = "executing"
  BY DEF SlotOwnership, WorkerState
<1>8. CASE IoStep
  BY <1>1, <1>2, <1>3, <1>8
     DEF IoStep, Submit, Query, Cancel, Wait, HandleNothing, IoEnd, slotVars
<1>9. CASE WorkerStep
  <2>1. CASE Pop \/ Scan \/ Enter \/ OpenCreate \/ Retire \/ EndPass \/ Leave
                \/ \E s \in Slots : VisitUnanswered(s)
    BY <1>3, <2>1 DEF Pop, Scan, Enter, OpenCreate, Retire, EndPass, Leave, VisitUnanswered,
                      WorkerOnly
  <2>2. CASE Begin
    <3>1. phase[current] = "queued"
      BY <1>6, <2>2 DEF Begin, SlotOwnership
    <3>2. QED
      BY <1>3, <1>6, <2>2, <3>1 DEF Begin, WorkerOnly
  <2>3. CASE Refuse
    BY <1>4, <1>5, <1>6, <2>3 DEF Refuse
  <2>4. ASSUME NEW result, NEW begun, Apply(result, begun) PROVE ReportedStates'
    BY <1>4, <1>5, <1>6, <2>4 DEF Apply
  <2>5. ASSUME NEW s \in Slots, VisitDue(s) PROVE ReportedStates'
    BY <1>4, <1>7, <2>5 DEF VisitDue
  <2>6. ASSUME NEW s \in Slots, NEW result, VisitAnswered(s, result) PROVE ReportedStates'
    BY <1>4, <1>7, <2>6 DEF VisitAnswered
  <2>7. QED
    BY <1>9, <2>1, <2>2, <2>3, <2>4, <2>5, <2>6 DEF WorkerStep
<1>10. ASSUME NEW s \in Slots, Expire(s) PROVE ReportedStates'
  BY <1>3, <1>10 DEF Expire
<1>11. CASE Stop \/ DropReplies \/ UNCHANGED vars
  BY <1>3, <1>11 DEF Stop, DropReplies, vars, slotVars
<1>12. QED
  BY <1>8, <1>9, <1>10, <1>11 DEF Next

\* The slot that the mapping chooses for a request is the one that holds its receipt.
LEMMA ReceiptSlot ==
    ASSUME IInv, NEW r \in Requests, NEW s \in Slots, IsReceiptOf(s, r)
    PROVE  Known(r) /\ ReceiptOf(r) = state[s] /\ BodyOf(r) = fingerprint[s] /\ RanOf(r) = ran[s]
<1>1. r # None
  BY OperationsAssumption
<1>2. \A t \in Slots : IsReceiptOf(t, r) => t = s
  BY <1>1 DEF IInv, OneReceiptPerRequest, IsReceiptOf
<1>3. Known(r) /\ SlotOf(r) = s
  BY <1>2 DEF Known, SlotOf
<1>4. QED
  BY <1>3 DEF ReceiptOf, BodyOf, RanOf

\* The same after a step.
LEMMA ReceiptSlotNext ==
    ASSUME IInv', NEW r \in Requests, NEW s \in Slots, IsReceiptOf(s, r)'
    PROVE  /\ Known(r)' /\ ReceiptOf(r)' = state'[s]
           /\ BodyOf(r)' = fingerprint'[s] /\ RanOf(r)' = ran'[s]
<1>1. r # None
  BY OperationsAssumption
<1>2. \A t \in Slots : IsReceiptOf(t, r)' => t = s
  BY <1>1 DEF IInv, OneReceiptPerRequest, IsReceiptOf
<1>3. Known(r)' /\ SlotOf(r)' = s
  BY <1>2 DEF Known, SlotOf
<1>4. QED
  BY <1>3 DEF ReceiptOf, BodyOf, RanOf

\* What the log shows of a request.
Shown(r) == <<ReceiptOf(r), BodyOf(r), RanOf(r)>>

\* The log shows the same of a request when its slot, if it has one, shows the same.
LEMMA SameShown ==
    ASSUME IInv, IInv', NEW r \in Requests,
           \A s \in Slots : /\ IsReceiptOf(s, r)' <=> IsReceiptOf(s, r)
                            /\ IsReceiptOf(s, r) => /\ state'[s] = state[s] /\ ran'[s] = ran[s]
                                                    /\ fingerprint'[s] = fingerprint[s]
    PROVE  Shown(r)' = Shown(r)
<1>1. CASE Known(r)
  <2>1. PICK s \in Slots : IsReceiptOf(s, r)
    BY <1>1 DEF Known
  <2>2. QED
    BY <2>1, ReceiptSlot, ReceiptSlotNext DEF Shown
<1>2. CASE ~Known(r)
  <2>1. ~Known(r)'
    BY <1>2 DEF Known
  <2>2. QED
    BY <1>2, <2>1 DEF Shown, ReceiptOf, BodyOf, RanOf
<1>3. QED
  BY <1>1, <1>2

\* A step that shows every request as before is a stutter of the log.
LEMMA LogStutter ==
    ASSUME \A r \in Requests : Shown(r)' = Shown(r)
    PROVE  UNCHANGED Log!vars
  BY DEF Shown, Log!vars

\* A step that changes what one request shows updates the three functions of the log there.
LEMMA LogUpdate ==
    ASSUME NEW r \in Requests, \A q \in Requests \ {r} : Shown(q)' = Shown(q)
    PROVE  /\ [q \in Requests |-> ReceiptOf(q)]' = [[q \in Requests |-> ReceiptOf(q)] EXCEPT ![r] = ReceiptOf(r)']
           /\ [q \in Requests |-> BodyOf(q)]' = [[q \in Requests |-> BodyOf(q)] EXCEPT ![r] = BodyOf(r)']
           /\ [q \in Requests |-> RanOf(q)]' = [[q \in Requests |-> RanOf(q)] EXCEPT ![r] = RanOf(r)']
  BY DEF Shown

\* A step that leaves the shown parts of all slots alone is a stutter of the log.
LEMMA LogQuiet ==
    ASSUME IInv, IInv', UNCHANGED <<operationId, state, fingerprint, ran>>,
           \A s \in Slots : phase'[s] = "free" <=> phase[s] = "free"
    PROVE  UNCHANGED Log!vars
<1>1. \A r \in Requests, s \in Slots : IsReceiptOf(s, r)' <=> IsReceiptOf(s, r)
  BY DEF IsReceiptOf
<1>2. \A r \in Requests : Shown(r)' = Shown(r)
  BY <1>1, SameShown
<1>3. QED
  BY <1>2, LogStutter

\* A step at one slot is invisible to the requests whose receipts are elsewhere.
LEMMA OthersShown ==
    ASSUME IInv, IInv', NEW s \in Slots, NEW q \in Requests,
           ~IsReceiptOf(s, q), ~IsReceiptOf(s, q)',
           \A t \in Slots \ {s} :
               /\ phase'[t] = phase[t] /\ operationId'[t] = operationId[t]
               /\ state'[t] = state[t] /\ ran'[t] = ran[t] /\ fingerprint'[t] = fingerprint[t]
    PROVE  Shown(q)' = Shown(q)
  BY SameShown DEF IsReceiptOf

\* A step that changes one slot only.
OnlySlot(s) ==
    \A t \in Slots \ {s} :
        /\ phase'[t] = phase[t] /\ operationId'[t] = operationId[t]
        /\ state'[t] = state[t] /\ ran'[t] = ran[t] /\ fingerprint'[t] = fingerprint[t]

\* A step at the slot of no request, before it or after it, is a stutter of the log.
LEMMA LogHidden ==
    ASSUME IInv, IInv', NEW s \in Slots, OnlySlot(s),
           \A q \in Requests : ~IsReceiptOf(s, q) /\ ~IsReceiptOf(s, q)'
    PROVE  UNCHANGED Log!vars
  BY OthersShown, LogStutter DEF OnlySlot

\* A step at the slot of request r changes what the log has of r, and nothing else.
LEMMA LogAt ==
    ASSUME IInv, IInv', NEW s \in Slots, OnlySlot(s), NEW r \in Requests,
           \A q \in Requests \ {r} : ~IsReceiptOf(s, q) /\ ~IsReceiptOf(s, q)'
    PROVE  /\ [q \in Requests |-> ReceiptOf(q)]' = [[q \in Requests |-> ReceiptOf(q)] EXCEPT ![r] = ReceiptOf(r)']
           /\ [q \in Requests |-> BodyOf(q)]' = [[q \in Requests |-> BodyOf(q)] EXCEPT ![r] = BodyOf(r)']
           /\ [q \in Requests |-> RanOf(q)]' = [[q \in Requests |-> RanOf(q)] EXCEPT ![r] = RanOf(r)']
  BY OthersShown, LogUpdate DEF OnlySlot

\* Submit accepts the request, a query shows nothing.
LEMMA LogEnqueue ==
    ASSUME IInv, IInv', NEW s \in Slots, NEW r \in Requests \cup {None}, NEW b \in Bodies \cup {None},
           Enqueue(s, r, b), r \in Requests => b \in Bodies /\ ~Known(r)
    PROVE  [Log!Next]_(Log!vars)
<1>1. /\ phase[s] = "free" /\ phase'[s] = "queued" /\ operationId'[s] = r /\ fingerprint'[s] = b
      /\ state'[s] = "accepted" /\ ran'[s] = ran[s] /\ OnlySlot(s) /\ ~ran[s]
  BY DEF Enqueue, FirstFree, OnlySlot, IInv, TypeOK, RunHistory
<1>2. \A q \in Requests : ~IsReceiptOf(s, q) /\ (IsReceiptOf(s, q)' <=> q = r)
  BY <1>1 DEF IsReceiptOf
<1>3. CASE r = None
  BY <1>1, <1>2, <1>3, LogHidden, OperationsAssumption
<1>4. CASE r \in Requests
  <2>1. ReceiptOf(r) = "unknown" /\ RanOf(r) = FALSE
    BY <1>4 DEF ReceiptOf, RanOf
  <2>2. ReceiptOf(r)' = "accepted" /\ BodyOf(r)' = b /\ RanOf(r)' = FALSE
    <3>1. IsReceiptOf(s, r)'
      BY <1>2, <1>4
    <3>2. ran'[s] = FALSE
      BY <1>1 DEF IInv, TypeOK
    <3>3. QED
      BY <1>1, <1>4, <3>1, <3>2, ReceiptSlotNext
  <2>3. Log!Accept(r, b)
    <3>1. \A q \in Requests : RanOf(q)' = RanOf(q)
      BY <1>1, <1>2, <1>4, <2>1, <2>2, OthersShown DEF OnlySlot, Shown
    <3>2. QED
      BY <1>1, <1>2, <1>4, <2>1, <2>2, <3>1, LogAt DEF Log!Accept
  <2>4. QED
    BY <1>4, <2>3 DEF Log!Next
<1>5. QED
  BY <1>3, <1>4

\* The drain reports that a command runs or how it ended, or forgets it.
LEMMA LogDrain ==
    ASSUME IInv, IInv', ReportedStates, NEW s \in Slots, DrainSlot(s)
    PROVE  [Log!Next]_(Log!vars)
<1>0. PICK r \in Requests \cup {None} : r = operationId[s]
  BY DEF IInv, TypeOK
<1>1. OnlySlot(s) /\ operationId' = operationId /\ None \notin Requests
  BY OperationsAssumption DEF DrainSlot, DrainStep, DrainLive, DrainCompleted, DrainQuery,
                              DrainRetained, OnlySlot, IInv, TypeOK
<1>2. \A q \in Requests : /\ IsReceiptOf(s, q) <=> q = r /\ phase[s] # "free"
                          /\ IsReceiptOf(s, q)' <=> q = r /\ phase'[s] # "free"
  BY <1>0, <1>1 DEF IsReceiptOf
<1>3. CASE r = None
  BY <1>1, <1>2, <1>3, LogHidden
<1>4. CASE DrainQuery(s)
  BY <1>0, <1>3, <1>4 DEF DrainQuery
<1>5. ASSUME r \in Requests, DrainLive(s) PROVE [Log!Next]_(Log!vars)
  <2>1. /\ phase' = phase /\ fingerprint' = fingerprint /\ ran' = ran
        /\ \/ state' = state
           \/ phase[s] = "executing" /\ state[s] = "accepted" /\ state'[s] = "running"
    BY <1>5 DEF DrainLive, ReportedStates, IInv, TypeOK
  <2>2. CASE state' = state
    <3>1. UNCHANGED <<operationId, state, fingerprint, ran>>
      BY <1>1, <2>1, <2>2
    <3>2. \A t \in Slots : phase'[t] = "free" <=> phase[t] = "free"
      BY <2>1
    <3>3. QED
      BY <3>1, <3>2, LogQuiet
  <2>3. CASE phase[s] = "executing" /\ state[s] = "accepted" /\ state'[s] = "running"
    <3>1. IsReceiptOf(s, r) /\ IsReceiptOf(s, r)'
      BY <1>2, <1>5, <2>1, <2>3
    <3>2. /\ ReceiptOf(r) = "accepted" /\ ReceiptOf(r)' = "running"
          /\ BodyOf(r)' = BodyOf(r) /\ RanOf(r)' = RanOf(r)
      BY <1>5, <2>1, <2>3, <3>1, ReceiptSlot, ReceiptSlotNext
    <3>3. Log!ReportRunning(r)
      BY <1>1, <1>2, <1>5, <3>2, LogAt DEF Log!ReportRunning
    <3>4. QED
      BY <1>5, <3>3 DEF Log!Next
  <2>4. QED
    BY <2>1, <2>2, <2>3
<1>6. ASSUME r \in Requests, DrainCompleted(s) PROVE [Log!Next]_(Log!vars)
  <2> DEFINE outcome == TerminalState(s)
  <2>1. /\ phase[s] = "completed" /\ phase'[s] = "retained" /\ state'[s] = outcome
        /\ fingerprint' = fingerprint /\ ran' = ran
    BY <1>6 DEF DrainCompleted, IInv, TypeOK
  <2>2. outcome \in {"succeeded", "failed", "cancelled"} /\ (outcome = "succeeded" => ran[s])
    BY <2>1 DEF TerminalState, IInv, TypeOK, Codes, EffectsAreTrue
  <2>3. IsReceiptOf(s, r) /\ IsReceiptOf(s, r)'
    BY <1>2, <1>6, <2>1
  <2>4. /\ ReceiptOf(r) \in {"accepted", "running"} /\ ReceiptOf(r)' = outcome
        /\ BodyOf(r)' = BodyOf(r) /\ RanOf(r)' = RanOf(r) /\ RanOf(r) = ran[s]
    BY <1>6, <2>1, <2>3, ReceiptSlot, ReceiptSlotNext DEF ReportedStates
  <2>5. Log!Finish(r, outcome)
    BY <1>1, <1>2, <1>6, <2>2, <2>4, LogAt DEF Log!Finish, Log!Live
  <2>6. QED
    BY <1>6, <2>2, <2>5 DEF Log!Next, Log!Terminal
<1>7. ASSUME r \in Requests, DrainRetained(s) PROVE [Log!Next]_(Log!vars)
  <2>1. phase[s] = "retained" /\ state' = state
    BY <1>7 DEF DrainRetained
  <2>2. CASE UNCHANGED <<phase, fingerprint, ran>>
    BY <1>1, <2>1, <2>2, LogQuiet
  <2>3. CASE phase' = [phase EXCEPT ![s] = "free"]
    <3>1. IsReceiptOf(s, r) /\ ~IsReceiptOf(s, r)' /\ phase'[s] = "free"
      BY <1>2, <1>7, <2>1, <2>3 DEF IInv, TypeOK
    <3>2. ReceiptOf(r) \in {"succeeded", "failed", "cancelled"}
      BY <1>7, <2>1, <3>1, ReceiptSlot DEF ReportedStates
    <3>3. ~Known(r)'
      <4>1. \A t \in Slots : IsReceiptOf(t, r) => t = s
        BY <1>1, <1>7, <3>1 DEF IInv, OneReceiptPerRequest, IsReceiptOf
      <4>2. QED
        BY <1>1, <3>1, <4>1 DEF Known, IsReceiptOf, OnlySlot
    <3>4. ReceiptOf(r)' = "unknown" /\ BodyOf(r)' = None /\ RanOf(r)' = FALSE
      BY <3>3 DEF ReceiptOf, BodyOf, RanOf
    <3>5. Log!Forget(r)
      BY <1>1, <1>2, <1>7, <3>2, <3>4, LogAt DEF Log!Forget, Log!Terminal
    <3>6. QED
      BY <1>7, <3>5 DEF Log!Next
  <2>4. QED
    BY <1>7, <2>2, <2>3 DEF DrainRetained
<1>8. QED
  BY <1>3, <1>4, <1>5, <1>6, <1>7 DEF DrainSlot

\* Execute lets the command through: the one run of its request.
LEMMA LogEnter ==
    ASSUME IInv, IInv', ReportedStates, Enter
    PROVE  [Log!Next]_(Log!vars)
<1>0. PICK s \in Slots, r \in Requests \cup {None} : s = current /\ r = operationId[s]
  BY DEF Enter, IInv, TypeOK, WorkerState
<1>1. phase[s] = "executing" /\ ~ran[s]
  BY <1>0 DEF Enter, IInv, SlotOwnership, RunHistory
<1>2. /\ ran' = [ran EXCEPT ![s] = TRUE] /\ OnlySlot(s)
      /\ UNCHANGED <<phase, operationId, fingerprint, state>>
  BY <1>0 DEF Enter, WorkerOnly, OnlySlot, IInv, TypeOK
<1>3. None \notin Requests
  BY OperationsAssumption
<1>4. \A q \in Requests : (IsReceiptOf(s, q) <=> q = r) /\ (IsReceiptOf(s, q)' <=> q = r)
  BY <1>0, <1>1, <1>2 DEF IsReceiptOf
<1>5. CASE r = None
  <2>1. \A q \in Requests : ~IsReceiptOf(s, q) /\ ~IsReceiptOf(s, q)'
    BY <1>3, <1>4, <1>5
  <2>2. QED
    BY <1>1, <1>2, <2>1, LogHidden
<1>6. CASE r \in Requests
  <2>1. IsReceiptOf(s, r) /\ IsReceiptOf(s, r)'
    BY <1>4, <1>6
  <2>2. /\ ReceiptOf(r) \in {"accepted", "running"} /\ ReceiptOf(r)' = ReceiptOf(r)
        /\ BodyOf(r)' = BodyOf(r) /\ RanOf(r) = FALSE /\ RanOf(r)' = TRUE
    <3>1. ran'[s] = TRUE /\ ran[s] = FALSE /\ state[s] \in {"accepted", "running"}
      BY <1>1, <1>2 DEF IInv, TypeOK, ReportedStates
    <3>2. /\ ReceiptOf(r) = state[s] /\ BodyOf(r) = fingerprint[s]
          /\ RanOf(r) = ran[s]
      BY <1>1, <1>6, <2>1, ReceiptSlot
    <3>3. /\ ReceiptOf(r)' = state'[s] /\ BodyOf(r)' = fingerprint'[s]
          /\ RanOf(r)' = ran'[s]
      BY <1>1, <1>6, <2>1, ReceiptSlotNext
    <3>4. QED
      BY <1>2, <3>1, <3>2, <3>3
  <2>3. Log!Run(r)
    BY <1>1, <1>2, <1>4, <1>6, <2>2, LogAt DEF Log!Run, Log!Live
  <2>4. QED
    BY <1>6, <2>3 DEF Log!Next
<1>7. QED
  BY <1>5, <1>6

\* The steps that no client can tell from its receipts.
LEMMA LogRest ==
    ASSUME IInv, IInv', [Next]_vars, \A s \in Slots : ~DrainSlot(s), ~Enter,
           \A r \in Requests, b \in Bodies : ~Submit(r, b), ~Query
    PROVE  UNCHANGED Log!vars
<1>1. ASSUME NEW s \in Slots, NEW result, NEW begun, WorkerOnly, UNCHANGED ran,
             Complete(s, result, begun), phase[s] = "executing"
      PROVE  UNCHANGED Log!vars
  <2>1. \A t \in Slots : phase'[t] = "free" <=> phase[t] = "free"
    BY <1>1 DEF Complete, IInv, TypeOK
  <2>2. QED
    BY <1>1, <2>1, LogQuiet DEF WorkerOnly
<1>2. worker \in {"entering", "applying"} => current \in Slots /\ phase[current] = "executing"
  BY DEF IInv, SlotOwnership, WorkerState
<1>3. left \subseteq open /\ \A s \in open : phase[s] = "executing"
  BY DEF IInv, TypeOK, SlotOwnership, WorkerState
<1>4. CASE UNCHANGED <<phase, operationId, state, fingerprint, ran>>
  BY <1>4, LogQuiet
<1>5. CASE Begin
  <2>1. current \in Slots /\ phase[current] = "queued"
    BY <1>5 DEF Begin, IInv, SlotOwnership, WorkerState
  <2>2. \A t \in Slots : phase'[t] = "free" <=> phase[t] = "free"
    BY <1>5, <2>1 DEF Begin, IInv, TypeOK
  <2>3. QED
    BY <1>5, <2>2, LogQuiet DEF Begin, WorkerOnly
<1>6. CASE Refuse
  BY <1>1, <1>2, <1>6 DEF Refuse
<1>7. ASSUME NEW result, NEW begun, Apply(result, begun) PROVE UNCHANGED Log!vars
  BY <1>1, <1>2, <1>7 DEF Apply
<1>8. ASSUME NEW s \in Slots, VisitDue(s) PROVE UNCHANGED Log!vars
  BY <1>1, <1>3, <1>8 DEF VisitDue
<1>9. ASSUME NEW s \in Slots, NEW result, VisitAnswered(s, result) PROVE UNCHANGED Log!vars
  BY <1>1, <1>3, <1>9 DEF VisitAnswered
<1>10. CASE IoStep
  <2>1. CASE HandleNothing \/ IoEnd
    BY <1>4, <2>1 DEF HandleNothing, IoEnd, slotVars
  <2>2. ASSUME NEW r \in Requests, Cancel(r) PROVE UNCHANGED Log!vars
    BY <1>4, <2>2 DEF Cancel
  <2>3. ASSUME NEW c \in Clients, NEW r \in Requests, Wait(c, r) PROVE UNCHANGED Log!vars
    BY <1>4, <2>3 DEF Wait, slotVars
  <2>4. QED
    BY <1>10, <2>1, <2>2, <2>3 DEF IoStep
<1>11. CASE WorkerStep
  <2>1. CASE Pop \/ Scan \/ OpenCreate \/ Retire \/ EndPass \/ Leave
                \/ \E s \in Slots : VisitUnanswered(s)
    BY <1>4, <2>1 DEF Pop, Scan, OpenCreate, Retire, EndPass, Leave, VisitUnanswered, WorkerOnly
  <2>2. QED
    BY <1>5, <1>6, <1>7, <1>8, <1>9, <1>11, <2>1 DEF WorkerStep
<1>12. ASSUME NEW s \in Slots, Expire(s) PROVE UNCHANGED Log!vars
  BY <1>4, <1>12 DEF Expire
<1>13. CASE Stop \/ DropReplies \/ UNCHANGED vars
  BY <1>4, <1>13 DEF Stop, DropReplies, vars, slotVars
<1>14. QED
  BY <1>10, <1>11, <1>12, <1>13 DEF Next

\* Each step of the threads is a step of the log or none.
LEMMA LogStep ==
    ASSUME IInv, IInv', ReportedStates, [Next]_vars
    PROVE  [Log!Next]_(Log!vars)
<1>1. ASSUME NEW r \in Requests, NEW b \in Bodies, Submit(r, b) PROVE [Log!Next]_(Log!vars)
  BY <1>1, LogEnqueue DEF Submit
<1>2. CASE Query
  BY <1>2, LogEnqueue, OperationsAssumption DEF Query
<1>3. QED
  BY <1>1, <1>2, LogDrain, LogEnter, LogRest

\* The receipts that clients read are those of OperationLog: they move forward only, keep
\* the body that they were accepted with, are final once terminal, and stand for one run
\* of the command at most, whatever slots, queue and threads do to bring them about.
THEOREM SlotsImplementLog == Spec => ImplementsLog
<1>1. Init => Log!Init /\ ReportedStates
  <2>1. ASSUME Init, NEW r \in Requests PROVE ~Known(r)
    BY <2>1 DEF Init, Known, IsReceiptOf
  <2>2. Init => Log!Init
    BY <2>1 DEF Log!Init, ReceiptOf, BodyOf, RanOf
  <2>3. QED
    BY <2>2 DEF Init, ReportedStates
<1>2. IInv /\ IInv' /\ ReportedStates /\ [Next]_vars => ReportedStates' /\ [Log!Next]_(Log!vars)
  BY ReportedStep, LogStep
<1>3. QED
  BY <1>1, <1>2, Inductive, PTL DEF Spec, ImplementsLog, Log!Spec
===============================================================================
