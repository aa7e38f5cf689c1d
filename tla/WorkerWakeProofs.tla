--------------------------- MODULE WorkerWakeProofs ---------------------------
(***************************************************************************)
(* Proofs about the worker's sleep, for any number of commands, answers    *)
(* per create and observers, and any serials.                              *)
(*                                                                         *)
(* A fact about a wake-up needs the place of two threads at most, so that  *)
(* each step is one case with one leaf, in the order of the next-state     *)
(* relation: worker, IO thread, callbacks, physics, stop.                  *)
(***************************************************************************)
EXTENDS WorkerWake, TLAPS

\* A worker at the top of its loop with nothing to do satisfies both invariants.
LEMMA InitWake == Init => WakeInv /\ RequestInv
<1> SUFFICES ASSUME Init PROVE WakeInv /\ RequestInv
  OBVIOUS
<1>1. TypeOK
  <2>1. answered \in [Ops -> SUBSET Parts] /\ watching \in [Observers -> Serials \cup {None}]
    BY DEF Init
  <2>2. queue \in Seq(Ops) /\ serial \in Serials
    BY WorkerWakeAssumption DEF Init, Serials
  <2>3. QED
    BY <2>1, <2>2 DEF Init, TypeOK
<1>2. QED
  BY <1>1 DEF Init, WakeInv, NoLostWake, RequestInv, RequestKept

\* A command that is executing was taken off the queue, so that what becomes an
\* open create is a command.
LEMMA TypeStep ==
    ASSUME TypeOK,
           worker = "executing" => taken # NoOp,
           [Next]_vars
    PROVE  TypeOK'
<1> USE WorkerWakeAssumption, NoOpAssumption
    DEF predicateVars, workerVars, createVars, threadVars, sceneVars
<1>1. CASE Top
  BY <1>1 DEF TypeOK, Top
<1>2. CASE Decide
  BY <1>2 DEF TypeOK, Decide
<1>3. CASE FallAsleep
  BY <1>3 DEF TypeOK, FallAsleep
<1>4. CASE Reacquire
  BY <1>4 DEF TypeOK, Reacquire
<1>5. CASE Take
  <2>1. queue' \in Seq(Ops) /\ taken' \in Ops \cup {NoOp}
    <3>1. CASE queue = <<>> \/ stopping
      BY <1>5, <3>1 DEF TypeOK, Take
    <3>2. CASE queue # <<>> /\ ~stopping
      <4>1. Head(queue) \in Ops /\ Tail(queue) \in Seq(Ops)
        BY <3>2 DEF TypeOK
      <4>2. taken' = Head(queue) /\ queue' = Tail(queue)
        BY <1>5, <3>2 DEF Take
      <4>3. QED
        BY <4>1, <4>2
    <3>3. QED
      BY <3>1, <3>2
  <2>2. worker' \in {"clearing", "snapshot"} /\ leaving' \in BOOLEAN
    BY <1>5 DEF TypeOK, Take
  <2>3. requested' \in BOOLEAN /\ ackReady' \in BOOLEAN /\ stopping' \in BOOLEAN
    BY <1>5 DEF TypeOK, Take
  <2>4. left' \in SUBSET open' /\ alarm' \in SUBSET open'
    BY <1>5 DEF TypeOK, Take
  <2>5. UNCHANGED <<createVars, threadVars, sceneVars>>
    BY <1>5 DEF Take
  <2>6. QED
    BY <2>1, <2>2, <2>3, <2>4, <2>5 DEF TypeOK
<1>6. CASE Publish
  <2>1. worker' \in {"clearing", "executing"} /\ requested' \in BOOLEAN
    BY <1>6 DEF Publish
  <2>2. snapshot' \in Serials \cup {None}
    BY <1>6 DEF TypeOK, Publish
  <2>3. /\ queue' \in Seq(Ops) /\ taken' \in Ops \cup {NoOp}
        /\ ackReady' \in BOOLEAN /\ stopping' \in BOOLEAN /\ leaving' \in BOOLEAN
    BY <1>6 DEF TypeOK, Publish
  <2>4. left' \in SUBSET open' /\ alarm' \in SUBSET open'
    BY <1>6 DEF TypeOK, Publish
  <2>5. serial' \in Serials /\ watching' \in [Observers -> Serials \cup {None}]
        /\ active' \in BOOLEAN
    BY <1>6 DEF TypeOK, Publish
  <2>6. UNCHANGED <<createVars, threadVars>>
    BY <1>6 DEF Publish
  <2>7. QED
    BY <2>1, <2>2, <2>3, <2>4, <2>5, <2>6 DEF TypeOK
<1>7. ASSUME NEW changed \in BOOLEAN, ExecuteToEnd(changed) PROVE TypeOK'
  BY <1>7 DEF TypeOK, Serials, ExecuteToEnd
<1>8. CASE ExecuteCreate
  BY <1>8 DEF TypeOK, ExecuteCreate
<1>9. CASE Clear
  <2>1. worker' = "visiting" /\ ackReady' \in BOOLEAN
    BY <1>9 DEF Clear
  <2>2. left' \in SUBSET open' /\ alarm' \in SUBSET open'
    BY <1>9 DEF TypeOK, Clear
  <2>3. /\ queue' \in Seq(Ops) /\ taken' \in Ops \cup {NoOp}
        /\ requested' \in BOOLEAN /\ stopping' \in BOOLEAN /\ leaving' \in BOOLEAN
    BY <1>9 DEF TypeOK, Clear
  <2>4. UNCHANGED <<createVars, threadVars, sceneVars>>
    BY <1>9 DEF Clear
  <2>5. QED
    BY <2>1, <2>2, <2>3, <2>4 DEF TypeOK
<1>10. ASSUME NEW o \in Ops, VisitFinished(o) PROVE TypeOK'
  BY <1>10 DEF TypeOK, VisitFinished, Close
<1>11. ASSUME NEW o \in Ops, VisitUnfinished(o) PROVE TypeOK'
  BY <1>11 DEF TypeOK, VisitUnfinished, Due
<1>12. CASE EndPass
  BY <1>12 DEF TypeOK, EndPass
<1>13. CASE WakeByDeadline \/ WakeSpuriously
  BY <1>13 DEF TypeOK, WakeByDeadline, WakeSpuriously
<1>14. ASSUME NEW o \in Ops, Submit(o) PROVE TypeOK'
  BY <1>14 DEF TypeOK, Submit, Notify, MutexFree
<1>15. ASSUME NEW o \in Ops, Cancel(o) PROVE TypeOK'
  BY <1>15 DEF TypeOK, Cancel, MutexFree
<1>16. ASSUME NEW o \in Ops, Expire(o) PROVE TypeOK'
  BY <1>16 DEF TypeOK, Expire
<1>17. ASSUME NEW c \in Observers, NEW after \in Serials, Observe(c, after) PROVE TypeOK'
  BY <1>17 DEF TypeOK, Observe
<1>18. ASSUME NEW c \in Observers, GiveUp(c) PROVE TypeOK'
  BY <1>18 DEF TypeOK, GiveUp
<1>19. CASE Activate
  BY <1>19 DEF TypeOK, Activate
<1>20. CASE Request
  BY <1>20 DEF TypeOK, Request
<1>21. CASE IoNotify
  BY <1>21 DEF TypeOK, IoNotify, Notify
<1>22. CASE Drain
  BY <1>22 DEF TypeOK, Drain
<1>23. ASSUME NEW o \in Ops, NEW part \in Parts, Answer(o, part) PROVE TypeOK'
  BY <1>23 DEF TypeOK, Answer
<1>24. ASSUME NEW o \in Ops, NEW part \in Parts, Acknowledge(o, part) PROVE TypeOK'
  BY <1>24 DEF TypeOK, Acknowledge, Notify, MutexFree
<1>25. ASSUME NEW o \in Ops, NEW part \in Parts, AcknowledgeLate(o, part) PROVE TypeOK'
  BY <1>25 DEF TypeOK, AcknowledgeLate, MutexFree
<1>26. ASSUME NEW part \in LateParts, NotifyLate(part) PROVE TypeOK'
  BY <1>26 DEF TypeOK, NotifyLate, Notify
<1>27. CASE Update
  BY <1>27 DEF TypeOK, Serials, Update
<1>28. CASE RequestSnapshot
  BY <1>28 DEF TypeOK, RequestSnapshot
<1>29. CASE PhysicsNotify
  BY <1>29 DEF TypeOK, PhysicsNotify, Notify
<1>30. CASE Stop
  BY <1>30 DEF TypeOK, Stop
<1>31. CASE StopNotify
  BY <1>31 DEF TypeOK, StopNotify, Notify
<1>32. CASE UNCHANGED vars
  BY <1>32 DEF TypeOK, vars
<1>33. QED
  BY <1>1, <1>2, <1>3, <1>4, <1>5, <1>6, <1>7, <1>8, <1>9, <1>10, <1>11, <1>12, <1>13,
     <1>14, <1>15, <1>16, <1>17, <1>18, <1>19, <1>20, <1>21, <1>22, <1>23, <1>24,
     <1>25, <1>26, <1>27, <1>28, <1>29, <1>30, <1>31, <1>32 DEF Next, WorkerStep,
     IoStep, CallbackStep, PhysicsStep

\* The mutex is held from the predicate to the wait: what the predicate read under
\* it is still true when the worker sleeps, and everybody who changes it later
\* has its notification still to come.
LEMMA WakeStep ==
    ASSUME WakeInv,
           TypeOK',
           [Next]_vars
    PROVE  WakeInv'
<1> USE WorkerWakeAssumption, NoOpAssumption
    DEF predicateVars, workerVars, createVars, threadVars, sceneVars
<1>1. CASE Top
  BY <1>1 DEF WakeInv, TypeOK, NoLostWake, Top
<1>2. CASE Decide
  BY <1>2 DEF WakeInv, TypeOK, NoLostWake, Idle, Decide
<1>3. CASE FallAsleep
  BY <1>3 DEF WakeInv, TypeOK, NoLostWake, FallAsleep
<1>4. CASE Reacquire
  BY <1>4 DEF WakeInv, TypeOK, NoLostWake, Reacquire
<1>5. CASE Take
  BY <1>5 DEF WakeInv, TypeOK, NoLostWake, Take
<1>6. CASE Publish
  BY <1>6 DEF WakeInv, TypeOK, NoLostWake, Publish
<1>7. ASSUME NEW changed \in BOOLEAN, ExecuteToEnd(changed) PROVE WakeInv'
  BY <1>7 DEF WakeInv, TypeOK, NoLostWake, ExecuteToEnd
<1>8. CASE ExecuteCreate
  BY <1>8 DEF WakeInv, TypeOK, NoLostWake, ExecuteCreate
<1>9. CASE Clear
  BY <1>9 DEF WakeInv, TypeOK, NoLostWake, Clear
<1>10. ASSUME NEW o \in Ops, VisitFinished(o) PROVE WakeInv'
  BY <1>10 DEF WakeInv, TypeOK, NoLostWake, VisitFinished, Close
<1>11. ASSUME NEW o \in Ops, VisitUnfinished(o) PROVE WakeInv'
  BY <1>11 DEF WakeInv, TypeOK, NoLostWake, VisitUnfinished, Due
<1>12. CASE EndPass
  BY <1>12 DEF WakeInv, TypeOK, NoLostWake, EndPass
<1>13. CASE WakeByDeadline \/ WakeSpuriously
  BY <1>13 DEF WakeInv, TypeOK, NoLostWake, WakeByDeadline, WakeSpuriously
<1>14. ASSUME NEW o \in Ops, Submit(o) PROVE WakeInv'
  BY <1>14 DEF WakeInv, TypeOK, NoLostWake, Submit, Notify, MutexFree
<1>15. ASSUME NEW o \in Ops, Cancel(o) PROVE WakeInv'
  BY <1>15 DEF WakeInv, TypeOK, NoLostWake, Cancel, MutexFree
<1>16. ASSUME NEW o \in Ops, Expire(o) PROVE WakeInv'
  BY <1>16 DEF WakeInv, TypeOK, NoLostWake, Expire
<1>17. ASSUME NEW c \in Observers, NEW after \in Serials, Observe(c, after) PROVE WakeInv'
  BY <1>17 DEF WakeInv, TypeOK, NoLostWake, Observe
<1>18. ASSUME NEW c \in Observers, GiveUp(c) PROVE WakeInv'
  BY <1>18 DEF WakeInv, TypeOK, NoLostWake, GiveUp
<1>19. CASE Activate
  BY <1>19 DEF WakeInv, TypeOK, NoLostWake, Activate
<1>20. CASE Request
  BY <1>20 DEF WakeInv, TypeOK, NoLostWake, Request
<1>21. CASE IoNotify
  BY <1>21 DEF WakeInv, TypeOK, NoLostWake, IoNotify, Notify
<1>22. CASE Drain
  BY <1>22 DEF WakeInv, TypeOK, NoLostWake, Drain
<1>23. ASSUME NEW o \in Ops, NEW part \in Parts, Answer(o, part) PROVE WakeInv'
  BY <1>23 DEF WakeInv, TypeOK, NoLostWake, Answer
<1>24. ASSUME NEW o \in Ops, NEW part \in Parts, Acknowledge(o, part) PROVE WakeInv'
  BY <1>24 DEF WakeInv, TypeOK, NoLostWake, Acknowledge, Notify, MutexFree
<1>25. ASSUME NEW o \in Ops, NEW part \in Parts, AcknowledgeLate(o, part) PROVE WakeInv'
  BY <1>25 DEF WakeInv, TypeOK, NoLostWake, AcknowledgeLate, MutexFree
<1>26. ASSUME NEW part \in LateParts, NotifyLate(part) PROVE WakeInv'
  BY <1>26 DEF WakeInv, TypeOK, NoLostWake, NotifyLate, Notify
<1>27. CASE Update
  BY <1>27 DEF WakeInv, TypeOK, NoLostWake, Update
<1>28. CASE RequestSnapshot
  BY <1>28 DEF WakeInv, TypeOK, NoLostWake, RequestSnapshot
<1>29. CASE PhysicsNotify
  BY <1>29 DEF WakeInv, TypeOK, NoLostWake, PhysicsNotify, Notify
<1>30. CASE Stop
  BY <1>30 DEF WakeInv, TypeOK, NoLostWake, Stop
<1>31. CASE StopNotify
  BY <1>31 DEF WakeInv, TypeOK, NoLostWake, StopNotify, Notify
<1>32. CASE UNCHANGED vars
  BY <1>32 DEF WakeInv, TypeOK, NoLostWake, vars
<1>33. QED
  BY <1>1, <1>2, <1>3, <1>4, <1>5, <1>6, <1>7, <1>8, <1>9, <1>10, <1>11, <1>12, <1>13,
     <1>14, <1>15, <1>16, <1>17, <1>18, <1>19, <1>20, <1>21, <1>22, <1>23, <1>24,
     <1>25, <1>26, <1>27, <1>28, <1>29, <1>30, <1>31, <1>32 DEF Next, WorkerStep,
     IoStep, CallbackStep, PhysicsStep

\* A request for a snapshot is withdrawn only with a snapshot of that very moment.
LEMMA RequestStep ==
    ASSUME RequestInv,
           TypeOK',
           [Next]_vars
    PROVE  RequestInv'
<1> USE WorkerWakeAssumption, NoOpAssumption
    DEF predicateVars, workerVars, createVars, threadVars, sceneVars
<1>1. CASE Top
  BY <1>1 DEF RequestInv, TypeOK, RequestKept, Top
<1>2. CASE Decide
  BY <1>2 DEF RequestInv, TypeOK, RequestKept, Decide
<1>3. CASE FallAsleep
  BY <1>3 DEF RequestInv, TypeOK, RequestKept, FallAsleep
<1>4. CASE Reacquire
  BY <1>4 DEF RequestInv, TypeOK, RequestKept, Reacquire
<1>5. CASE Take
  BY <1>5 DEF RequestInv, TypeOK, RequestKept, Take
<1>6. CASE Publish
  BY <1>6 DEF RequestInv, TypeOK, RequestKept, Serials, None, Publish
<1>7. ASSUME NEW changed \in BOOLEAN, ExecuteToEnd(changed) PROVE RequestInv'
  BY <1>7 DEF RequestInv, TypeOK, RequestKept, ExecuteToEnd
<1>8. CASE ExecuteCreate
  BY <1>8 DEF RequestInv, TypeOK, RequestKept, ExecuteCreate
<1>9. CASE Clear
  BY <1>9 DEF RequestInv, TypeOK, RequestKept, Clear
<1>10. ASSUME NEW o \in Ops, VisitFinished(o) PROVE RequestInv'
  BY <1>10 DEF RequestInv, TypeOK, RequestKept, VisitFinished, Close
<1>11. ASSUME NEW o \in Ops, VisitUnfinished(o) PROVE RequestInv'
  BY <1>11 DEF RequestInv, TypeOK, RequestKept, VisitUnfinished, Due
<1>12. CASE EndPass
  BY <1>12 DEF RequestInv, TypeOK, RequestKept, EndPass
<1>13. CASE WakeByDeadline \/ WakeSpuriously
  BY <1>13 DEF RequestInv, TypeOK, RequestKept, WakeByDeadline, WakeSpuriously
<1>14. ASSUME NEW o \in Ops, Submit(o) PROVE RequestInv'
  BY <1>14 DEF RequestInv, TypeOK, RequestKept, Submit, Notify, MutexFree
<1>15. ASSUME NEW o \in Ops, Cancel(o) PROVE RequestInv'
  BY <1>15 DEF RequestInv, TypeOK, RequestKept, Cancel, MutexFree
<1>16. ASSUME NEW o \in Ops, Expire(o) PROVE RequestInv'
  BY <1>16 DEF RequestInv, TypeOK, RequestKept, Expire
<1>17. ASSUME NEW c \in Observers, NEW after \in Serials, Observe(c, after) PROVE RequestInv'
  BY <1>17 DEF RequestInv, TypeOK, RequestKept, Serials, None, Observe
<1>18. ASSUME NEW c \in Observers, GiveUp(c) PROVE RequestInv'
  BY <1>18 DEF RequestInv, TypeOK, RequestKept, GiveUp
<1>19. CASE Activate
  BY <1>19 DEF RequestInv, TypeOK, RequestKept, Activate
<1>20. CASE Request
  BY <1>20 DEF RequestInv, TypeOK, RequestKept, Request
<1>21. CASE IoNotify
  BY <1>21 DEF RequestInv, TypeOK, RequestKept, IoNotify, Notify
<1>22. CASE Drain
  BY <1>22 DEF RequestInv, TypeOK, RequestKept, Serials, None, Drain
<1>23. ASSUME NEW o \in Ops, NEW part \in Parts, Answer(o, part) PROVE RequestInv'
  BY <1>23 DEF RequestInv, TypeOK, RequestKept, Answer
<1>24. ASSUME NEW o \in Ops, NEW part \in Parts, Acknowledge(o, part) PROVE RequestInv'
  BY <1>24 DEF RequestInv, TypeOK, RequestKept, Acknowledge, Notify, MutexFree
<1>25. ASSUME NEW o \in Ops, NEW part \in Parts, AcknowledgeLate(o, part) PROVE RequestInv'
  BY <1>25 DEF RequestInv, TypeOK, RequestKept, AcknowledgeLate, MutexFree
<1>26. ASSUME NEW part \in LateParts, NotifyLate(part) PROVE RequestInv'
  BY <1>26 DEF RequestInv, TypeOK, RequestKept, NotifyLate, Notify
<1>27. CASE Update
  BY <1>27 DEF RequestInv, TypeOK, RequestKept, Serials, None, Update
<1>28. CASE RequestSnapshot
  BY <1>28 DEF RequestInv, TypeOK, RequestKept, RequestSnapshot
<1>29. CASE PhysicsNotify
  BY <1>29 DEF RequestInv, TypeOK, RequestKept, PhysicsNotify, Notify
<1>30. CASE Stop
  BY <1>30 DEF RequestInv, TypeOK, RequestKept, Stop
<1>31. CASE StopNotify
  BY <1>31 DEF RequestInv, TypeOK, RequestKept, StopNotify, Notify
<1>32. CASE UNCHANGED vars
  BY <1>32 DEF RequestInv, TypeOK, RequestKept, vars
<1>33. QED
  BY <1>1, <1>2, <1>3, <1>4, <1>5, <1>6, <1>7, <1>8, <1>9, <1>10, <1>11, <1>12, <1>13,
     <1>14, <1>15, <1>16, <1>17, <1>18, <1>19, <1>20, <1>21, <1>22, <1>23, <1>24,
     <1>25, <1>26, <1>27, <1>28, <1>29, <1>30, <1>31, <1>32 DEF Next, WorkerStep,
     IoStep, CallbackStep, PhysicsStep

\* Both invariants are inductive, together: the second needs the types of the first.
LEMMA InductiveWake == Spec => [](WakeInv /\ RequestInv)
<1>1. WakeInv /\ RequestInv /\ [Next]_vars => TypeOK'
  BY TypeStep DEF WakeInv
<1>2. WakeInv /\ RequestInv /\ [Next]_vars => (WakeInv /\ RequestInv)'
  BY <1>1, WakeStep, RequestStep
<1>3. QED
  BY <1>2, InitWake, PTL DEF Spec

\* Type correctness of the worker, the producers and the scene observation.
THEOREM WakeTypes == Spec => []TypeOK
<1>1. WakeInv => TypeOK
  BY DEF WakeInv
<1>2. QED
  BY <1>1, InductiveWake, PTL

\* Work never waits on queue_cv_ while a command, a complete native answer or a
\* cancellation has nobody left to wake it.
THEOREM WorkerNeverOversleeps == Spec => []NoLostWake
<1>1. WakeInv => NoLostWake
  BY DEF WakeInv
<1>2. QED
  BY <1>1, InductiveWake, PTL

\* Between UpdateGate, Handle, Work and Drain no scene change that a held observer
\* does not know is dropped: a snapshot of it stays requested or published.
THEOREM ChangesAreKept == Spec => []RequestKept
<1>1. RequestInv => RequestKept
  BY DEF RequestInv
<1>2. QED
  BY <1>1, InductiveWake, PTL

\* Nothing is lost between the worker's test and its wait.
THEOREM WakesAreConsistent == Spec => []WakesAgree
  BY WakeTypes, WorkerNeverOversleeps, ChangesAreKept, PTL DEF WakesAgree
===============================================================================
