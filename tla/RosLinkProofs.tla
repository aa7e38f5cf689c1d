----------------------------- MODULE RosLinkProofs -----------------------------
(***************************************************************************)
(* Proofs about RosLink, for any set of owners, masters and PIDs, any      *)
(* budget, period and length of time.  No registration is forgotten        *)
(* because whatever a round does not cover finds the wake-up still there;  *)
(* the data is current because a wake-up that is dropped finds another one *)
(* that is still to be drained.                                            *)
(***************************************************************************)
EXTENDS RosLink, TLAPS

\* A callback runs for an owner that still wants it; a round misses only what
\* was added after it began, which woke the watcher again.
LinkKept ==
    /\ place = "getParam" => found # Down
    /\ calling # NoOwner => calling \in armed /\ applied[calling] = 0
    /\ stopping => armed = {}
    /\ place = "poll" => left = {}
    /\ place \in {"each", "call", "poll"} /\ state = "connected" /\ ~wake =>
           \A r \in armed : applied[r] = 1 \/ r \in left \/ r = calling

Coming == signal \/ \E t \in Senders : sender[t] # "idle"
LastIsCurrent == last \in 0..clock /\ (clock - last < Period \/ clock = last)

\* A wake-up that was requested is on its way or being answered, and what it
\* has not come for yet was published.
DataKept ==
    /\ applied[Data] = 0 => worker = "none"
    /\ attached => "physics" \in Senders
    /\ ~attached /\ "physics" \in Senders => sender["physics"] = "idle"
    /\ dataStop \notin {"running", "unregister"} => owner[Data] \in {"removed", "refused"}
    /\ dataStop = "running" /\ requested =>
           signal \/ worker = "clear" \/ \E t \in Senders : sender[t] = "write"
    /\ dataStop = "running" /\ attached /\ ~Coming =>
           /\ worker # "none"
           /\ worker \in {"snapshot", "poll"} => LastIsCurrent /\ ~clockRequested
           /\ worker = "poll" => ~stale

\* The two halves of TypeOK.
LinkTypes ==
    /\ master \in Masters \cup {Down}
    /\ place \in {"none", "top", "getPid", "getParam", "copy", "each", "call", "poll", "ended"}
    /\ state \in {"waiting", "connected", "unavailable", "replaced"}
    /\ boundPid \in {0} \cup {PidOf[m] : m \in Masters}
    /\ boundRun \in Masters \cup {NoRun}
    /\ found \in Masters \cup {Down}
    /\ due \in BOOLEAN /\ wake \in BOOLEAN /\ stopping \in BOOLEAN
    /\ left \in SUBSET Owners /\ calling \in Owners \cup {NoOwner}
    /\ (calling # NoOwner) <=> (place = "call")
    /\ owner \in [Owners -> {"none", "added", "refused", "disarmed", "removed"}]
    /\ armed \in SUBSET Added /\ applied \in [Owners -> 0..1]

DataTypes ==
    /\ clock \in 0..MaxClock /\ last \in -1..MaxClock
    /\ attached \in BOOLEAN /\ stale \in BOOLEAN /\ clockRequested \in BOOLEAN
    /\ requested \in BOOLEAN /\ signal \in BOOLEAN
    /\ sender \in [Senders -> {"idle", "exchange", "write"}]
    /\ worker \in {"none", "poll", "clear", "publish", "snapshot", "ended"}
    /\ dataStop \in {"running", "unregister", "disconnect", "signal", "join", "done"}

RosInv == TypeOK /\ LinkKept /\ DataKept /\ StoppedIsQuiet

-------------------------------------------------------------------------------
\* Every step keeps the types of the watcher and the owners.
LEMMA LinkTypesStep ==
    ASSUME RosInv, [Next]_vars
    PROVE  LinkTypes'
<1> USE RosLinkAssumption
    DEF masterVars, ownerVars, dataVars, RosInv, TypeOK, LinkTypes, Added, NoRun, LinkKept
<1>1. CASE Top
  BY <1>1 DEF Top, WatcherUnchanged
<1>2. CASE ReadFails
  BY <1>2 DEF ReadFails, MayDrain, WatcherUnchanged
<1>3. ASSUME NEW run \in Masters \cup {NoRun}, Identify(run) PROVE LinkTypes'
  BY <1>3 DEF Identify, MayDrain, WatcherUnchanged
<1>4. CASE ReadPid
  BY <1>4 DEF ReadPid, MayDrain, WatcherUnchanged
<1>5. CASE Copy
  BY <1>5 DEF Copy, WatcherUnchanged
<1>6. ASSUME NEW r \in Owners, Each(r) PROVE LinkTypes'
  BY <1>6 DEF Each, Runnable, WatcherUnchanged
<1>7. CASE CallbackSucceeds
  BY <1>7 DEF CallbackSucceeds
<1>8. CASE CallbackFails
  BY <1>8 DEF CallbackFails, WatcherUnchanged
<1>9. CASE RoundEnds
  BY <1>9 DEF RoundEnds, WatcherUnchanged
<1>10. CASE Poll
  BY <1>10 DEF Poll, WatcherUnchanged
<1>11. CASE ProbeDue
  BY <1>11 DEF ProbeDue, WatcherUnchanged
<1>12. CASE MasterChanges
  BY <1>12 DEF MasterChanges
<1>13. ASSUME NEW r \in Owners, Add(r) PROVE LinkTypes'
  <2>1. UNCHANGED <<master, state, boundPid, boundRun, found, due, stopping, left,
                    calling, applied>>
    BY <1>13 DEF Add
  <2>2. place' = IF place = "none" THEN "top" ELSE place
    BY <1>13 DEF Add
  <2>3. CASE owner' = [owner EXCEPT ![r] = "refused"] /\ UNCHANGED <<armed, wake>>
    BY <1>13, <2>1, <2>2, <2>3 DEF Add
  <2>4. CASE /\ owner' = [owner EXCEPT ![r] = "added"]
             /\ armed' = armed \cup {r} /\ wake' = TRUE
    BY <2>1, <2>2, <2>4
  <2>5. QED
    BY <1>13, <2>3, <2>4 DEF Add
<1>14. ASSUME NEW r \in Owners, RemoveOther(r) PROVE LinkTypes'
  BY <1>14 DEF RemoveOther, Disarm
<1>15. ASSUME NEW r \in Owners, Erase(r) PROVE LinkTypes'
  BY <1>15 DEF Erase
<1>16. ASSUME NEW time \in 0..MaxClock, NEW roster \in BOOLEAN, Update(time, roster)
      PROVE  LinkTypes'
  BY <1>16 DEF Update, Connected, DataUnchanged
<1>17. CASE Attach
  BY <1>17 DEF Attach, DataUnchanged
<1>18. CASE Subscribe
  BY <1>18 DEF Subscribe, DataUnchanged
<1>19. ASSUME NEW t \in Senders, Exchange(t) PROVE LinkTypes'
  BY <1>19 DEF Exchange, DataUnchanged
<1>20. ASSUME NEW t \in Senders, Write(t) PROVE LinkTypes'
  BY <1>20 DEF Write, DataUnchanged
<1>21. CASE Drain
  BY <1>21 DEF Drain, DataUnchanged
<1>22. CASE Clear
  BY <1>22 DEF Clear, DataUnchanged
<1>23. CASE Publish
  BY <1>23 DEF Publish, Changed, DataUnchanged
<1>24. CASE Snapshot
  BY <1>24 DEF Snapshot, DataUnchanged
<1>25. CASE StopData
  BY <1>25 DEF StopData
<1>26. CASE StopUnregisters
  BY <1>26 DEF StopUnregisters, Disarm
<1>27. CASE StopDisconnects
  BY <1>27 DEF StopDisconnects
<1>28. CASE StopSignals
  BY <1>28 DEF StopSignals
<1>29. CASE StopJoins
  BY <1>29 DEF StopJoins
<1>30. CASE UNCHANGED vars
  BY <1>30 DEF vars
<1> HIDE DEF RosInv, TypeOK, LinkKept, DataKept, LinkTypes
<1>31. QED
  BY RosLinkAssumption, <1>1, <1>2, <1>3, <1>4, <1>5, <1>6, <1>7, <1>8, <1>9, <1>10, <1>11,
     <1>12, <1>13, <1>14, <1>15, <1>16, <1>17, <1>18, <1>19, <1>20, <1>21, <1>22, <1>23,
     <1>24, <1>25, <1>26, <1>27, <1>28, <1>29, <1>30
     DEF Next, Watcher, DataWorker, Stopper

\* Every step keeps the types of the data source.
LEMMA DataTypesStep ==
    ASSUME RosInv, [Next]_vars
    PROVE  DataTypes'
<1> USE RosLinkAssumption
    DEF masterVars, ownerVars, dataVars, RosInv, TypeOK, DataTypes, DataKept
<1>1. CASE Top
  BY <1>1 DEF Top, WatcherUnchanged
<1>2. CASE ReadFails
  BY <1>2 DEF ReadFails, MayDrain, WatcherUnchanged
<1>3. ASSUME NEW run \in Masters \cup {NoRun}, Identify(run) PROVE DataTypes'
  BY <1>3 DEF Identify, MayDrain, WatcherUnchanged
<1>4. CASE ReadPid
  BY <1>4 DEF ReadPid, MayDrain, WatcherUnchanged
<1>5. CASE Copy
  BY <1>5 DEF Copy, WatcherUnchanged
<1>6. ASSUME NEW r \in Owners, Each(r) PROVE DataTypes'
  BY <1>6 DEF Each, Runnable, WatcherUnchanged
<1>7. CASE CallbackSucceeds
  BY <1>7 DEF CallbackSucceeds
<1>8. CASE CallbackFails
  BY <1>8 DEF CallbackFails, WatcherUnchanged
<1>9. CASE RoundEnds
  BY <1>9 DEF RoundEnds, WatcherUnchanged
<1>10. CASE Poll
  BY <1>10 DEF Poll, WatcherUnchanged
<1>11. CASE ProbeDue
  BY <1>11 DEF ProbeDue, WatcherUnchanged
<1>12. CASE MasterChanges
  BY <1>12 DEF MasterChanges
<1>13. ASSUME NEW r \in Owners, Add(r) PROVE DataTypes'
  BY <1>13 DEF Add
<1>14. ASSUME NEW r \in Owners, RemoveOther(r) PROVE DataTypes'
  BY <1>14 DEF RemoveOther, Disarm
<1>15. ASSUME NEW r \in Owners, Erase(r) PROVE DataTypes'
  BY <1>15 DEF Erase
<1>16. ASSUME NEW time \in 0..MaxClock, NEW roster \in BOOLEAN, Update(time, roster)
      PROVE  DataTypes'
  BY <1>16 DEF Update, Connected, DataUnchanged
<1>17. CASE Attach
  BY <1>17 DEF Attach, DataUnchanged
<1>18. CASE Subscribe
  BY <1>18 DEF Subscribe, DataUnchanged
<1>19. ASSUME NEW t \in Senders, Exchange(t) PROVE DataTypes'
  BY <1>19 DEF Exchange, DataUnchanged
<1>20. ASSUME NEW t \in Senders, Write(t) PROVE DataTypes'
  BY <1>20 DEF Write, DataUnchanged
<1>21. CASE Drain
  BY <1>21 DEF Drain, DataUnchanged
<1>22. CASE Clear
  BY <1>22 DEF Clear, DataUnchanged
<1>23. CASE Publish
  <2>1. last' \in {clock, last}
    BY <1>23 DEF Publish
  <2>2. last' \in -1..MaxClock
    BY <2>1
  <2>3. QED
    BY <1>23, <2>2 DEF Publish, DataUnchanged
<1>24. CASE Snapshot
  BY <1>24 DEF Snapshot, DataUnchanged
<1>25. CASE StopData
  BY <1>25 DEF StopData
<1>26. CASE StopUnregisters
  BY <1>26 DEF StopUnregisters, Disarm
<1>27. CASE StopDisconnects
  BY <1>27 DEF StopDisconnects
<1>28. CASE StopSignals
  BY <1>28 DEF StopSignals
<1>29. CASE StopJoins
  BY <1>29 DEF StopJoins
<1>30. CASE UNCHANGED vars
  BY <1>30 DEF vars
<1> HIDE DEF RosInv, TypeOK, LinkKept, DataKept, DataTypes
<1>31. QED
  BY RosLinkAssumption, <1>1, <1>2, <1>3, <1>4, <1>5, <1>6, <1>7, <1>8, <1>9, <1>10, <1>11,
     <1>12, <1>13, <1>14, <1>15, <1>16, <1>17, <1>18, <1>19, <1>20, <1>21, <1>22, <1>23,
     <1>24, <1>25, <1>26, <1>27, <1>28, <1>29, <1>30
     DEF Next, Watcher, DataWorker, Stopper

\* The watcher and the owners keep to the rules.
LEMMA LinkStep ==
    ASSUME RosInv, [Next]_vars
    PROVE  LinkKept'
<1> USE RosLinkAssumption
    DEF masterVars, ownerVars, dataVars, RosInv, TypeOK, Added, LinkKept
<1>1. CASE Top
  BY <1>1 DEF Top, WatcherUnchanged
<1>2. CASE ReadFails
  BY <1>2 DEF ReadFails, MayDrain, WatcherUnchanged
<1>3. ASSUME NEW run \in Masters \cup {NoRun}, Identify(run) PROVE LinkKept'
  BY <1>3 DEF Identify, MayDrain, WatcherUnchanged
<1>4. CASE ReadPid
  BY <1>4 DEF ReadPid, MayDrain, WatcherUnchanged
<1>5. CASE Copy
  BY <1>5 DEF Copy, WatcherUnchanged
<1>6. ASSUME NEW r \in Owners, Each(r) PROVE LinkKept'
  BY <1>6 DEF Each, Runnable, WatcherUnchanged
<1>7. CASE CallbackSucceeds
  BY <1>7 DEF CallbackSucceeds
<1>8. CASE CallbackFails
  BY <1>8 DEF CallbackFails, WatcherUnchanged
<1>9. CASE RoundEnds
  BY <1>9 DEF RoundEnds, WatcherUnchanged
<1>10. CASE Poll
  BY <1>10 DEF Poll, WatcherUnchanged
<1>11. CASE ProbeDue
  BY <1>11 DEF ProbeDue, WatcherUnchanged
<1>12. CASE MasterChanges
  BY <1>12 DEF MasterChanges
<1>13. ASSUME NEW r \in Owners, Add(r) PROVE LinkKept'
  BY <1>13 DEF Add
<1>14. ASSUME NEW r \in Owners, RemoveOther(r) PROVE LinkKept'
  BY <1>14 DEF RemoveOther, Disarm
<1>15. ASSUME NEW r \in Owners, Erase(r) PROVE LinkKept'
  BY <1>15 DEF Erase
<1>16. ASSUME NEW time \in 0..MaxClock, NEW roster \in BOOLEAN, Update(time, roster)
      PROVE  LinkKept'
  BY <1>16 DEF Update, Connected, DataUnchanged
<1>17. CASE Attach
  BY <1>17 DEF Attach, DataUnchanged
<1>18. CASE Subscribe
  BY <1>18 DEF Subscribe, DataUnchanged
<1>19. ASSUME NEW t \in Senders, Exchange(t) PROVE LinkKept'
  BY <1>19 DEF Exchange, DataUnchanged
<1>20. ASSUME NEW t \in Senders, Write(t) PROVE LinkKept'
  BY <1>20 DEF Write, DataUnchanged
<1>21. CASE Drain
  BY <1>21 DEF Drain, DataUnchanged
<1>22. CASE Clear
  BY <1>22 DEF Clear, DataUnchanged
<1>23. CASE Publish
  BY <1>23 DEF Publish, Changed, DataUnchanged
<1>24. CASE Snapshot
  BY <1>24 DEF Snapshot, DataUnchanged
<1>25. CASE StopData
  BY <1>25 DEF StopData
<1>26. CASE StopUnregisters
  BY <1>26 DEF StopUnregisters, Disarm
<1>27. CASE StopDisconnects
  BY <1>27 DEF StopDisconnects
<1>28. CASE StopSignals
  BY <1>28 DEF StopSignals
<1>29. CASE StopJoins
  BY <1>29 DEF StopJoins
<1>30. CASE UNCHANGED vars
  BY <1>30 DEF vars
<1> HIDE DEF RosInv, TypeOK, LinkKept, DataKept
<1>31. QED
  BY RosLinkAssumption, <1>1, <1>2, <1>3, <1>4, <1>5, <1>6, <1>7, <1>8, <1>9, <1>10, <1>11,
     <1>12, <1>13, <1>14, <1>15, <1>16, <1>17, <1>18, <1>19, <1>20, <1>21, <1>22, <1>23,
     <1>24, <1>25, <1>26, <1>27, <1>28, <1>29, <1>30
     DEF Next, Watcher, DataWorker, Stopper

\* No step leaves something unpublished without a wake-up.
LEMMA DataStep ==
    ASSUME RosInv, [Next]_vars
    PROVE  DataKept'
<1> USE RosLinkAssumption
    DEF masterVars, ownerVars, dataVars, RosInv, TypeOK, Added, LinkKept, DataKept, Coming,
        LastIsCurrent
<1>1. CASE Top
  BY <1>1 DEF Top, WatcherUnchanged
<1>2. CASE ReadFails
  BY <1>2 DEF ReadFails, MayDrain, WatcherUnchanged
<1>3. ASSUME NEW run \in Masters \cup {NoRun}, Identify(run) PROVE DataKept'
  BY <1>3 DEF Identify, MayDrain, WatcherUnchanged
<1>4. CASE ReadPid
  BY <1>4 DEF ReadPid, MayDrain, WatcherUnchanged
<1>5. CASE Copy
  BY <1>5 DEF Copy, WatcherUnchanged
<1>6. ASSUME NEW r \in Owners, Each(r) PROVE DataKept'
  BY <1>6 DEF Each, Runnable, WatcherUnchanged
<1>7. CASE CallbackSucceeds
  BY <1>7 DEF CallbackSucceeds
<1>8. CASE CallbackFails
  BY <1>8 DEF CallbackFails, WatcherUnchanged
<1>9. CASE RoundEnds
  BY <1>9 DEF RoundEnds, WatcherUnchanged
<1>10. CASE Poll
  BY <1>10 DEF Poll, WatcherUnchanged
<1>11. CASE ProbeDue
  BY <1>11 DEF ProbeDue, WatcherUnchanged
<1>12. CASE MasterChanges
  BY <1>12 DEF MasterChanges
<1>13. ASSUME NEW r \in Owners, Add(r) PROVE DataKept'
  BY <1>13 DEF Add
<1>14. ASSUME NEW r \in Owners, RemoveOther(r) PROVE DataKept'
  BY <1>14 DEF RemoveOther, Disarm
<1>15. ASSUME NEW r \in Owners, Erase(r) PROVE DataKept'
  BY <1>15 DEF Erase
<1>16. ASSUME NEW time \in 0..MaxClock, NEW roster \in BOOLEAN, Update(time, roster)
      PROVE  DataKept'
  BY <1>16 DEF Update, Connected, DataUnchanged
<1>17. CASE Attach
  BY <1>17 DEF Attach, DataUnchanged
<1>18. CASE Subscribe
  BY <1>18 DEF Subscribe, DataUnchanged
<1>19. ASSUME NEW t \in Senders, Exchange(t) PROVE DataKept'
  BY <1>19 DEF Exchange, DataUnchanged
<1>20. ASSUME NEW t \in Senders, Write(t) PROVE DataKept'
  BY <1>20 DEF Write, DataUnchanged
<1>21. CASE Drain
  BY <1>21 DEF Drain, DataUnchanged
<1>22. CASE Clear
  BY <1>22 DEF Clear, DataUnchanged
<1>23. CASE Publish
  BY <1>23 DEF Publish, Changed, DataUnchanged
<1>24. CASE Snapshot
  BY <1>24 DEF Snapshot, DataUnchanged
<1>25. CASE StopData
  BY <1>25 DEF StopData
<1>26. CASE StopUnregisters
  BY <1>26 DEF StopUnregisters, Disarm
<1>27. CASE StopDisconnects
  BY <1>27 DEF StopDisconnects
<1>28. CASE StopSignals
  BY <1>28 DEF StopSignals
<1>29. CASE StopJoins
  BY <1>29 DEF StopJoins
<1>30. CASE UNCHANGED vars
  BY <1>30 DEF vars
<1> HIDE DEF RosInv, TypeOK, LinkKept, DataKept
<1>31. QED
  BY RosLinkAssumption, <1>1, <1>2, <1>3, <1>4, <1>5, <1>6, <1>7, <1>8, <1>9, <1>10, <1>11,
     <1>12, <1>13, <1>14, <1>15, <1>16, <1>17, <1>18, <1>19, <1>20, <1>21, <1>22, <1>23,
     <1>24, <1>25, <1>26, <1>27, <1>28, <1>29, <1>30
     DEF Next, Watcher, DataWorker, Stopper

\* No callback starts the worker after the stop.
LEMMA QuietStep ==
    ASSUME RosInv, [Next]_vars
    PROVE  StoppedIsQuiet'
<1> USE RosLinkAssumption
    DEF masterVars, ownerVars, dataVars, RosInv, TypeOK, Added, LinkKept, DataKept,
        StoppedIsQuiet
<1>1. CASE Top
  BY <1>1 DEF Top, WatcherUnchanged
<1>2. CASE ReadFails
  BY <1>2 DEF ReadFails, MayDrain, WatcherUnchanged
<1>3. ASSUME NEW run \in Masters \cup {NoRun}, Identify(run) PROVE StoppedIsQuiet'
  BY <1>3 DEF Identify, MayDrain, WatcherUnchanged
<1>4. CASE ReadPid
  BY <1>4 DEF ReadPid, MayDrain, WatcherUnchanged
<1>5. CASE Copy
  BY <1>5 DEF Copy, WatcherUnchanged
<1>6. ASSUME NEW r \in Owners, Each(r) PROVE StoppedIsQuiet'
  BY <1>6 DEF Each, Runnable, WatcherUnchanged
<1>7. CASE CallbackSucceeds
  BY <1>7 DEF CallbackSucceeds
<1>8. CASE CallbackFails
  BY <1>8 DEF CallbackFails, WatcherUnchanged
<1>9. CASE RoundEnds
  BY <1>9 DEF RoundEnds, WatcherUnchanged
<1>10. CASE Poll
  BY <1>10 DEF Poll, WatcherUnchanged
<1>11. CASE ProbeDue
  BY <1>11 DEF ProbeDue, WatcherUnchanged
<1>12. CASE MasterChanges
  BY <1>12 DEF MasterChanges
<1>13. ASSUME NEW r \in Owners, Add(r) PROVE StoppedIsQuiet'
  BY <1>13 DEF Add
<1>14. ASSUME NEW r \in Owners, RemoveOther(r) PROVE StoppedIsQuiet'
  BY <1>14 DEF RemoveOther, Disarm
<1>15. ASSUME NEW r \in Owners, Erase(r) PROVE StoppedIsQuiet'
  BY <1>15 DEF Erase
<1>16. ASSUME NEW time \in 0..MaxClock, NEW roster \in BOOLEAN, Update(time, roster)
      PROVE  StoppedIsQuiet'
  BY <1>16 DEF Update, Connected, DataUnchanged
<1>17. CASE Attach
  BY <1>17 DEF Attach, DataUnchanged
<1>18. CASE Subscribe
  BY <1>18 DEF Subscribe, DataUnchanged
<1>19. ASSUME NEW t \in Senders, Exchange(t) PROVE StoppedIsQuiet'
  BY <1>19 DEF Exchange, DataUnchanged
<1>20. ASSUME NEW t \in Senders, Write(t) PROVE StoppedIsQuiet'
  BY <1>20 DEF Write, DataUnchanged
<1>21. CASE Drain
  BY <1>21 DEF Drain, DataUnchanged
<1>22. CASE Clear
  BY <1>22 DEF Clear, DataUnchanged
<1>23. CASE Publish
  BY <1>23 DEF Publish, Changed, DataUnchanged
<1>24. CASE Snapshot
  BY <1>24 DEF Snapshot, DataUnchanged
<1>25. CASE StopData
  BY <1>25 DEF StopData
<1>26. CASE StopUnregisters
  BY <1>26 DEF StopUnregisters, Disarm
<1>27. CASE StopDisconnects
  BY <1>27 DEF StopDisconnects
<1>28. CASE StopSignals
  BY <1>28 DEF StopSignals
<1>29. CASE StopJoins
  BY <1>29 DEF StopJoins
<1>30. CASE UNCHANGED vars
  BY <1>30 DEF vars
<1> HIDE DEF RosInv, TypeOK, LinkKept, DataKept, StoppedIsQuiet
<1>31. QED
  BY RosLinkAssumption, <1>1, <1>2, <1>3, <1>4, <1>5, <1>6, <1>7, <1>8, <1>9, <1>10, <1>11,
     <1>12, <1>13, <1>14, <1>15, <1>16, <1>17, <1>18, <1>19, <1>20, <1>21, <1>22, <1>23,
     <1>24, <1>25, <1>26, <1>27, <1>28, <1>29, <1>30
     DEF Next, Watcher, DataWorker, Stopper

\* A process that starts satisfies the invariant.
LEMMA InitRos == Init => RosInv
<1> SUFFICES ASSUME Init PROVE RosInv
  OBVIOUS
<1> USE RosLinkAssumption DEF Init
<1>1. /\ owner \in [Owners -> {"none", "added", "refused", "disarmed", "removed"}]
      /\ applied \in [Owners -> 0..1] /\ sender \in [Senders -> {"idle", "exchange", "write"}]
  OBVIOUS
<1>2. clock \in 0..MaxClock /\ last \in -1..MaxClock
  OBVIOUS
<1>3. TypeOK
  BY <1>1, <1>2 DEF TypeOK, NoRun
<1>4. LinkKept /\ DataKept /\ StoppedIsQuiet
  BY DEF LinkKept, DataKept, StoppedIsQuiet
<1>5. QED
  BY <1>3, <1>4 DEF RosInv

\* The invariant holds in every reachable state.
THEOREM LinkInductive == Spec => []RosInv
<1>1. Init => RosInv
  BY InitRos
<1>2. RosInv /\ [Next]_vars => RosInv'
  <2>1. SUFFICES ASSUME RosInv, [Next]_vars PROVE RosInv'
    OBVIOUS
  <2>2. TypeOK'
    BY <2>1, LinkTypesStep, DataTypesStep DEF TypeOK, LinkTypes, DataTypes
  <2>3. QED
    BY <2>1, <2>2, LinkStep, DataStep, QuietStep DEF RosInv
<1>3. QED
  BY <1>1, <1>2, PTL DEF Spec

\* Watcher, owners and data source keep their types.
THEOREM RosTypes == Spec => []TypeOK
<1>1. RosInv => TypeOK
  BY DEF RosInv
<1>2. QED
  BY LinkInductive, <1>1, PTL

\* A watcher that sleeps while connected has run every registration.
THEOREM NoOwnerIsForgotten == Spec => []NoneForgotten
<1>1. RosInv => NoneForgotten
  BY RosLinkAssumption DEF RosInv, TypeOK, Added, LinkKept, NoneForgotten
<1>2. QED
  BY LinkInductive, <1>1, PTL

\* A data worker that sleeps has published what it was woken for.
THEOREM ClockIsCurrent == Spec => []DataIsCurrent
<1>1. RosInv => DataIsCurrent
  BY DEF RosInv, DataKept, Coming, LastIsCurrent, DataIsCurrent
<1>2. QED
  BY LinkInductive, <1>1, PTL

\* The stop leaves no worker behind.
THEOREM StopLeavesNoWorker == Spec => []StoppedIsQuiet
<1>1. RosInv => StoppedIsQuiet
  BY DEF RosInv
<1>2. QED
  BY LinkInductive, <1>1, PTL

\* No callback runs for an owner that took its registration back.
THEOREM RemovedOwnersRest == Spec => NeverAfterRemoval
<1> DEFINE Rest == \A r \in Owners : owner[r] \in {"disarmed", "removed"} =>
                       applied'[r] = applied[r] /\ calling' # r
<1>1. RosInv /\ [Next]_vars => Rest
  <2> SUFFICES ASSUME RosInv, [Next]_vars PROVE Rest
    OBVIOUS
  <2>1. CASE UNCHANGED <<applied, calling>>
    BY <2>1, RosLinkAssumption DEF RosInv, TypeOK, LinkKept, Added
  <2>2. CASE UNCHANGED applied /\ calling' = NoOwner
    BY <2>2, RosLinkAssumption
  <2>3. ASSUME NEW r \in Owners, Each(r) PROVE Rest
    BY <2>1, <2>3, RosLinkAssumption
       DEF Each, Runnable, RosInv, TypeOK, Added, WatcherUnchanged, ownerVars
  <2>4. CASE CallbackSucceeds
    BY <2>4, RosLinkAssumption DEF CallbackSucceeds, RosInv, TypeOK, LinkKept, Added
  <2> HIDE DEF Rest, RosInv
  <2>5. QED
    BY <2>1, <2>2, <2>3, <2>4
       DEF Next, Watcher, DataWorker, Stopper, vars, masterVars, ownerVars, WatcherUnchanged,
           DataUnchanged, Top, ReadFails, Identify, ReadPid, Copy, CallbackFails, RoundEnds, Poll,
           ProbeDue, MasterChanges, Add, RemoveOther, Disarm, Erase, Update, Attach, Subscribe,
           Exchange, Write, Drain, Clear, Publish, Snapshot, StopData, StopUnregisters,
           StopDisconnects, StopSignals, StopJoins
<1>2. RosInv /\ [Next]_vars => [Rest]_vars
  BY <1>1
<1>3. QED
  BY LinkInductive, <1>2, PTL DEF Spec, NeverAfterRemoval

\* Whoever sleeps has done what it was told, and whoever was stopped is quiet.
THEOREM LinkIsConsistent == Spec => []LinkAgrees
  BY RosTypes, NoOwnerIsForgotten, ClockIsCurrent, StopLeavesNoWorker, PTL DEF LinkAgrees

\* Who is bound to a run ID is bound to a PID too, and what a probe compares is the PID of
\* a master.
BindingKept ==
    /\ boundPid \in Nat /\ (boundRun # NoRun => boundPid # 0)
    /\ place = "getParam" => found \in Masters

LEMMA BindingStep ==
    ASSUME TypeOK, BindingKept, [Next]_vars
    PROVE  /\ BindingKept'
           /\ boundPid # 0 => boundPid' = boundPid
           /\ boundRun # NoRun => boundRun' = boundRun
<1>1. CASE ReadPid
  BY <1>1 DEF ReadPid, BindingKept, TypeOK
<1>2. ASSUME NEW run \in Masters \cup {NoRun}, Identify(run)
      PROVE  /\ BindingKept'
             /\ boundPid # 0 => boundPid' = boundPid
             /\ boundRun # NoRun => boundRun' = boundRun
  <2>1. found \in Masters /\ PidOf[found] \in Nat \ {0}
    BY <1>2, RosLinkAssumption DEF Identify, BindingKept
  <2>2. CASE Replaced(run)
    BY <1>2, <2>2 DEF Identify, BindingKept
  <2>3. CASE ~Replaced(run)
    BY <1>2, <2>1, <2>3 DEF Identify, BindingKept, Replaced
  <2>4. QED
    BY <2>2, <2>3
<1>3. CASE UNCHANGED <<boundPid, boundRun, found>> /\ (place' = "getParam" => place = "getParam")
  BY <1>3 DEF BindingKept
<1> HIDE DEF BindingKept
<1>4. QED
  BY <1>1, <1>2, <1>3
     DEF Next, Watcher, DataWorker, Stopper, vars, masterVars, WatcherUnchanged, DataUnchanged,
         Top, ReadFails, Copy, Each, CallbackSucceeds, CallbackFails, RoundEnds, Poll, ProbeDue,
         MasterChanges, Add, RemoveOther, Disarm, Erase, Update, Attach, Subscribe, Exchange,
         Write, Drain, Clear, Publish, Snapshot, StopData, StopUnregisters, StopDisconnects,
         StopSignals, StopJoins

\* The process never passes from the master that it is bound to to another one.
THEOREM MasterIsKept == Spec => BoundForGood
<1> DEFINE Keeps ==
        (boundPid # 0 => boundPid' = boundPid) /\ (boundRun # NoRun => boundRun' = boundRun)
<1>1. Init => BindingKept
  BY DEF Init, BindingKept
<1>2. TypeOK /\ BindingKept /\ [Next]_vars => BindingKept' /\ [Keeps]_vars
  BY BindingStep
<1>3. Spec => [][Keeps]_vars
  <2> HIDE DEF Keeps
  <2>1. QED
    BY RosTypes, <1>1, <1>2, PTL DEF Spec
<1>4. QED
  BY <1>3 DEF Keeps, BoundForGood
=============================================================================
