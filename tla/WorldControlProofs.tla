--------------------------- MODULE WorldControlProofs ---------------------------
(***************************************************************************)
(* Proofs about WorldControl, for any number of entities, motion entries,  *)
(* generations, resets of the clock and any length of time.  The commands  *)
(* that take several critical sections are right because of what they have *)
(* done before the physics thread comes in between: the motion of whatever *)
(* is selected has ended, the pause of a reset is remembered in resume,    *)
(* and a playing scene whose clock is about to be rewound is marked.       *)
(***************************************************************************)
EXTENDS WorldControl, TLAPS

\* The scene is never ahead of all the time that has passed.
TimeBound == Time(clock) <= clock + epoch * MaxTime

\* Who has a motion was last placed by it, and nobody selected has one.
PlacedStill ==
    /\ \A i \in Moving : place[i] = "driven"
    /\ worker \in {"resetEntity", "setState", "reset", "paused"} =>
           \A i \in selected : i \notin Moving

\* A reset that resumes the world found it running; one that rewinds the clock may.
PauseKept ==
    /\ rewind /\ worker \in {"reset", "paused"} => epoch < MaxRewinds
    /\ ~failed => IF worker \in {"paused", "resume"} /\ resume THEN paused /\ ~asked
                                                               ELSE paused = asked
    /\ worker = "reset" /\ resume => ~paused
    /\ worker = "resume" => resume

\* A playing scene started in the past, a paused one was sampled where it stands.
SceneKept ==
    /\ playing /\ ~rewound => started <= clock
    /\ playing /\ rewind /\ worker \in {"reset", "paused"} => rewound
    /\ ~suspended /\ ~playing => sampled = elapsed

\* TypeOK without the scene's time.
OtherTypes ==
    /\ paused \in BOOLEAN /\ clock \in 0..MaxTime /\ epoch \in 0..MaxRewinds
    /\ generation \in 0..MaxGeneration
    /\ entity \in [Ids -> 0..MaxGeneration]
    /\ place \in [Ids -> {"none", "initial", "set", "driven"}]
    /\ entry \in [Ids -> Entries]
    /\ playing \in BOOLEAN /\ suspended \in BOOLEAN
    /\ started \in 0..MaxTime /\ serial \in {0, 1}
    /\ worker \in {"idle", "reset", "paused", "resume", "resetEntity", "setState", "remove"}
    /\ selected \in SUBSET Ids /\ rewind \in BOOLEAN /\ resume \in BOOLEAN
    /\ asked \in BOOLEAN /\ failed \in BOOLEAN /\ rewound \in BOOLEAN

WorldInv == TypeOK /\ TimeBound /\ EntriesLive /\ PlacedStill /\ PauseKept /\ SceneKept

-------------------------------------------------------------------------------
\* The scene's time is a number within its bound.
LEMMA TimeTyped ==
    ASSUME TypeOK, TimeBound
    PROVE  /\ Time(clock) \in Nat /\ elapsed <= Time(clock) /\ Time(clock) \in 0..MaxElapsed
           /\ epoch * MaxTime \in Nat /\ (epoch + 1) * MaxTime = epoch * MaxTime + MaxTime
           /\ clock < MaxTime => Time(clock + 1) \in Time(clock)..(Time(clock) + 1)
<1> USE WorldControlAssumption
<1>1. /\ clock \in Nat /\ epoch \in Nat /\ elapsed \in Nat /\ started \in Nat
      /\ clock <= MaxTime /\ epoch <= MaxRewinds /\ playing \in BOOLEAN
  BY DEF TypeOK
<1>2. Time(clock) \in Nat /\ elapsed <= Time(clock)
  BY <1>1 DEF Time, Since
<1>3. epoch * MaxTime \in Nat /\ (epoch + 1) * MaxTime = epoch * MaxTime + MaxTime
  BY <1>1
<1>4. epoch * MaxTime <= MaxRewinds * MaxTime
  BY <1>1
<1>5. MaxElapsed = MaxRewinds * MaxTime + MaxTime /\ MaxElapsed \in Nat
  BY DEF MaxElapsed
<1>6. Time(clock) <= MaxElapsed
  BY <1>1, <1>2, <1>3, <1>4, <1>5 DEF TimeBound
<1>7. Time(clock + 1) \in Time(clock)..(Time(clock) + 1)
  BY <1>1 DEF Time, Since
<1>8. QED
  BY <1>2, <1>3, <1>5, <1>6, <1>7

\* Every step keeps the bound of the scene's time.
LEMMA TimeStep ==
    ASSUME WorldInv, [Next]_vars
    PROVE  TimeBound' /\ elapsed' \in 0..MaxElapsed /\ sampled' \in 0..MaxElapsed
<1> DEFINE Goal == TimeBound' /\ elapsed' \in 0..MaxElapsed /\ sampled' \in 0..MaxElapsed
<1> SUFFICES Goal
  OBVIOUS
<1>1. /\ clock \in Nat /\ epoch \in Nat /\ elapsed \in 0..MaxElapsed /\ started \in Nat
      /\ sampled \in 0..MaxElapsed /\ playing \in BOOLEAN /\ MaxTime \in Nat
      /\ clock <= MaxTime /\ TimeBound
  BY WorldControlAssumption DEF WorldInv, TypeOK
<1>2. /\ Time(clock) \in Nat /\ elapsed <= Time(clock) /\ Time(clock) \in 0..MaxElapsed
      /\ epoch * MaxTime \in Nat /\ (epoch + 1) * MaxTime = epoch * MaxTime + MaxTime
      /\ clock < MaxTime => Time(clock + 1) \in Time(clock)..(Time(clock) + 1)
  BY TimeTyped DEF WorldInv
<1>3. \A t \in 0..Time(clock) : t \in 0..MaxElapsed
  BY <1>2, WorldControlAssumption DEF MaxElapsed
<1>4. ASSUME UNCHANGED <<clock, epoch>>, Time(clock)' \in 0..Time(clock),
             elapsed' \in 0..Time(clock), sampled' \in 0..MaxElapsed
      PROVE  Goal
  BY <1>1, <1>2, <1>3, <1>4 DEF TimeBound
<1>5. CASE UNCHANGED <<clock, epoch, playing, elapsed, started, sampled>>
  BY <1>1, <1>5 DEF TimeBound, Time
<1>6. ASSUME NEW operation, SceneMotion(operation) PROVE Goal
  <2>1. UNCHANGED <<clock, epoch>> /\ elapsed' \in 0..Time(clock) /\ sampled' = elapsed'
    BY <1>2, <1>6 DEF SceneMotion, worldVars
  <2>2. Time(clock)' = elapsed'
    BY <1>1, <1>6, <2>1 DEF SceneMotion, Time, Since
  <2>3. QED
    BY <1>3, <1>4, <2>1, <2>2
<1>7. ASSUME NEW fresh, Commit(fresh) PROVE Goal
  <2>1. UNCHANGED <<clock, epoch>> /\ elapsed' \in 0..Time(clock) /\ sampled' \in 0..Time(clock)
    BY <1>1, <1>2, <1>7 DEF Commit, worldVars
  <2>2. Time(clock)' \in 0..Time(clock)
    BY <1>1, <1>2, <1>7 DEF Commit, Time, Since, worldVars
  <2>3. QED
    BY <1>3, <1>4, <2>1, <2>2
<1>8. ASSUME NEW batch, NEW whole, NEW time, BeginReset(batch, whole, time) PROVE Goal
  <2>1. CASE UNCHANGED sceneVars
    BY <1>5, <1>8, <2>1 DEF BeginReset, sceneVars, worldVars
  <2>2. CASE ResetScene
    <3>1. UNCHANGED <<clock, epoch>> /\ elapsed' = 0 /\ sampled' \in {0, sampled}
      BY <1>8, <2>2 DEF BeginReset, ResetScene, worldVars
    <3>2. Time(clock)' = 0
      BY <2>2 DEF ResetScene, Time
    <3>3. QED
      BY <1>1, <1>2, <1>3, <1>4, <3>1, <3>2
  <2>3. QED
    BY <1>8, <2>1, <2>2 DEF BeginReset
<1>9. ASSUME NEW done, ResetPlaces(done) PROVE Goal
  <2>1. CASE UNCHANGED <<clock, epoch>>
    BY <1>5, <1>9, <2>1 DEF ResetPlaces, sceneVars
  <2>2. CASE clock' = 0 /\ epoch' = epoch + 1
    <3>1. UNCHANGED <<playing, elapsed, started, sampled>>
      BY <1>9 DEF ResetPlaces, sceneVars
    <3>2. Time(clock)' = elapsed
      BY <1>1, <2>2, <3>1 DEF Time, Since
    <3>3. elapsed <= epoch' * MaxTime
      BY <1>1, <1>2, <2>2 DEF TimeBound
    <3>4. QED
      BY <1>1, <2>2, <3>1, <3>2, <3>3 DEF TimeBound
  <2>3. QED
    BY <1>9, <2>1, <2>2 DEF ResetPlaces
<1>10. ASSUME NEW scene, NEW motion, Advance(scene, motion) PROVE Goal
  <2>1. /\ clock' = clock + 1 /\ clock < MaxTime /\ UNCHANGED <<epoch, playing, elapsed, started>>
        /\ sampled' \in {sampled, Time(clock')}
    BY <1>10 DEF Advance
  <2>2. Time(clock)' = Time(clock + 1)
    BY <2>1 DEF Time
  <2>3. TimeBound'
    BY <1>1, <1>2, <2>1, <2>2 DEF TimeBound
  <2>4. Time(clock + 1) \in 0..MaxElapsed
    <3>1. Time(clock + 1) <= clock' + epoch * MaxTime /\ clock' <= MaxTime
      BY <1>1, <1>2, <2>1, <2>2, <2>3 DEF TimeBound
    <3>2. epoch * MaxTime + MaxTime <= MaxElapsed
      BY <1>1, WorldControlAssumption DEF WorldInv, TypeOK, MaxElapsed
    <3>3. MaxElapsed \in Nat
      BY WorldControlAssumption DEF MaxElapsed
    <3>4. QED
      BY <1>1, <1>2, <2>1, <3>1, <3>2, <3>3
  <2>5. QED
    BY <1>1, <2>1, <2>3, <2>4
<1> HIDE DEF Goal
<1>11. ASSUME Suspend \/ Remove \/ PauseForReset \/ Resume \/ UNCHANGED vars PROVE Goal
  BY <1>5, <1>11 DEF Suspend, Remove, PauseForReset, Resume, vars, worldVars, sceneVars
<1>12. ASSUME NEW i, NEW phase, Create(i) \/ BeginRemove(i) \/ BeginPlace(phase, i) PROVE Goal
  BY <1>5, <1>12 DEF Create, BeginRemove, BeginPlace, worldVars, sceneVars
<1>13. ASSUME NEW batch, NEW p, SetMotion(batch) \/ SetPaused(p) \/ Place(p) PROVE Goal
  BY <1>5, <1>13 DEF SetMotion, SetPaused, Place, worldVars, sceneVars
<1>14. Goal
  BY <1>6, <1>7, <1>8, <1>9, <1>10, <1>11, <1>12, <1>13 DEF Next, Command, Continue, Step, Tick
<1>15. QED
  BY <1>14

\* Every step keeps the other types.
LEMMA TypeStep ==
    ASSUME WorldInv, [Next]_vars
    PROVE  OtherTypes'
<1> USE WorldControlAssumption
    DEF worldVars, sceneVars, entityVars, commandVars, historyVars, WorldInv, TypeOK,
        OtherTypes, PauseKept, Bumped, Entries, NoEntry, Absent
<1>1. ASSUME NEW operation \in {"play", "pause", "reset"}, SceneMotion(operation)
      PROVE  OtherTypes'
  <2>1. serial' \in {0, 1}
    BY <1>1 DEF SceneMotion
  <2>2. playing' \in BOOLEAN /\ rewound' \in BOOLEAN /\ started' \in 0..MaxTime
    BY <1>1 DEF SceneMotion
  <2>3. QED
    BY <1>1, <2>1, <2>2 DEF SceneMotion
<1>2. CASE Suspend
  BY <1>2 DEF Suspend
<1>3. ASSUME NEW fresh \in BOOLEAN, Commit(fresh) PROVE OtherTypes'
  <2>1. serial' \in {0, 1}
    BY <1>3 DEF Commit
  <2>2. playing' \in BOOLEAN /\ rewound' \in BOOLEAN /\ started' \in 0..MaxTime
    BY <1>3 DEF Commit
  <2>3. QED
    BY <1>3, <2>1, <2>2 DEF Commit
<1>4. ASSUME NEW i \in Ids, Create(i) PROVE OtherTypes'
  BY <1>4 DEF Create
<1>5. ASSUME NEW i \in Ids, BeginRemove(i) PROVE OtherTypes'
  BY <1>5 DEF BeginRemove, Begin
<1>6. ASSUME NEW batch \in SUBSET Ids, SetMotion(batch) PROVE OtherTypes'
  BY <1>6 DEF SetMotion
<1>7. ASSUME NEW i \in Ids, NEW phase \in {"resetEntity", "setState"}, BeginPlace(phase, i)
      PROVE  OtherTypes'
  BY <1>7 DEF BeginPlace, Begin, Retire
<1>8. CASE Step
  BY <1>8 DEF Step, Advance
<1>9. ASSUME NEW p \in BOOLEAN, SetPaused(p) PROVE OtherTypes'
  BY <1>9 DEF SetPaused
<1>10. ASSUME NEW batch \in SUBSET Ids, NEW whole \in BOOLEAN, NEW time \in BOOLEAN,
             BeginReset(batch, whole, time)
      PROVE  OtherTypes'
  <2>1. serial' \in {0, 1}
    BY <1>10 DEF BeginReset, ResetScene
  <2>2. playing' \in BOOLEAN /\ rewound' \in BOOLEAN /\ started' \in 0..MaxTime
    BY <1>10 DEF BeginReset, ResetScene
  <2>3. resume' \in BOOLEAN /\ rewind' \in BOOLEAN /\ suspended' \in BOOLEAN
    BY <1>10 DEF BeginReset, ResetScene
  <2>4. entry' \in [Ids -> Entries]
    BY <1>10 DEF BeginReset, Retire
  <2>5. selected' \subseteq Ids /\ worker' = "reset"
    BY <1>10 DEF BeginReset, Begin
  <2>6. QED
    BY <1>10, <2>1, <2>2, <2>3, <2>4, <2>5 DEF BeginReset
<1>11. ASSUME NEW zeroed \in BOOLEAN, Place(zeroed) PROVE OtherTypes'
  BY <1>11 DEF Place, Begin
<1>12. CASE Remove
  BY <1>12 DEF Remove, Begin, Retire
<1>13. CASE PauseForReset
  BY <1>13 DEF PauseForReset
<1>14. ASSUME NEW done \in SUBSET selected, ResetPlaces(done) PROVE OtherTypes'
  BY <1>14 DEF ResetPlaces
<1>15. CASE Resume
  BY <1>15 DEF Resume
<1>16. ASSUME NEW scene \in BOOLEAN, NEW motion \in BOOLEAN, Tick(scene, motion)
      PROVE  OtherTypes'
  BY <1>16 DEF Tick, Advance
<1>17. CASE UNCHANGED vars
  BY <1>17 DEF vars
<1> HIDE DEF WorldInv, TypeOK, OtherTypes, TimeBound, EntriesLive, PlacedStill, PauseKept,
             SceneKept
<1>18. QED
  BY <1>1, <1>2, <1>3, <1>4, <1>5, <1>6, <1>7, <1>8, <1>9, <1>10, <1>11, <1>12, <1>13,
     <1>14, <1>15, <1>16, <1>17
     DEF Next, Command, Continue

\* A motion ends with its entity.
LEMMA EntriesStep ==
    ASSUME WorldInv, [Next]_vars
    PROVE  EntriesLive'
<1> USE WorldControlAssumption
    DEF worldVars, sceneVars, entityVars, commandVars, historyVars, WorldInv, TypeOK,
        EntriesLive, Moving, Live, NoEntry, Absent, Entries
<1>1. ASSUME NEW operation \in {"play", "pause", "reset"}, SceneMotion(operation)
      PROVE  EntriesLive'
  BY <1>1 DEF SceneMotion
<1>2. CASE Suspend
  BY <1>2 DEF Suspend
<1>3. ASSUME NEW fresh \in BOOLEAN, Commit(fresh) PROVE EntriesLive'
  BY <1>3 DEF Commit
<1>4. ASSUME NEW i \in Ids, Create(i) PROVE EntriesLive'
  BY <1>4 DEF Create
<1>5. ASSUME NEW i \in Ids, BeginRemove(i) PROVE EntriesLive'
  BY <1>5 DEF BeginRemove, Begin
<1>6. ASSUME NEW batch \in SUBSET Ids, SetMotion(batch) PROVE EntriesLive'
  BY <1>6 DEF SetMotion
<1>7. ASSUME NEW i \in Ids, NEW phase \in {"resetEntity", "setState"}, BeginPlace(phase, i)
      PROVE  EntriesLive'
  BY <1>7 DEF BeginPlace, Begin, Retire
<1>8. CASE Step
  BY <1>8 DEF Step, Advance
<1>9. ASSUME NEW p \in BOOLEAN, SetPaused(p) PROVE EntriesLive'
  BY <1>9 DEF SetPaused
<1>10. ASSUME NEW batch \in SUBSET Ids, NEW whole \in BOOLEAN, NEW time \in BOOLEAN,
             BeginReset(batch, whole, time)
      PROVE  EntriesLive'
  BY <1>10 DEF BeginReset, Begin, Retire, ResetScene
<1>11. ASSUME NEW zeroed \in BOOLEAN, Place(zeroed) PROVE EntriesLive'
  BY <1>11 DEF Place, Begin
<1>12. CASE Remove
  BY <1>12 DEF Remove, Begin, Retire
<1>13. CASE PauseForReset
  BY <1>13 DEF PauseForReset
<1>14. ASSUME NEW done \in SUBSET selected, ResetPlaces(done) PROVE EntriesLive'
  BY <1>14 DEF ResetPlaces
<1>15. CASE Resume
  BY <1>15 DEF Resume
<1>16. ASSUME NEW scene \in BOOLEAN, NEW motion \in BOOLEAN, Tick(scene, motion)
      PROVE  EntriesLive'
  BY <1>16 DEF Tick, Advance
<1>17. CASE UNCHANGED vars
  BY <1>17 DEF vars
<1> HIDE DEF WorldInv, TypeOK, TimeBound, EntriesLive, PlacedStill, PauseKept, SceneKept
<1>18. QED
  BY <1>1, <1>2, <1>3, <1>4, <1>5, <1>6, <1>7, <1>8, <1>9, <1>10, <1>11, <1>12, <1>13,
     <1>14, <1>15, <1>16, <1>17
     DEF Next, Command, Continue

\* A motion ends before its entity is placed.
LEMMA PlacedStep ==
    ASSUME WorldInv, [Next]_vars
    PROVE  PlacedStill'
<1> USE WorldControlAssumption
    DEF worldVars, sceneVars, entityVars, commandVars, historyVars, WorldInv, TypeOK,
        EntriesLive, PlacedStill, Moving, Live, NoEntry, Absent
<1>1. ASSUME NEW operation \in {"play", "pause", "reset"}, SceneMotion(operation)
      PROVE  PlacedStill'
  BY <1>1 DEF SceneMotion
<1>2. CASE Suspend
  BY <1>2 DEF Suspend
<1>3. ASSUME NEW fresh \in BOOLEAN, Commit(fresh) PROVE PlacedStill'
  BY <1>3 DEF Commit
<1>4. ASSUME NEW i \in Ids, Create(i) PROVE PlacedStill'
  BY <1>4 DEF Create
<1>5. ASSUME NEW i \in Ids, BeginRemove(i) PROVE PlacedStill'
  BY <1>5 DEF BeginRemove, Begin
<1>6. ASSUME NEW batch \in SUBSET Ids, SetMotion(batch) PROVE PlacedStill'
  BY <1>6 DEF SetMotion
<1>7. ASSUME NEW i \in Ids, NEW phase \in {"resetEntity", "setState"}, BeginPlace(phase, i)
      PROVE  PlacedStill'
  BY <1>7 DEF BeginPlace, Begin, Retire
<1>8. CASE Step
  BY <1>8 DEF Step, Advance
<1>9. ASSUME NEW p \in BOOLEAN, SetPaused(p) PROVE PlacedStill'
  BY <1>9 DEF SetPaused
<1>10. ASSUME NEW batch \in SUBSET Ids, NEW whole \in BOOLEAN, NEW time \in BOOLEAN,
             BeginReset(batch, whole, time)
      PROVE  PlacedStill'
  BY <1>10 DEF BeginReset, Begin, Retire, ResetScene
<1>11. ASSUME NEW zeroed \in BOOLEAN, Place(zeroed) PROVE PlacedStill'
  BY <1>11 DEF Place, Begin
<1>12. CASE Remove
  BY <1>12 DEF Remove, Begin, Retire
<1>13. CASE PauseForReset
  BY <1>13 DEF PauseForReset
<1>14. ASSUME NEW done \in SUBSET selected, ResetPlaces(done) PROVE PlacedStill'
  BY <1>14 DEF ResetPlaces
<1>15. CASE Resume
  BY <1>15 DEF Resume
<1>16. ASSUME NEW scene \in BOOLEAN, NEW motion \in BOOLEAN, Tick(scene, motion)
      PROVE  PlacedStill'
  BY <1>16 DEF Tick, Advance
<1>17. CASE UNCHANGED vars
  BY <1>17 DEF vars
<1> HIDE DEF WorldInv, TypeOK, TimeBound, EntriesLive, PlacedStill, PauseKept, SceneKept
<1>18. QED
  BY <1>1, <1>2, <1>3, <1>4, <1>5, <1>6, <1>7, <1>8, <1>9, <1>10, <1>11, <1>12, <1>13,
     <1>14, <1>15, <1>16, <1>17
     DEF Next, Command, Continue

\* A reset remembers that it paused the world.
LEMMA PauseStep ==
    ASSUME WorldInv, [Next]_vars
    PROVE  PauseKept'
<1> USE WorldControlAssumption
    DEF worldVars, sceneVars, entityVars, commandVars, historyVars, WorldInv, TypeOK,
        PauseKept
<1>1. ASSUME NEW operation \in {"play", "pause", "reset"}, SceneMotion(operation)
      PROVE  PauseKept'
  BY <1>1 DEF SceneMotion
<1>2. CASE Suspend
  BY <1>2 DEF Suspend
<1>3. ASSUME NEW fresh \in BOOLEAN, Commit(fresh) PROVE PauseKept'
  BY <1>3 DEF Commit
<1>4. ASSUME NEW i \in Ids, Create(i) PROVE PauseKept'
  BY <1>4 DEF Create
<1>5. ASSUME NEW i \in Ids, BeginRemove(i) PROVE PauseKept'
  BY <1>5 DEF BeginRemove, Begin
<1>6. ASSUME NEW batch \in SUBSET Ids, SetMotion(batch) PROVE PauseKept'
  BY <1>6 DEF SetMotion
<1>7. ASSUME NEW i \in Ids, NEW phase \in {"resetEntity", "setState"}, BeginPlace(phase, i)
      PROVE  PauseKept'
  BY <1>7 DEF BeginPlace, Begin, Retire
<1>8. CASE Step
  BY <1>8 DEF Step, Advance
<1>9. ASSUME NEW p \in BOOLEAN, SetPaused(p) PROVE PauseKept'
  BY <1>9 DEF SetPaused
<1>10. ASSUME NEW batch \in SUBSET Ids, NEW whole \in BOOLEAN, NEW time \in BOOLEAN,
             BeginReset(batch, whole, time)
      PROVE  PauseKept'
  BY <1>10 DEF BeginReset, Begin, Retire, ResetScene
<1>11. ASSUME NEW zeroed \in BOOLEAN, Place(zeroed) PROVE PauseKept'
  BY <1>11 DEF Place, Begin
<1>12. CASE Remove
  BY <1>12 DEF Remove, Begin, Retire
<1>13. CASE PauseForReset
  BY <1>13 DEF PauseForReset
<1>14. ASSUME NEW done \in SUBSET selected, ResetPlaces(done) PROVE PauseKept'
  BY <1>14 DEF ResetPlaces
<1>15. CASE Resume
  BY <1>15 DEF Resume
<1>16. ASSUME NEW scene \in BOOLEAN, NEW motion \in BOOLEAN, Tick(scene, motion)
      PROVE  PauseKept'
  BY <1>16 DEF Tick, Advance
<1>17. CASE UNCHANGED vars
  BY <1>17 DEF vars
<1> HIDE DEF WorldInv, TypeOK, TimeBound, EntriesLive, PlacedStill, PauseKept, SceneKept
<1>18. QED
  BY <1>1, <1>2, <1>3, <1>4, <1>5, <1>6, <1>7, <1>8, <1>9, <1>10, <1>11, <1>12, <1>13,
     <1>14, <1>15, <1>16, <1>17
     DEF Next, Command, Continue

\* Samples follow the scene's motion.
LEMMA SceneStep ==
    ASSUME WorldInv, [Next]_vars
    PROVE  SceneKept'
<1> USE WorldControlAssumption
    DEF worldVars, sceneVars, entityVars, commandVars, historyVars, WorldInv, TypeOK,
        SceneKept, Time, Since
<1>1. ASSUME NEW operation \in {"play", "pause", "reset"}, SceneMotion(operation)
      PROVE  SceneKept'
  BY <1>1 DEF SceneMotion
<1>2. CASE Suspend
  BY <1>2 DEF Suspend
<1>3. ASSUME NEW fresh \in BOOLEAN, Commit(fresh) PROVE SceneKept'
  BY <1>3 DEF Commit
<1>4. ASSUME NEW i \in Ids, Create(i) PROVE SceneKept'
  BY <1>4 DEF Create
<1>5. ASSUME NEW i \in Ids, BeginRemove(i) PROVE SceneKept'
  BY <1>5 DEF BeginRemove, Begin
<1>6. ASSUME NEW batch \in SUBSET Ids, SetMotion(batch) PROVE SceneKept'
  BY <1>6 DEF SetMotion
<1>7. ASSUME NEW i \in Ids, NEW phase \in {"resetEntity", "setState"}, BeginPlace(phase, i)
      PROVE  SceneKept'
  BY <1>7 DEF BeginPlace, Begin, Retire
<1>8. CASE Step
  BY <1>8 DEF Step, Advance
<1>9. ASSUME NEW p \in BOOLEAN, SetPaused(p) PROVE SceneKept'
  BY <1>9 DEF SetPaused
<1>10. ASSUME NEW batch \in SUBSET Ids, NEW whole \in BOOLEAN, NEW time \in BOOLEAN,
             BeginReset(batch, whole, time)
      PROVE  SceneKept'
  BY <1>10 DEF BeginReset, Begin, Retire, ResetScene
<1>11. ASSUME NEW zeroed \in BOOLEAN, Place(zeroed) PROVE SceneKept'
  BY <1>11 DEF Place, Begin
<1>12. CASE Remove
  BY <1>12 DEF Remove, Begin, Retire
<1>13. CASE PauseForReset
  BY <1>13 DEF PauseForReset
<1>14. ASSUME NEW done \in SUBSET selected, ResetPlaces(done) PROVE SceneKept'
  BY <1>14 DEF ResetPlaces
<1>15. CASE Resume
  BY <1>15 DEF Resume
<1>16. ASSUME NEW scene \in BOOLEAN, NEW motion \in BOOLEAN, Tick(scene, motion)
      PROVE  SceneKept'
  BY <1>16 DEF Tick, Advance
<1>17. CASE UNCHANGED vars
  BY <1>17 DEF vars
<1> HIDE DEF WorldInv, TypeOK, TimeBound, EntriesLive, PlacedStill, PauseKept, SceneKept
<1>18. QED
  BY <1>1, <1>2, <1>3, <1>4, <1>5, <1>6, <1>7, <1>8, <1>9, <1>10, <1>11, <1>12, <1>13,
     <1>14, <1>15, <1>16, <1>17
     DEF Next, Command, Continue

\* A world that starts satisfies the invariant.
LEMMA InitWorld == Init => WorldInv
<1> SUFFICES ASSUME Init PROVE WorldInv
  OBVIOUS
<1> USE WorldControlAssumption DEF Init
<1>1. \A i \in Ids : entry[i] = NoEntry
  OBVIOUS
<1>2. TimeBound
  BY DEF TimeBound, Time
<1>3. MaxElapsed \in Nat
  BY DEF MaxElapsed
<1>4. TypeOK
  <2>1. NoEntry \in Entries
    BY DEF Entries, NoEntry, Absent
  <2>2. /\ entity \in [Ids -> 0..MaxGeneration] /\ entry \in [Ids -> Entries]
        /\ place \in [Ids -> {"none", "initial", "set", "driven"}]
    BY <2>1 DEF Absent
  <2>3. /\ elapsed \in 0..MaxElapsed /\ sampled \in 0..MaxElapsed /\ started \in 0..MaxTime
        /\ clock \in 0..MaxTime /\ epoch \in 0..MaxRewinds /\ generation \in 0..MaxGeneration
    BY <1>3
  <2>4. QED
    BY <2>2, <2>3 DEF TypeOK
<1>5. EntriesLive /\ PlacedStill
  BY <1>1 DEF EntriesLive, PlacedStill, Moving
<1>6. PauseKept /\ SceneKept
  BY DEF PauseKept, SceneKept
<1>7. QED
  BY <1>2, <1>4, <1>5, <1>6 DEF WorldInv

\* The invariant holds in every reachable state.
THEOREM WorldInductive == Spec => []WorldInv
<1>1. Init => WorldInv
  BY InitWorld
<1>2. WorldInv /\ [Next]_vars => WorldInv'
  <2>1. SUFFICES ASSUME WorldInv, [Next]_vars PROVE WorldInv'
    OBVIOUS
  <2>2. TypeOK' /\ TimeBound'
    BY <2>1, TypeStep, TimeStep DEF TypeOK, OtherTypes
  <2>3. QED
    BY <2>1, <2>2, EntriesStep, PlacedStep, PauseStep, SceneStep DEF WorldInv
<1>3. QED
  BY <1>1, <1>2, PTL DEF Spec

\* Clock, entities, motions and the scene's time keep their types.
THEOREM WorldTypes == Spec => []TypeOK
<1>1. WorldInv => TypeOK
  BY DEF WorldInv
<1>2. QED
  BY WorldInductive, <1>1, PTL

\* Physics never moves an entity that is gone.
THEOREM MotionsAreLive == Spec => []EntriesLive
<1>1. WorldInv => EntriesLive
  BY DEF WorldInv
<1>2. QED
  BY WorldInductive, <1>1, PTL

\* Between commands the world is paused exactly when it was last asked to be.
THEOREM PauseIsKept == Spec => []PauseIsAsked
<1>1. WorldInv => PauseIsAsked
  BY DEF WorldInv, PauseKept, PauseIsAsked
<1>2. QED
  BY WorldInductive, <1>1, PTL

\* A physics step moves no entity that was reset or set after its last motion.
THEOREM PlacedEntitiesStay == Spec => PlacedHolds
<1> DEFINE Moved ==
        clock' = clock + 1 =>
          \A i \in Ids : place[i] \in {"initial", "set"} => place'[i] = place[i]
<1>1. WorldInv /\ [Next]_vars => Moved
  <2> SUFFICES ASSUME WorldInv, [Next]_vars PROVE Moved
    OBVIOUS
  <2> USE WorldControlAssumption
      DEF worldVars, sceneVars, entityVars, commandVars, historyVars, WorldInv, TypeOK,
          PlacedStill
  <2>1. ASSUME NEW operation \in {"play", "pause", "reset"}, SceneMotion(operation)
        PROVE  Moved
    BY <2>1 DEF SceneMotion
  <2>2. CASE Suspend
    BY <2>2 DEF Suspend
  <2>3. ASSUME NEW fresh \in BOOLEAN, Commit(fresh) PROVE Moved
    BY <2>3 DEF Commit
  <2>4. ASSUME NEW i \in Ids, Create(i) PROVE Moved
    BY <2>4 DEF Create
  <2>5. ASSUME NEW i \in Ids, BeginRemove(i) PROVE Moved
    BY <2>5 DEF BeginRemove, Begin
  <2>6. ASSUME NEW batch \in SUBSET Ids, SetMotion(batch) PROVE Moved
    BY <2>6 DEF SetMotion
  <2>7. ASSUME NEW i \in Ids, NEW phase \in {"resetEntity", "setState"}, BeginPlace(phase,
               i)
        PROVE  Moved
    BY <2>7 DEF BeginPlace, Begin, Retire
  <2>8. CASE Step
    BY <2>8 DEF Step, Advance
  <2>9. ASSUME NEW p \in BOOLEAN, SetPaused(p) PROVE Moved
    BY <2>9 DEF SetPaused
  <2>10. ASSUME NEW batch \in SUBSET Ids, NEW whole \in BOOLEAN, NEW time \in BOOLEAN,
               BeginReset(batch, whole, time)
        PROVE  Moved
    BY <2>10 DEF BeginReset, Begin, Retire, ResetScene
  <2>11. ASSUME NEW zeroed \in BOOLEAN, Place(zeroed) PROVE Moved
    BY <2>11 DEF Place, Begin
  <2>12. CASE Remove
    BY <2>12 DEF Remove, Begin, Retire
  <2>13. CASE PauseForReset
    BY <2>13 DEF PauseForReset
  <2>14. ASSUME NEW done \in SUBSET selected, ResetPlaces(done) PROVE Moved
    BY <2>14 DEF ResetPlaces
  <2>15. CASE Resume
    BY <2>15 DEF Resume
  <2>16. ASSUME NEW scene \in BOOLEAN, NEW motion \in BOOLEAN, Tick(scene, motion) PROVE Moved
    BY <2>16 DEF Tick, Advance
  <2>17. CASE UNCHANGED vars
    BY <2>17 DEF vars
  <2> HIDE DEF Moved, WorldInv, TypeOK, TimeBound, EntriesLive, PlacedStill, PauseKept, SceneKept
  <2>18. QED
    BY <2>1, <2>2, <2>3, <2>4, <2>5, <2>6, <2>7, <2>8, <2>9, <2>10, <2>11, <2>12, <2>13,
       <2>14, <2>15, <2>16, <2>17
       DEF Next, Command, Continue
<1>2. WorldInv /\ [Next]_vars => [Moved]_vars
  BY <1>1
<1>3. QED
  BY WorldInductive, <1>2, PTL DEF Spec, PlacedHolds

\* A playing scene moves with the clock, a paused one stands.
THEOREM PlayingMovesOn == Spec => PlayingAdvances
<1> DEFINE Moved ==
        clock' = clock + 1 /\ ~rewound =>
          Time(clock)' = Time(clock) + (IF playing THEN 1 ELSE 0)
<1>1. WorldInv /\ [Next]_vars => Moved
  <2> SUFFICES ASSUME WorldInv, [Next]_vars PROVE Moved
    OBVIOUS
  <2> USE WorldControlAssumption
      DEF worldVars, sceneVars, entityVars, commandVars, historyVars, WorldInv, TypeOK,
          SceneKept, Time, Since
  <2>1. ASSUME NEW operation \in {"play", "pause", "reset"}, SceneMotion(operation)
        PROVE  Moved
    BY <2>1 DEF SceneMotion
  <2>2. CASE Suspend
    BY <2>2 DEF Suspend
  <2>3. ASSUME NEW fresh \in BOOLEAN, Commit(fresh) PROVE Moved
    BY <2>3 DEF Commit
  <2>4. ASSUME NEW i \in Ids, Create(i) PROVE Moved
    BY <2>4 DEF Create
  <2>5. ASSUME NEW i \in Ids, BeginRemove(i) PROVE Moved
    BY <2>5 DEF BeginRemove, Begin
  <2>6. ASSUME NEW batch \in SUBSET Ids, SetMotion(batch) PROVE Moved
    BY <2>6 DEF SetMotion
  <2>7. ASSUME NEW i \in Ids, NEW phase \in {"resetEntity", "setState"}, BeginPlace(phase,
               i)
        PROVE  Moved
    BY <2>7 DEF BeginPlace, Begin, Retire
  <2>8. CASE Step
    BY <2>8 DEF Step, Advance
  <2>9. ASSUME NEW p \in BOOLEAN, SetPaused(p) PROVE Moved
    BY <2>9 DEF SetPaused
  <2>10. ASSUME NEW batch \in SUBSET Ids, NEW whole \in BOOLEAN, NEW time \in BOOLEAN,
               BeginReset(batch, whole, time)
        PROVE  Moved
    BY <2>10 DEF BeginReset, Begin, Retire, ResetScene
  <2>11. ASSUME NEW zeroed \in BOOLEAN, Place(zeroed) PROVE Moved
    BY <2>11 DEF Place, Begin
  <2>12. CASE Remove
    BY <2>12 DEF Remove, Begin, Retire
  <2>13. CASE PauseForReset
    BY <2>13 DEF PauseForReset
  <2>14. ASSUME NEW done \in SUBSET selected, ResetPlaces(done) PROVE Moved
    BY <2>14 DEF ResetPlaces
  <2>15. CASE Resume
    BY <2>15 DEF Resume
  <2>16. ASSUME NEW scene \in BOOLEAN, NEW motion \in BOOLEAN, Tick(scene, motion) PROVE Moved
    BY <2>16 DEF Tick, Advance
  <2>17. CASE UNCHANGED vars
    BY <2>17 DEF vars
  <2> HIDE DEF Moved, WorldInv, TypeOK, TimeBound, EntriesLive, PlacedStill, PauseKept, SceneKept
  <2>18. QED
    BY <2>1, <2>2, <2>3, <2>4, <2>5, <2>6, <2>7, <2>8, <2>9, <2>10, <2>11, <2>12, <2>13,
       <2>14, <2>15, <2>16, <2>17
       DEF Next, Command, Continue
<1>2. WorldInv /\ [Next]_vars => [Moved]_vars
  BY <1>1
<1>3. QED
  BY WorldInductive, <1>2, PTL DEF Spec, PlayingAdvances

\* Every command continues the scene where it is, or stops it at its start.
THEOREM CommandsDoNotJump == Spec => NoJump
<1> DEFINE Moved ==
        clock' = clock =>
          Time(clock)' = Time(clock) \/ (Time(clock)' = 0 /\ ~playing')
<1>1. WorldInv /\ [Next]_vars => Moved
  <2> SUFFICES ASSUME WorldInv, [Next]_vars PROVE Moved
    OBVIOUS
  <2> USE WorldControlAssumption
      DEF worldVars, sceneVars, entityVars, commandVars, historyVars, WorldInv, TypeOK,
          Time, Since
  <2>1. ASSUME NEW operation \in {"play", "pause", "reset"}, SceneMotion(operation)
        PROVE  Moved
    BY <2>1 DEF SceneMotion
  <2>2. CASE Suspend
    BY <2>2 DEF Suspend
  <2>3. ASSUME NEW fresh \in BOOLEAN, Commit(fresh) PROVE Moved
    BY <2>3 DEF Commit
  <2>4. ASSUME NEW i \in Ids, Create(i) PROVE Moved
    BY <2>4 DEF Create
  <2>5. ASSUME NEW i \in Ids, BeginRemove(i) PROVE Moved
    BY <2>5 DEF BeginRemove, Begin
  <2>6. ASSUME NEW batch \in SUBSET Ids, SetMotion(batch) PROVE Moved
    BY <2>6 DEF SetMotion
  <2>7. ASSUME NEW i \in Ids, NEW phase \in {"resetEntity", "setState"}, BeginPlace(phase,
               i)
        PROVE  Moved
    BY <2>7 DEF BeginPlace, Begin, Retire
  <2>8. CASE Step
    BY <2>8 DEF Step, Advance
  <2>9. ASSUME NEW p \in BOOLEAN, SetPaused(p) PROVE Moved
    BY <2>9 DEF SetPaused
  <2>10. ASSUME NEW batch \in SUBSET Ids, NEW whole \in BOOLEAN, NEW time \in BOOLEAN,
               BeginReset(batch, whole, time)
        PROVE  Moved
    BY <2>10 DEF BeginReset, Begin, Retire, ResetScene
  <2>11. ASSUME NEW zeroed \in BOOLEAN, Place(zeroed) PROVE Moved
    BY <2>11 DEF Place, Begin
  <2>12. CASE Remove
    BY <2>12 DEF Remove, Begin, Retire
  <2>13. CASE PauseForReset
    BY <2>13 DEF PauseForReset
  <2>14. ASSUME NEW done \in SUBSET selected, ResetPlaces(done) PROVE Moved
    BY <2>14 DEF ResetPlaces
  <2>15. CASE Resume
    BY <2>15 DEF Resume
  <2>16. ASSUME NEW scene \in BOOLEAN, NEW motion \in BOOLEAN, Tick(scene, motion) PROVE Moved
    BY <2>16 DEF Tick, Advance
  <2>17. CASE UNCHANGED vars
    BY <2>17 DEF vars
  <2> HIDE DEF Moved, WorldInv, TypeOK, TimeBound, EntriesLive, PlacedStill, PauseKept, SceneKept
  <2>18. QED
    BY <2>1, <2>2, <2>3, <2>4, <2>5, <2>6, <2>7, <2>8, <2>9, <2>10, <2>11, <2>12, <2>13,
       <2>14, <2>15, <2>16, <2>17
       DEF Next, Command, Continue
<1>2. WorldInv /\ [Next]_vars => [Moved]_vars
  BY <1>1
<1>3. QED
  BY WorldInductive, <1>2, PTL DEF Spec, NoJump

\* Every change of the sampled time comes with a new serial.
THEOREM SamplesAreSeen == Spec => SamplesMarked
<1> DEFINE Moved ==
        sampled' # sampled => serial' # serial
<1>1. WorldInv /\ [Next]_vars => Moved
  <2> SUFFICES ASSUME WorldInv, [Next]_vars PROVE Moved
    OBVIOUS
  <2> USE WorldControlAssumption
      DEF worldVars, sceneVars, entityVars, commandVars, historyVars, WorldInv, TypeOK,
          SceneKept, Time, Since, Bumped
  <2>1. ASSUME NEW operation \in {"play", "pause", "reset"}, SceneMotion(operation)
        PROVE  Moved
    BY <2>1 DEF SceneMotion
  <2>2. CASE Suspend
    BY <2>2 DEF Suspend
  <2>3. ASSUME NEW fresh \in BOOLEAN, Commit(fresh) PROVE Moved
    BY <2>3 DEF Commit
  <2>4. ASSUME NEW i \in Ids, Create(i) PROVE Moved
    BY <2>4 DEF Create
  <2>5. ASSUME NEW i \in Ids, BeginRemove(i) PROVE Moved
    BY <2>5 DEF BeginRemove, Begin
  <2>6. ASSUME NEW batch \in SUBSET Ids, SetMotion(batch) PROVE Moved
    BY <2>6 DEF SetMotion
  <2>7. ASSUME NEW i \in Ids, NEW phase \in {"resetEntity", "setState"}, BeginPlace(phase,
               i)
        PROVE  Moved
    BY <2>7 DEF BeginPlace, Begin, Retire
  <2>8. CASE Step
    BY <2>8 DEF Step, Advance
  <2>9. ASSUME NEW p \in BOOLEAN, SetPaused(p) PROVE Moved
    BY <2>9 DEF SetPaused
  <2>10. ASSUME NEW batch \in SUBSET Ids, NEW whole \in BOOLEAN, NEW time \in BOOLEAN,
               BeginReset(batch, whole, time)
        PROVE  Moved
    BY <2>10 DEF BeginReset, Begin, Retire, ResetScene
  <2>11. ASSUME NEW zeroed \in BOOLEAN, Place(zeroed) PROVE Moved
    BY <2>11 DEF Place, Begin
  <2>12. CASE Remove
    BY <2>12 DEF Remove, Begin, Retire
  <2>13. CASE PauseForReset
    BY <2>13 DEF PauseForReset
  <2>14. ASSUME NEW done \in SUBSET selected, ResetPlaces(done) PROVE Moved
    BY <2>14 DEF ResetPlaces
  <2>15. CASE Resume
    BY <2>15 DEF Resume
  <2>16. ASSUME NEW scene \in BOOLEAN, NEW motion \in BOOLEAN, Tick(scene, motion) PROVE Moved
    BY <2>16 DEF Tick, Advance
  <2>17. CASE UNCHANGED vars
    BY <2>17 DEF vars
  <2> HIDE DEF Moved, WorldInv, TypeOK, TimeBound, EntriesLive, PlacedStill, PauseKept, SceneKept
  <2>18. QED
    BY <2>1, <2>2, <2>3, <2>4, <2>5, <2>6, <2>7, <2>8, <2>9, <2>10, <2>11, <2>12, <2>13,
       <2>14, <2>15, <2>16, <2>17
       DEF Next, Command, Continue
<1>2. WorldInv /\ [Next]_vars => [Moved]_vars
  BY <1>1
<1>3. QED
  BY WorldInductive, <1>2, PTL DEF Spec, SamplesMarked

\* Motions and pause agree with the commands.
THEOREM WorldIsConsistent == Spec => []WorldAgrees
  BY WorldTypes, MotionsAreLive, PauseIsKept, PTL DEF WorldAgrees

\* Scene time follows the clock, is continuous over commands and never changes unnoticed.
THEOREM SceneTimeIsRight == Spec => SceneClock
  BY PlayingMovesOn, CommandsDoNotJump, SamplesAreSeen, PTL DEF SceneClock
=============================================================================
