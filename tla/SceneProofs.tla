------------------------------ MODULE SceneProofs ------------------------------
(***************************************************************************)
(* Proofs about the application of scenes (Spec), for any number of        *)
(* obstacles, bodies, epochs and documents and any sizes of the tables,    *)
(* about the compilation of their documents and the check of what was      *)
(* inserted (CompilerSpec), for any documents, limits and points, and      *)
(* about the animation of moving obstacles (PathSpec), for any waypoints,  *)
(* distances, bearings and speeds.                                         *)
(*                                                                         *)
(* What the properties of the first rest on: every insertion that is still *)
(* unanswered is either awaited by the application that made it or         *)
(* abandoned, and no name is both; the models of the world have different  *)
(* names, and those of entities, those awaited and those to be swept are   *)
(* different models.                                                       *)
(*                                                                         *)
(* The second has few steps and much data.  What is folded over a sequence *)
(* has no recursive definition that the provers could follow, so that the  *)
(* facts about sequences are proved first, each by the least number for    *)
(* which it would fail.                                                    *)
(*                                                                         *)
(* The third computes with functions that are defined by recursion.  Each  *)
(* is shown to exist, because a loop that starts somewhere and takes its   *)
(* steps defines one; what holds of it then follows by counting up.        *)
(***************************************************************************)
EXTENDS SceneApply, SceneCompiler, ObstaclePath, FiniteSetTheorems, WellFoundedInduction, TLAPS

Replacing == worker \in {"batch", "insert", "wait", "withdraw", "install"}
Applying == worker = "apply" \/ Replacing
Own(m) == m.try = try /\ m.body = cmd.scene[m.name]

\* The fence was passed by the command, and nothing it looked at has changed since; tries count
\* from one.
FencePassed == Applying => suspended /\ ~Refused(cmd) /\ try > 0

\* The models of the world, by what they are for.
ModelsApart ==
    /\ \A m, k \in world : m.name = k.name => m = k
    /\ \A n \in Occupied : entity[n].name = n /\ entity[n] \in world /\ entity[n] \notin ready
    /\ got \subseteq world /\ ready \subseteq world
    /\ \A m \in got : m \notin ready

\* After the removals, what is left belongs to the document, which fits the table.
StaleGone == Replacing => ~TooMany /\ \A n \in Occupied : entity[n].body = cmd.scene[n]

\* The names that are announced, answered and still to install.
BatchKept ==
    /\ worker \in {"insert", "wait"} => pending = Additions
    /\ worker \notin {"insert", "wait"} /\ ~stopping => pending = {}
    /\ worker \in {"insert", "wait", "withdraw", "install"} =>
           \A m \in got : Own(m) /\ m.name \notin Occupied
    /\ worker \in {"idle", "apply", "batch", "insert"} => got = {}
    /\ worker = "pass" /\ ~stopping => got = {}
    /\ worker = "install" => /\ todo \subseteq Wanted /\ Wanted \subseteq Occupied \cup todo
                             /\ \A m \in got : m.name \in todo
                             /\ \A n \in todo \ Occupied : \E m \in got : m.name = n

\* The insertions that Gazebo has not answered.
UnansweredKnown ==
    ~stopping =>
        /\ \A m \in queued : \/ m.name \in abandoned
                             \/ /\ worker = "wait" /\ m.name \in pending /\ Own(m)
                                /\ \A k \in got : k.name # m.name
        /\ \A m, k \in queued : m.name = k.name => m = k
        /\ \A k \in ready : k.name \in abandoned /\ \A m \in queued : m.name # k.name
        /\ worker \in {"insert", "wait"} => pending \cap abandoned = {}

SceneInv ==
    /\ TypeOK /\ FencePassed /\ ModelsApart /\ StaleGone /\ BatchKept /\ UnansweredKnown
    /\ NoOrphan /\ AppliedIsWhole

\* Every step keeps the types; an installed entity is a model, because its name was answered.
LEMMA TypeStep ==
    ASSUME SceneInv, [Next]_vars
    PROVE  TypeOK'
<1> USE SceneApplyAssumption
    DEF controllerVars, tableVars, flagVars, ackVars, gazeboVars, SceneInv, Take,
        TypeOK, BatchKept, ModelsApart, FencePassed, Applying, Replacing, Occupied,
        Stale, Additions, Wanted, NamesOf, Ground, Names, None, NoCommand, NoScene,
        Commands, Models
<1>1. ASSUME NEW c \in Commands, Refuse(c) PROVE TypeOK'
  BY <1>1 DEF Refuse, Fail
<1>2. ASSUME NEW c \in Commands, Repeat(c) PROVE TypeOK'
  BY <1>2 DEF Repeat
<1>3. ASSUME NEW c \in Commands, Suspend(c) PROVE TypeOK'
  BY <1>3 DEF Suspend
<1>4. CASE Precheck
  BY <1>4 DEF Precheck, Fail
<1>5. ASSUME NEW stuck \in BOOLEAN, RemoveStale(stuck) PROVE TypeOK'
  BY <1>5 DEF RemoveStale, Fail
<1>6. CASE BatchEmpty
  BY <1>6 DEF BatchEmpty, InstallNext
<1>7. CASE BatchRefused
  BY <1>7 DEF BatchRefused, Fail
<1>8. CASE BatchAnnounce
  BY <1>8 DEF BatchAnnounce
<1>9. CASE BatchInsert
  <2>1. \A n \in pending : cmd.scene[n] \in Bodies
    BY <1>9 DEF BatchInsert
  <2>2. queued' \subseteq Models
    BY <1>9, <2>1 DEF BatchInsert
  <2>3. QED
    BY <1>9, <2>2 DEF BatchInsert
<1>10. CASE WaitCompletes
  BY <1>10 DEF WaitCompletes, InstallNext
<1>11. CASE WaitGivesUp
  BY <1>11 DEF WaitGivesUp
<1>12. CASE Withdraw
  BY <1>12 DEF Withdraw, Fail
<1>13. CASE WaitStops
  BY <1>13 DEF WaitStops, Fail
<1>14. ASSUME NEW n \in Names, NEW verified \in BOOLEAN, Install(n, verified) PROVE TypeOK'
  <2>1. entity' \in [Names -> Models \cup {None}]
    <3>1. CASE n \in Occupied
      BY <1>14, <3>1 DEF Install
    <3>2. CASE n \notin Occupied
      <4>1. (CHOOSE m \in got : m.name = n) \in got
        BY <1>14, <3>2 DEF Install, IsNext
      <4>2. QED
        BY <1>14, <3>2, <4>1 DEF Install
    <3>3. QED
      BY <3>1, <3>2
  <2>2. got' \subseteq Models /\ leftover' \subseteq Models /\ todo' \subseteq Names
    BY <1>14 DEF Install
  <2> HIDE DEF Occupied, Stale, Additions, Wanted, NamesOf, Names, Models, Commands,
               ModelsApart, BatchKept, FencePassed
  <2>3. QED
    BY <1>14, <2>1, <2>2 DEF Install, Fail
<1>15. CASE Commit
  <2>1. moved' \subseteq Models
    <3>1. \A n \in Occupied : entity[n] \in Models
      OBVIOUS
    <3>2. QED
      BY <1>15, <3>1 DEF Commit
  <2>2. /\ epoch' \in Epochs /\ revision' \in 0..MaxRevision
        /\ scene' \in [Names -> Bodies \cup {NoBody}] /\ retired' \subseteq Epochs
    BY <1>15 DEF Commit
  <2> HIDE DEF Occupied, Stale, Additions, Wanted, NamesOf, Names, Models, Commands,
               ModelsApart, BatchKept, FencePassed
  <2>3. QED
    BY <1>15, <2>1, <2>2 DEF Commit
<1>16. CASE Sweep
  BY <1>16 DEF Sweep, EndCommand
<1>17. ASSUME NEW m \in queued, Arrive(m) PROVE TypeOK'
  <2>1. /\ queued' \subseteq Models /\ world' \subseteq Models
        /\ got' \subseteq Models /\ ready' \subseteq Models
    BY <1>17 DEF Arrive, Acknowledge
  <2> HIDE DEF Occupied, Stale, Additions, Wanted, NamesOf, Names, Models, Commands,
               ModelsApart, BatchKept, FencePassed
  <2>2. QED
    BY <1>17, <2>1 DEF Arrive
<1>18. CASE Cancel
  BY <1>18 DEF Cancel
<1>19. CASE Expire
  BY <1>19 DEF Expire
<1>20. CASE Stop
  BY <1>20 DEF Stop
<1>21. ASSUME NEW count \in 0..NumEntities, NEW taken \in BOOLEAN, OthersChange(count, taken)
      PROVE  TypeOK'
  BY <1>21 DEF OthersChange
<1>22. CASE UNCHANGED vars
  BY <1>22 DEF vars
<1> HIDE DEF SceneInv, TypeOK, FencePassed, ModelsApart, StaleGone, BatchKept,
             UnansweredKnown, NoOrphan, AppliedIsWhole
<1>23. QED
  BY <1>1, <1>2, <1>3, <1>4, <1>5, <1>6, <1>7, <1>8, <1>9, <1>10, <1>11, <1>12, <1>13,
     <1>14, <1>15, <1>16, <1>17, <1>18, <1>19, <1>20, <1>21, <1>22
     DEF Next, Worker

\* The fence of a running application stays passed: only its own commit moves it.
LEMMA FenceStep ==
    ASSUME SceneInv, [Next]_vars
    PROVE  FencePassed'
<1> USE SceneApplyAssumption
    DEF controllerVars, tableVars, flagVars, ackVars, gazeboVars, SceneInv, Take,
        TypeOK, FencePassed, Replacing, Applying, Refused
<1>1. ASSUME NEW c \in Commands, Refuse(c) PROVE FencePassed'
  BY <1>1 DEF Refuse, Fail
<1>2. ASSUME NEW c \in Commands, Repeat(c) PROVE FencePassed'
  BY <1>2 DEF Repeat
<1>3. ASSUME NEW c \in Commands, Suspend(c) PROVE FencePassed'
  BY <1>3 DEF Suspend
<1>4. CASE Precheck
  BY <1>4 DEF Precheck, Fail
<1>5. ASSUME NEW stuck \in BOOLEAN, RemoveStale(stuck) PROVE FencePassed'
  BY <1>5 DEF RemoveStale, Fail
<1>6. CASE BatchEmpty
  BY <1>6 DEF BatchEmpty, InstallNext
<1>7. CASE BatchRefused
  BY <1>7 DEF BatchRefused, Fail
<1>8. CASE BatchAnnounce
  BY <1>8 DEF BatchAnnounce
<1>9. CASE BatchInsert
  BY <1>9 DEF BatchInsert
<1>10. CASE WaitCompletes
  BY <1>10 DEF WaitCompletes, InstallNext
<1>11. CASE WaitGivesUp
  BY <1>11 DEF WaitGivesUp
<1>12. CASE Withdraw
  BY <1>12 DEF Withdraw, Fail
<1>13. CASE WaitStops
  BY <1>13 DEF WaitStops, Fail
<1>14. ASSUME NEW n \in Names, NEW verified \in BOOLEAN, Install(n, verified)
      PROVE  FencePassed'
  BY <1>14 DEF Install, IsNext, Fail
<1>15. CASE Commit
  BY <1>15 DEF Commit
<1>16. CASE Sweep
  BY <1>16 DEF Sweep, EndCommand
<1>17. ASSUME NEW m \in queued, Arrive(m) PROVE FencePassed'
  BY <1>17 DEF Arrive, Acknowledge
<1>18. CASE Cancel
  BY <1>18 DEF Cancel
<1>19. CASE Expire
  BY <1>19 DEF Expire
<1>20. CASE Stop
  BY <1>20 DEF Stop
<1>21. ASSUME NEW count \in 0..NumEntities, NEW taken \in BOOLEAN, OthersChange(count, taken)
      PROVE  FencePassed'
  BY <1>21 DEF OthersChange
<1>22. CASE UNCHANGED vars
  BY <1>22 DEF vars
<1> HIDE DEF SceneInv, TypeOK, FencePassed, ModelsApart, StaleGone, BatchKept,
             UnansweredKnown, NoOrphan, AppliedIsWhole
<1>23. QED
  BY <1>1, <1>2, <1>3, <1>4, <1>5, <1>6, <1>7, <1>8, <1>9, <1>10, <1>11, <1>12, <1>13,
     <1>14, <1>15, <1>16, <1>17, <1>18, <1>19, <1>20, <1>21, <1>22
     DEF Next, Worker

\* The models of the world stay apart: Gazebo inserts no second model of a name.
LEMMA ModelsStep ==
    ASSUME SceneInv, [Next]_vars
    PROVE  ModelsApart'
<1> USE SceneApplyAssumption
    DEF controllerVars, tableVars, flagVars, ackVars, gazeboVars, SceneInv, Take,
        TypeOK, ModelsApart, BatchKept, UnansweredKnown, Occupied, Stale, Ground, Names,
        None
<1>1. ASSUME NEW c \in Commands, Refuse(c) PROVE ModelsApart'
  BY <1>1 DEF Refuse, Fail
<1>2. ASSUME NEW c \in Commands, Repeat(c) PROVE ModelsApart'
  BY <1>2 DEF Repeat
<1>3. ASSUME NEW c \in Commands, Suspend(c) PROVE ModelsApart'
  BY <1>3 DEF Suspend
<1>4. CASE Precheck
  BY <1>4 DEF Precheck, Fail
<1>5. ASSUME NEW stuck \in BOOLEAN, RemoveStale(stuck) PROVE ModelsApart'
  <2>1. /\ world' \subseteq world /\ UNCHANGED <<got, ready>>
        /\ \A n \in Occupied' : n \in Occupied /\ entity'[n] = entity[n] /\ entity[n] \in world'
    BY <1>5 DEF RemoveStale
  <2>2. got = {} /\ ready \subseteq world'
    BY <1>5 DEF RemoveStale
  <2>3. QED
    BY <2>1, <2>2
<1>6. CASE BatchEmpty
  BY <1>6 DEF BatchEmpty, InstallNext
<1>7. CASE BatchRefused
  BY <1>7 DEF BatchRefused, Fail
<1>8. CASE BatchAnnounce
  BY <1>8 DEF BatchAnnounce
<1>9. CASE BatchInsert
  BY <1>9 DEF BatchInsert
<1>10. CASE WaitCompletes
  BY <1>10 DEF WaitCompletes, InstallNext
<1>11. CASE WaitGivesUp
  BY <1>11 DEF WaitGivesUp
<1>12. CASE Withdraw
  BY <1>12 DEF Withdraw, Fail
<1>13. CASE WaitStops
  BY <1>13 DEF WaitStops, Fail
<1>14. ASSUME NEW n \in Names, NEW verified \in BOOLEAN, Install(n, verified)
      PROVE  ModelsApart'
  BY <1>14 DEF Install, IsNext, Fail
<1>15. CASE Commit
  BY <1>15 DEF Commit
<1>16. CASE Sweep
  BY <1>16 DEF Sweep, EndCommand
<1>17. ASSUME NEW m \in queued, Arrive(m) PROVE ModelsApart'
  <2>1. CASE m.name \in NamesOf(world)
    BY <1>17, <2>1 DEF Arrive
  <2>2. CASE m.name \notin NamesOf(world)
    <3>1. \A k \in world : k.name # m.name
      BY <2>2 DEF NamesOf
    <3>2. world' = world \cup {m} /\ entity' = entity
      BY <1>17, <2>2 DEF Arrive
    <3>3. /\ got' \subseteq got \cup {m} /\ ready' \subseteq ready \cup {m}
          /\ m \notin got' \/ m \notin ready'
      BY <1>17, <2>2, <3>1 DEF Arrive, Acknowledge
    <3>4. QED
      BY <3>1, <3>2, <3>3
  <2>3. QED
    BY <2>1, <2>2
<1>18. CASE Cancel
  BY <1>18 DEF Cancel
<1>19. CASE Expire
  BY <1>19 DEF Expire
<1>20. CASE Stop
  BY <1>20 DEF Stop
<1>21. ASSUME NEW count \in 0..NumEntities, NEW taken \in BOOLEAN, OthersChange(count, taken)
      PROVE  ModelsApart'
  BY <1>21 DEF OthersChange
<1>22. CASE UNCHANGED vars
  BY <1>22 DEF vars
<1> HIDE DEF SceneInv, TypeOK, FencePassed, ModelsApart, StaleGone, BatchKept,
             UnansweredKnown, NoOrphan, AppliedIsWhole
<1>23. QED
  BY <1>1, <1>2, <1>3, <1>4, <1>5, <1>6, <1>7, <1>8, <1>9, <1>10, <1>11, <1>12, <1>13,
     <1>14, <1>15, <1>16, <1>17, <1>18, <1>19, <1>20, <1>21, <1>22
     DEF Next, Worker

\* Between removals and commit the entities that are left are those of the document.
LEMMA StaleStep ==
    ASSUME SceneInv, [Next]_vars
    PROVE  StaleGone'
<1> USE SceneApplyAssumption
    DEF controllerVars, tableVars, flagVars, ackVars, gazeboVars, SceneInv, Take,
        TypeOK, StaleGone, BatchKept, Replacing, Own, TooMany, Occupied, Stale,
        Additions, Wanted, NamesOf, Ground, Names, None, NoCommand, NoScene, Commands,
        Models
<1>1. ASSUME NEW c \in Commands, Refuse(c) PROVE StaleGone'
  BY <1>1 DEF Refuse, Fail
<1>2. ASSUME NEW c \in Commands, Repeat(c) PROVE StaleGone'
  BY <1>2 DEF Repeat
<1>3. ASSUME NEW c \in Commands, Suspend(c) PROVE StaleGone'
  BY <1>3 DEF Suspend
<1>4. CASE Precheck
  BY <1>4 DEF Precheck, Fail
<1>5. ASSUME NEW stuck \in BOOLEAN, RemoveStale(stuck) PROVE StaleGone'
  BY <1>5 DEF RemoveStale, Fail
<1>6. CASE BatchEmpty
  BY <1>6 DEF BatchEmpty, InstallNext
<1>7. CASE BatchRefused
  BY <1>7 DEF BatchRefused, Fail
<1>8. CASE BatchAnnounce
  BY <1>8 DEF BatchAnnounce
<1>9. CASE BatchInsert
  BY <1>9 DEF BatchInsert
<1>10. CASE WaitCompletes
  BY <1>10 DEF WaitCompletes, InstallNext
<1>11. CASE WaitGivesUp
  BY <1>11 DEF WaitGivesUp
<1>12. CASE Withdraw
  BY <1>12 DEF Withdraw, Fail
<1>13. CASE WaitStops
  BY <1>13 DEF WaitStops, Fail
<1>14. ASSUME NEW n \in Names, NEW verified \in BOOLEAN, Install(n, verified)
      PROVE  StaleGone'
  BY <1>14 DEF Install, IsNext, Fail
<1>15. CASE Commit
  BY <1>15 DEF Commit
<1>16. CASE Sweep
  BY <1>16 DEF Sweep, EndCommand
<1>17. ASSUME NEW m \in queued, Arrive(m) PROVE StaleGone'
  BY <1>17 DEF Arrive, Acknowledge
<1>18. CASE Cancel
  BY <1>18 DEF Cancel
<1>19. CASE Expire
  BY <1>19 DEF Expire
<1>20. CASE Stop
  BY <1>20 DEF Stop
<1>21. ASSUME NEW count \in 0..NumEntities, NEW taken \in BOOLEAN, OthersChange(count, taken)
      PROVE  StaleGone'
  BY <1>21 DEF OthersChange
<1>22. CASE UNCHANGED vars
  BY <1>22 DEF vars
<1> HIDE DEF SceneInv, TypeOK, FencePassed, ModelsApart, StaleGone, BatchKept,
             UnansweredKnown, NoOrphan, AppliedIsWhole
<1>23. QED
  BY <1>1, <1>2, <1>3, <1>4, <1>5, <1>6, <1>7, <1>8, <1>9, <1>10, <1>11, <1>12, <1>13,
     <1>14, <1>15, <1>16, <1>17, <1>18, <1>19, <1>20, <1>21, <1>22
     DEF Next, Worker

\* The names that were announced, those that were answered and those to install agree.
LEMMA BatchStep ==
    ASSUME SceneInv, [Next]_vars
    PROVE  BatchKept'
<1> USE SceneApplyAssumption
    DEF controllerVars, tableVars, flagVars, ackVars, gazeboVars, SceneInv, Take,
        TypeOK, StaleGone, BatchKept, ModelsApart, UnansweredKnown, Replacing, Own,
        Answered, Occupied, Stale, Additions, Wanted, NamesOf, Ground, Names, None,
        NoCommand, NoScene, Commands, Models
<1>1. ASSUME NEW c \in Commands, Refuse(c) PROVE BatchKept'
  BY <1>1 DEF Refuse, Fail
<1>2. ASSUME NEW c \in Commands, Repeat(c) PROVE BatchKept'
  BY <1>2 DEF Repeat
<1>3. ASSUME NEW c \in Commands, Suspend(c) PROVE BatchKept'
  BY <1>3 DEF Suspend
<1>4. CASE Precheck
  BY <1>4 DEF Precheck, Fail
<1>5. ASSUME NEW stuck \in BOOLEAN, RemoveStale(stuck) PROVE BatchKept'
  BY <1>5 DEF RemoveStale, Fail
<1>6. CASE BatchEmpty
  BY <1>6 DEF BatchEmpty, InstallNext
<1>7. CASE BatchRefused
  BY <1>7 DEF BatchRefused, Fail
<1>8. CASE BatchAnnounce
  BY <1>8 DEF BatchAnnounce
<1>9. CASE BatchInsert
  BY <1>9 DEF BatchInsert
<1>10. CASE WaitCompletes
  BY <1>10 DEF WaitCompletes, InstallNext
<1>11. CASE WaitGivesUp
  BY <1>11 DEF WaitGivesUp
<1>12. CASE Withdraw
  BY <1>12 DEF Withdraw, Fail
<1>13. CASE WaitStops
  BY <1>13 DEF WaitStops, Fail
<1>14. ASSUME NEW n \in Names, NEW verified \in BOOLEAN, Install(n, verified)
      PROVE  BatchKept'
  BY <1>14 DEF Install, IsNext, Fail
<1>15. CASE Commit
  BY <1>15 DEF Commit
<1>16. CASE Sweep
  BY <1>16 DEF Sweep, EndCommand
<1>17. ASSUME NEW m \in queued, Arrive(m) PROVE BatchKept'
  BY <1>17 DEF Arrive, Acknowledge
<1>18. CASE Cancel
  BY <1>18 DEF Cancel
<1>19. CASE Expire
  BY <1>19 DEF Expire
<1>20. CASE Stop
  BY <1>20 DEF Stop
<1>21. ASSUME NEW count \in 0..NumEntities, NEW taken \in BOOLEAN, OthersChange(count, taken)
      PROVE  BatchKept'
  BY <1>21 DEF OthersChange
<1>22. CASE UNCHANGED vars
  BY <1>22 DEF vars
<1> HIDE DEF SceneInv, TypeOK, FencePassed, ModelsApart, StaleGone, BatchKept,
             UnansweredKnown, NoOrphan, AppliedIsWhole
<1>23. QED
  BY <1>1, <1>2, <1>3, <1>4, <1>5, <1>6, <1>7, <1>8, <1>9, <1>10, <1>11, <1>12, <1>13,
     <1>14, <1>15, <1>16, <1>17, <1>18, <1>19, <1>20, <1>21, <1>22
     DEF Next, Worker

\* An unanswered insertion is awaited or abandoned, also when its application gives up.
LEMMA UnansweredStep ==
    ASSUME SceneInv, [Next]_vars
    PROVE  UnansweredKnown'
<1> USE SceneApplyAssumption
    DEF controllerVars, tableVars, flagVars, ackVars, gazeboVars, SceneInv, Take,
        TypeOK, BatchKept, ModelsApart, UnansweredKnown, Own, Answered, NamesOf, None
<1>1. ASSUME NEW c \in Commands, Refuse(c) PROVE UnansweredKnown'
  BY <1>1 DEF Refuse, Fail
<1>2. ASSUME NEW c \in Commands, Repeat(c) PROVE UnansweredKnown'
  BY <1>2 DEF Repeat
<1>3. ASSUME NEW c \in Commands, Suspend(c) PROVE UnansweredKnown'
  BY <1>3 DEF Suspend
<1>4. CASE Precheck
  BY <1>4 DEF Precheck, Fail
<1>5. ASSUME NEW stuck \in BOOLEAN, RemoveStale(stuck) PROVE UnansweredKnown'
  BY <1>5 DEF RemoveStale, Fail
<1>6. CASE BatchEmpty
  BY <1>6 DEF BatchEmpty, InstallNext
<1>7. CASE BatchRefused
  BY <1>7 DEF BatchRefused, Fail
<1>8. CASE BatchAnnounce
  BY <1>8 DEF BatchAnnounce
<1>9. CASE BatchInsert
  BY <1>9 DEF BatchInsert
<1>10. CASE WaitCompletes
  BY <1>10 DEF WaitCompletes, InstallNext
<1>11. CASE WaitGivesUp
  BY <1>11 DEF WaitGivesUp
<1>12. CASE Withdraw
  BY <1>12 DEF Withdraw, Fail
<1>13. CASE WaitStops
  BY <1>13 DEF WaitStops, Fail
<1>14. ASSUME NEW n \in Names, NEW verified \in BOOLEAN, Install(n, verified)
      PROVE  UnansweredKnown'
  BY <1>14 DEF Install, IsNext, Fail
<1>15. CASE Commit
  BY <1>15 DEF Commit
<1>16. CASE Sweep
  BY <1>16 DEF Sweep, EndCommand
<1>17. ASSUME NEW m \in queued, Arrive(m) PROVE UnansweredKnown'
  BY <1>17 DEF Arrive, Acknowledge
<1>18. CASE Cancel
  BY <1>18 DEF Cancel
<1>19. CASE Expire
  BY <1>19 DEF Expire
<1>20. CASE Stop
  BY <1>20 DEF Stop
<1>21. ASSUME NEW count \in 0..NumEntities, NEW taken \in BOOLEAN, OthersChange(count, taken)
      PROVE  UnansweredKnown'
  BY <1>21 DEF OthersChange
<1>22. CASE UNCHANGED vars
  BY <1>22 DEF vars
<1> HIDE DEF SceneInv, TypeOK, FencePassed, ModelsApart, StaleGone, BatchKept,
             UnansweredKnown, NoOrphan, AppliedIsWhole
<1>23. QED
  BY <1>1, <1>2, <1>3, <1>4, <1>5, <1>6, <1>7, <1>8, <1>9, <1>10, <1>11, <1>12, <1>13,
     <1>14, <1>15, <1>16, <1>17, <1>18, <1>19, <1>20, <1>21, <1>22
     DEF Next, Worker

\* No step of a running world leaves a scene model without a purpose.
LEMMA OrphanStep ==
    ASSUME SceneInv, [Next]_vars
    PROVE  NoOrphan'
<1> USE SceneApplyAssumption
    DEF controllerVars, tableVars, flagVars, ackVars, gazeboVars, SceneInv, Take,
        TypeOK, BatchKept, ModelsApart, UnansweredKnown, NoOrphan, Occupied, Stale,
        NamesOf, None
<1>1. ASSUME NEW c \in Commands, Refuse(c) PROVE NoOrphan'
  BY <1>1 DEF Refuse, Fail
<1>2. ASSUME NEW c \in Commands, Repeat(c) PROVE NoOrphan'
  BY <1>2 DEF Repeat
<1>3. ASSUME NEW c \in Commands, Suspend(c) PROVE NoOrphan'
  BY <1>3 DEF Suspend
<1>4. CASE Precheck
  BY <1>4 DEF Precheck, Fail
<1>5. ASSUME NEW stuck \in BOOLEAN, RemoveStale(stuck) PROVE NoOrphan'
  BY <1>5 DEF RemoveStale, Fail
<1>6. CASE BatchEmpty
  BY <1>6 DEF BatchEmpty, InstallNext
<1>7. CASE BatchRefused
  BY <1>7 DEF BatchRefused, Fail
<1>8. CASE BatchAnnounce
  BY <1>8 DEF BatchAnnounce
<1>9. CASE BatchInsert
  BY <1>9 DEF BatchInsert
<1>10. CASE WaitCompletes
  BY <1>10 DEF WaitCompletes, InstallNext
<1>11. CASE WaitGivesUp
  BY <1>11 DEF WaitGivesUp
<1>12. CASE Withdraw
  BY <1>12 DEF Withdraw, Fail
<1>13. CASE WaitStops
  BY <1>13 DEF WaitStops, Fail
<1>14. ASSUME NEW n \in Names, NEW verified \in BOOLEAN, Install(n, verified) PROVE NoOrphan'
  <2>1. world' = world /\ ready' = ready /\ stopping' = stopping /\ n \in todo
    BY <1>14 DEF Install, IsNext
  <2>2. CASE n \in Occupied
    <3>1. entity' = entity
      BY <1>14, <2>2 DEF Install
    <3>2. got \subseteq got' \cup leftover' /\ leftover \subseteq leftover'
      BY <1>14, <2>2 DEF Install
    <3>3. QED
      BY <2>1, <3>1, <3>2
  <2>3. CASE n \notin Occupied
    <3> DEFINE chosen == CHOOSE m \in got : m.name = n
    <3>1. chosen \in got /\ chosen.name = n
      BY <1>14, <2>3 DEF Install, IsNext
    <3>2. entity' = [entity EXCEPT ![n] = chosen]
      BY <1>14, <2>3 DEF Install
    <3>3. \A m \in got : m.name = n => m = chosen
      BY <3>1
    <3>4. got \subseteq got' \cup leftover' \cup {chosen} /\ leftover \subseteq leftover'
      BY <1>14, <2>3, <3>3 DEF Install
    <3>5. chosen # None
      BY <3>1 DEF Names
    <3> HIDE DEF chosen
    <3>6. /\ n \in Names /\ entity'[n] = chosen
          /\ \A k \in Occupied : entity'[k] = entity[k]
      BY <2>3, <3>2
    <3>7. QED
      BY <2>1, <3>4, <3>5, <3>6
  <2>4. QED
    BY <2>2, <2>3
<1>15. CASE Commit
  BY <1>15 DEF Commit
<1>16. CASE Sweep
  BY <1>16 DEF Sweep, EndCommand
<1>17. ASSUME NEW m \in queued, Arrive(m) PROVE NoOrphan'
  BY <1>17 DEF Arrive, Acknowledge
<1>18. CASE Cancel
  BY <1>18 DEF Cancel
<1>19. CASE Expire
  BY <1>19 DEF Expire
<1>20. CASE Stop
  BY <1>20 DEF Stop
<1>21. ASSUME NEW count \in 0..NumEntities, NEW taken \in BOOLEAN, OthersChange(count, taken)
      PROVE  NoOrphan'
  BY <1>21 DEF OthersChange
<1>22. CASE UNCHANGED vars
  BY <1>22 DEF vars
<1> HIDE DEF SceneInv, TypeOK, FencePassed, ModelsApart, StaleGone, BatchKept,
             UnansweredKnown, NoOrphan, AppliedIsWhole
<1>23. QED
  BY <1>1, <1>2, <1>3, <1>4, <1>5, <1>6, <1>7, <1>8, <1>9, <1>10, <1>11, <1>12, <1>13,
     <1>14, <1>15, <1>16, <1>17, <1>18, <1>19, <1>20, <1>21, <1>22
     DEF Next, Worker

\* The scene that was applied stays the physical one until an application suspends it.
LEMMA AppliedStep ==
    ASSUME SceneInv, [Next]_vars
    PROVE  AppliedIsWhole'
<1> USE SceneApplyAssumption
    DEF controllerVars, tableVars, flagVars, ackVars, gazeboVars, SceneInv, Take,
        TypeOK, BatchKept, ModelsApart, StaleGone, FencePassed, AppliedIsWhole,
        Replacing, Applying, Occupied, Stale, Additions, Wanted, NamesOf, Ground, Names,
        None, NoCommand, NoScene, Commands, Models
<1>1. ASSUME NEW c \in Commands, Refuse(c) PROVE AppliedIsWhole'
  BY <1>1 DEF Refuse, Fail
<1>2. ASSUME NEW c \in Commands, Repeat(c) PROVE AppliedIsWhole'
  BY <1>2 DEF Repeat
<1>3. ASSUME NEW c \in Commands, Suspend(c) PROVE AppliedIsWhole'
  BY <1>3 DEF Suspend
<1>4. CASE Precheck
  BY <1>4 DEF Precheck, Fail
<1>5. ASSUME NEW stuck \in BOOLEAN, RemoveStale(stuck) PROVE AppliedIsWhole'
  BY <1>5 DEF RemoveStale, Fail
<1>6. CASE BatchEmpty
  BY <1>6 DEF BatchEmpty, InstallNext
<1>7. CASE BatchRefused
  BY <1>7 DEF BatchRefused, Fail
<1>8. CASE BatchAnnounce
  BY <1>8 DEF BatchAnnounce
<1>9. CASE BatchInsert
  BY <1>9 DEF BatchInsert
<1>10. CASE WaitCompletes
  BY <1>10 DEF WaitCompletes, InstallNext
<1>11. CASE WaitGivesUp
  BY <1>11 DEF WaitGivesUp
<1>12. CASE Withdraw
  BY <1>12 DEF Withdraw, Fail
<1>13. CASE WaitStops
  BY <1>13 DEF WaitStops, Fail
<1>14. ASSUME NEW n \in Names, NEW verified \in BOOLEAN, Install(n, verified)
      PROVE  AppliedIsWhole'
  BY <1>14 DEF Install, IsNext, Fail
<1>15. CASE Commit
  BY <1>15 DEF Commit
<1>16. CASE Sweep
  BY <1>16 DEF Sweep, EndCommand
<1>17. ASSUME NEW m \in queued, Arrive(m) PROVE AppliedIsWhole'
  BY <1>17 DEF Arrive, Acknowledge
<1>18. CASE Cancel
  BY <1>18 DEF Cancel
<1>19. CASE Expire
  BY <1>19 DEF Expire
<1>20. CASE Stop
  BY <1>20 DEF Stop
<1>21. ASSUME NEW count \in 0..NumEntities, NEW taken \in BOOLEAN, OthersChange(count, taken)
      PROVE  AppliedIsWhole'
  <2>1. UNCHANGED <<suspended, epoch, scene, moved, entity, world>>
    BY <1>21 DEF OthersChange
  <2>2. QED
    BY <2>1
<1>22. CASE UNCHANGED vars
  <2>1. UNCHANGED <<suspended, epoch, scene, moved, entity, world>>
    BY <1>22 DEF vars
  <2>2. QED
    BY <2>1
<1> HIDE DEF SceneInv, TypeOK, FencePassed, ModelsApart, StaleGone, BatchKept,
             UnansweredKnown, NoOrphan, AppliedIsWhole
<1>23. QED
  BY <1>1, <1>2, <1>3, <1>4, <1>5, <1>6, <1>7, <1>8, <1>9, <1>10, <1>11, <1>12, <1>13,
     <1>14, <1>15, <1>16, <1>17, <1>18, <1>19, <1>20, <1>21, <1>22
     DEF Next, Worker

\* A world without a scene satisfies the invariant.
LEMMA InitScene == Init => SceneInv
<1> SUFFICES ASSUME Init PROVE SceneInv
  OBVIOUS
<1>1. TypeOK
  <2>1. /\ scene \in [Names -> Bodies \cup {NoBody}]
        /\ entity \in [Names -> Models \cup {None}]
    BY DEF Init, NoScene
  <2>2. revision \in 0..MaxRevision /\ others \in 0..NumEntities /\ try \in 0..MaxTries
    BY SceneApplyAssumption DEF Init
  <2>3. QED
    BY <2>1, <2>2 DEF Init, TypeOK
<1>2. Occupied = {}
  BY DEF Init, Occupied
<1>3. FencePassed /\ ModelsApart /\ StaleGone /\ BatchKept
  BY <1>2 DEF Init, FencePassed, ModelsApart, StaleGone, BatchKept, Applying, Replacing
<1>4. UnansweredKnown /\ NoOrphan /\ AppliedIsWhole
  BY DEF Init, UnansweredKnown, NoOrphan, AppliedIsWhole
<1>5. QED
  BY <1>1, <1>3, <1>4 DEF SceneInv

\* The invariant holds in every reachable state.
THEOREM SceneInductive == Spec => []SceneInv
<1>1. Init => SceneInv
  BY InitScene
<1>2. SceneInv /\ [Next]_vars => SceneInv'
  <2>1. SUFFICES ASSUME SceneInv, [Next]_vars PROVE SceneInv'
    OBVIOUS
  <2>2. TypeOK' /\ FencePassed' /\ ModelsApart' /\ StaleGone'
    BY <2>1, TypeStep, FenceStep, ModelsStep, StaleStep
  <2>3. BatchKept' /\ UnansweredKnown' /\ NoOrphan' /\ AppliedIsWhole'
    BY <2>1, BatchStep, UnansweredStep, OrphanStep, AppliedStep
  <2>4. QED
    BY <2>2, <2>3 DEF SceneInv
<1>3. QED
  BY <1>1, <1>2, PTL DEF Spec

\* The controller, the table and the world keep their types.
THEOREM SceneTypes == Spec => []TypeOK
<1>1. SceneInv => TypeOK
  BY DEF SceneInv
<1>2. QED
  BY SceneInductive, <1>1, PTL

\* A scene that the controller reports as applied is the physical one.
THEOREM AppliedScenesAreWhole == Spec => []AppliedIsWhole
<1>1. SceneInv => AppliedIsWhole
  BY DEF SceneInv
<1>2. QED
  BY SceneInductive, <1>1, PTL

\* No application takes the late answer to an earlier insertion for its own.
THEOREM AnswersAreOwn == Spec => []AwaitedIsOwn
<1>1. SceneInv => AwaitedIsOwn
  BY DEF SceneInv, BatchKept, Own, AwaitedIsOwn
<1>2. QED
  BY SceneInductive, <1>1, PTL

\* A failed application loses no model that Gazebo inserts after it, and no later scene
\* contains such a model: an entity of its name would be that model itself, because
\* models of the world have different names.
THEOREM NoModelIsLost == Spec => []LateIsAccounted
<1>1. SceneInv => LateIsApart
  <2> SUFFICES ASSUME SceneInv, ~stopping, NEW m \in ready
               PROVE  /\ m.name \in abandoned \ (pending \cup NamesOf(got))
                      /\ entity[m.name] = None
    BY DEF LateIsApart
  <2>1. m \in world /\ m.name \in abandoned /\ m.name \in Names
    BY DEF SceneInv, ModelsApart, UnansweredKnown, TypeOK, Models
  <2>2. m.name \notin pending
    BY <2>1 DEF SceneInv, BatchKept, UnansweredKnown
  <2>3. m.name \notin NamesOf(got)
    BY <2>1 DEF SceneInv, ModelsApart, NamesOf
  <2>4. entity[m.name] = None
    BY <2>1 DEF SceneInv, ModelsApart, Occupied
  <2>5. QED
    BY <2>1, <2>2, <2>3, <2>4
<1>2. SceneInv => NoOrphan
  BY DEF SceneInv
<1>3. QED
  BY SceneInductive, <1>1, <1>2, PTL DEF LateIsAccounted

\* The wanted names are finitely many.
LEMMA WantedCounted == Cardinality(Wanted) \in Nat
<1>1. IsFiniteSet(Names)
  BY FS_Interval, SceneApplyAssumption DEF Names, Ground
<1>2. IsFiniteSet(Wanted)
  BY <1>1, FS_Subset DEF Wanted
<1>3. QED
  BY <1>2, FS_CardinalityType

\* The one check of the table's size, before the removals, covers every installation.
THEOREM InstallationsFit == Spec => []InstallFits
<1>1. SceneInv => InstallFits
  <2>1. SUFFICES ASSUME SceneInv, worker \in {"batch", "insert", "wait", "install"}
                 PROVE  Cardinality(Occupied \cup Wanted) + others <= NumEntities
    BY DEF InstallFits
  <2>2. ~TooMany /\ \A n \in Occupied : entity[n].body = cmd.scene[n]
    BY <2>1 DEF SceneInv, StaleGone, Replacing
  <2>3. Occupied \subseteq Wanted
    <3>1. \A n \in Occupied : entity[n] \in Models
      BY <2>1 DEF SceneInv, TypeOK, Occupied
    <3>2. \A n \in Occupied : entity[n].body \in Bodies
      BY <3>1 DEF Models
    <3>3. QED
      BY <2>2, <3>2, SceneApplyAssumption DEF Occupied, Wanted
  <2>4. Occupied \cup Wanted = Wanted
    BY <2>3
  <2>5. others \in Int /\ NumEntities \in Nat
    BY <2>1, SceneApplyAssumption DEF SceneInv, TypeOK
  <2>6. Cardinality(Wanted) + others <= NumEntities
    BY <2>2, <2>5, WantedCounted DEF TooMany
  <2>7. QED
    BY <2>4, <2>6
<1>2. QED
  BY SceneInductive, <1>1, PTL

\* The fence holds although it is tested and moved in two critical sections.
THEOREM EpochsAreFenced == Spec => EpochFence
<1> DEFINE Step ==
        /\ epoch' # epoch => epoch' \notin retired' /\ (epoch = NoEpoch \/ epoch \in retired')
        /\ epoch' = epoch => revision' >= revision
        /\ <<epoch', revision'>> = <<epoch, revision>> => scene' = scene
        /\ retired \subseteq retired'
<1>1. SceneInv /\ [Next]_vars => Step
  <2> SUFFICES ASSUME SceneInv, [Next]_vars PROVE Step
    OBVIOUS
  <2>1. CASE Commit
    BY <2>1, SceneApplyAssumption
       DEF Commit, SceneInv, TypeOK, FencePassed, Applying, Replacing, Refused, Commands
  <2>2. CASE UNCHANGED <<epoch, revision, scene, retired>>
    BY <2>2 DEF SceneInv, TypeOK
  <2> HIDE DEF Step
  <2>3. QED
    BY <2>1, <2>2
       DEF Next, Worker, vars, controllerVars, Refuse, Repeat, Suspend, Precheck, RemoveStale,
           BatchEmpty, BatchRefused, BatchAnnounce, BatchInsert, WaitCompletes, WaitGivesUp,
           Withdraw, WaitStops, Install, Sweep, Arrive, Cancel, Expire, Stop, OthersChange
<1>2. SceneInv /\ [Next]_vars => [Step]_vars
  BY <1>1
<1>3. QED
  BY SceneInductive, <1>2, PTL DEF Spec, EpochFence

\* An application keeps to its own answers and to the size of the table.
THEOREM BatchIsConsistent == Spec => []BatchAgrees
  BY SceneTypes, AnswersAreOwn, InstallationsFit, PTL DEF BatchAgrees

-------------------------------------------------------------------------------
(***************************************************************************)
(* Sequences that are flattened.                                           *)
(***************************************************************************)
\* A set of numbers has a least one: the induction that the proofs below use.
LEMMA LeastNumber ==
    ASSUME NEW T \in SUBSET Nat, T # {}
    PROVE  \E m \in T : \A k \in T : m <= k
<1>1. PICK m \in T : \A k \in T : ~(<<k, m>> \in OpToRel(<, Nat))
  <2> HIDE DEF OpToRel
  <2>1. QED
    BY NatLessThanWellFounded, WFMin
<1>2. \A k \in T : ~(k < m)
  BY <1>1 DEF OpToRel
<1>3. QED
  BY <1>2

\* What holds of one, and of the next number with each, holds of all up to a bound.
LEMMA UpTo ==
    ASSUME NEW n \in Nat, NEW T \in SUBSET (1..n), 1 \in T,
           \A i \in 1..n : i \in T /\ i < n => i + 1 \in T
    PROVE  T = 1..n
<1> SUFFICES ASSUME (1..n) \ T # {} PROVE FALSE
  OBVIOUS
<1> DEFINE rest == (1..n) \ T
<1>0. rest \in SUBSET Nat /\ rest # {}
  OBVIOUS
<1> HIDE DEF rest
<1>1. PICK m \in rest : \A k \in rest : m <= k
  BY <1>0, LeastNumber
<1> USE DEF rest
<1>2. m \in 1..n /\ m \notin T /\ m # 1
  OBVIOUS
<1>3. m - 1 \in 1..n /\ m - 1 < n /\ (m - 1) + 1 = m
  BY <1>2
<1>4. m - 1 \in T
  BY <1>1, <1>3
<1>5. QED
  BY <1>2, <1>3, <1>4

\* The recursion of FlattenSeq defines a function.
LEMMA Flattening ==
    ASSUME NEW S, NEW seqs \in Seq(Seq(S)), seqs # <<>>
    PROVE  \E f \in [1..Len(seqs) -> Seq(S)] :
              /\ f[1] = seqs[1] /\ \A i \in 2..Len(seqs) : f[i] = f[i - 1] \o seqs[i]
              /\ FlattenSeq(seqs) = f[Len(seqs)]
<1> DEFINE n == Len(seqs)
           Def(g, i) == IF i = 1 THEN seqs[i] ELSE g[i - 1] \o seqs[i]
           Good(k) == \E f : f = [i \in 1..k |-> Def(f, i)]
           T == {k \in 1..n : Good(k)}
<1>1. n \in Nat \ {0} /\ 1 \in 1..n /\ \A i \in 1..n : seqs[i] \in Seq(S)
  OBVIOUS
<1>2. 1 \in T
  <2> DEFINE g == [i \in 1..1 |-> seqs[1]]
  <2>1. g = [i \in 1..1 |-> Def(g, i)]
    OBVIOUS
  <2>2. QED
    BY <1>1, <2>1
<1>3. ASSUME NEW k \in 1..n, k \in T, k < n PROVE k + 1 \in T
  <2>1. PICK f : f = [i \in 1..k |-> Def(f, i)]
    BY <1>3
  <2> DEFINE g == [i \in 1..(k + 1) |-> IF i = k + 1 THEN f[k] \o seqs[k + 1] ELSE f[i]]
  <2>2. \A i \in 1..(k + 1) : g[i] = Def(g, i)
    <3> TAKE i \in 1..(k + 1)
    <3>1. CASE i = k + 1
      <4>1. i # 1 /\ i - 1 = k /\ k \in 1..(k + 1) /\ k # k + 1
        BY <3>1
      <4>2. g[i] = f[k] \o seqs[k + 1] /\ g[k] = f[k]
        BY <3>1, <4>1
      <4> HIDE DEF g
      <4>3. g[i - 1] = f[k] /\ seqs[i] = seqs[k + 1]
        BY <3>1, <4>1, <4>2
      <4>4. g[i] = g[i - 1] \o seqs[i]
        BY <4>2, <4>3
      <4>5. QED
        BY <4>1, <4>4
    <3>2. CASE i # k + 1
      <4>1. i \in 1..k /\ g[i] = f[i] /\ f[i] = Def(f, i)
        <5>1. i \in 1..k
          BY <3>2
        <5>2. g[i] = f[i]
          BY <3>2
        <5> HIDE DEF g
        <5>3. f[i] = Def(f, i)
          BY <2>1, <5>1
        <5>4. QED
          BY <5>1, <5>2, <5>3
      <4>2. i # 1 => i - 1 \in 1..(k + 1) /\ i - 1 # k + 1
        BY <4>1
      <4>3. i # 1 => g[i - 1] = f[i - 1]
        BY <4>2
      <4> HIDE DEF g
      <4>4. CASE i = 1
        BY <4>1, <4>4
      <4>5. CASE i # 1
        <5>1. f[i] = f[i - 1] \o seqs[i]
          BY <4>1, <4>5
        <5>2. g[i] = g[i - 1] \o seqs[i]
          BY <4>1, <4>3, <4>5, <5>1
        <5>3. QED
          BY <4>5, <5>2
      <4>6. QED
        BY <4>4, <4>5
    <3>3. QED
      BY <3>1, <3>2
  <2>3. g = [i \in 1..(k + 1) |-> Def(g, i)]
    BY <2>2
  <2>4. k + 1 \in 1..n
    BY <1>3
  <2>5. QED
    BY <2>3, <2>4
<1>4. T = 1..n
  <2> HIDE DEF T
  <2>1. T \in SUBSET (1..n)
    BY DEF T
  <2>2. QED
    BY <1>1, <1>2, <1>3, <2>1, UpTo
<1>5. Good(n)
  <2>1. n \in T
    <3> HIDE DEF T
    <3>1. QED
      BY <1>1, <1>4
  <2>2. QED
    BY <2>1
<1> DEFINE flatten == CHOOSE f : f = [i \in 1..n |-> Def(f, i)]
<1>6. flatten = [i \in 1..n |-> Def(flatten, i)]
  BY <1>5
<1>7. FlattenSeq(seqs) = flatten[n]
  BY <1>1 DEF FlattenSeq
<1> HIDE DEF flatten, T, Good
<1>8. \A i \in 1..n : flatten[i] = Def(flatten, i)
  BY <1>6
<1>9. /\ DOMAIN flatten = 1..n /\ flatten[1] = seqs[1]
      /\ \A i \in 2..n : flatten[i] = flatten[i - 1] \o seqs[i]
  <2>1. DOMAIN flatten = 1..n
    BY <1>6
  <2>2. \A i \in 2..n : i \in 1..n /\ i # 1
    BY <1>1
  <2>3. QED
    BY <1>1, <1>8, <2>1, <2>2
<1>10. \A i \in 1..n : flatten[i] \in Seq(S)
  <2> DEFINE U == {i \in 1..n : flatten[i] \in Seq(S)}
  <2>1. 1 \in U
    BY <1>1, <1>9
  <2>2. ASSUME NEW i \in 1..n, i \in U, i < n PROVE i + 1 \in U
    <3>1. i + 1 \in 2..n /\ i + 1 \in 1..n /\ (i + 1) - 1 = i
      BY <2>2, <1>1
    <3>2. flatten[i + 1] = flatten[i] \o seqs[i + 1]
      BY <1>9, <3>1
    <3>3. flatten[i] \in Seq(S) /\ seqs[i + 1] \in Seq(S)
      BY <1>1, <2>2, <3>1
    <3>4. flatten[i] \o seqs[i + 1] \in Seq(S)
      BY <3>3
    <3>5. QED
      BY <3>1, <3>2, <3>4
  <2>3. U \in SUBSET (1..n)
    OBVIOUS
  <2>4. U = 1..n
    <3> HIDE DEF U
    <3>1. QED
      BY <1>1, <2>1, <2>2, <2>3, UpTo
  <2>5. QED
    BY <2>4
<1>11. flatten \in [1..n -> Seq(S)]
  <2>1. flatten = [i \in 1..n |-> flatten[i]]
    BY <1>6
  <2>2. QED
    BY <1>10, <2>1
<1>12. QED
  BY <1>7, <1>9, <1>11

\* The elements of two sequences that are joined.
LEMMA Joined ==
    ASSUME NEW S, NEW a \in Seq(S), NEW b \in Seq(S)
    PROVE  /\ a \o b \in Seq(S) /\ Len(a \o b) = Len(a) + Len(b)
           /\ DOMAIN (a \o b) = 1..(Len(a) + Len(b))
           /\ \A j \in DOMAIN a : (a \o b)[j] = a[j]
           /\ \A j \in DOMAIN b : (a \o b)[Len(a) + j] = b[j]
           /\ ToSet(a \o b) = ToSet(a) \cup ToSet(b)
<1> DEFINE c == a \o b
<1>1. /\ Len(a) \in Nat /\ Len(b) \in Nat
      /\ DOMAIN a = 1..Len(a) /\ DOMAIN b = 1..Len(b)
  OBVIOUS
<1>2. c \in Seq(S)
  OBVIOUS
<1>3. Len(c) = Len(a) + Len(b)
  OBVIOUS
<1>4. ASSUME NEW j \in 1..Len(a) PROVE c[j] = a[j]
  OBVIOUS
<1>5. ASSUME NEW j \in 1..Len(b) PROVE c[Len(a) + j] = b[j]
  OBVIOUS
<1>6. DOMAIN c = 1..(Len(a) + Len(b))
  BY <1>2, <1>3
<1> HIDE DEF c
<1>7. ASSUME NEW j \in DOMAIN c PROVE c[j] \in ToSet(a) \cup ToSet(b)
  <2>1. CASE j <= Len(a)
    <3>1. j \in 1..Len(a) /\ c[j] = a[j]
      BY <1>1, <1>4, <1>6, <2>1
    <3>2. QED
      BY <1>1, <3>1 DEF ToSet
  <2>2. CASE ~(j <= Len(a))
    <3>1. j - Len(a) \in 1..Len(b) /\ Len(a) + (j - Len(a)) = j
      BY <1>1, <1>6, <2>2
    <3>2. c[j] = b[j - Len(a)]
      BY <1>5, <3>1
    <3>3. QED
      BY <1>1, <3>1, <3>2 DEF ToSet
  <2>3. QED
    BY <2>1, <2>2
<1>8. ASSUME NEW j \in DOMAIN a PROVE a[j] \in ToSet(c)
  BY <1>1, <1>4, <1>6 DEF ToSet
<1>9. ASSUME NEW j \in DOMAIN b PROVE b[j] \in ToSet(c)
  <2>1. Len(a) + j \in DOMAIN c /\ c[Len(a) + j] = b[j]
    BY <1>1, <1>5, <1>6
  <2>2. QED
    BY <2>1 DEF ToSet
<1>10. ToSet(c) = ToSet(a) \cup ToSet(b)
  BY <1>7, <1>8, <1>9 DEF ToSet
<1>11. QED
  BY <1>1, <1>2, <1>3, <1>4, <1>5, <1>6, <1>10 DEF c

\* What the sequences that FlattenSeq builds up on its way hold.
LEMMA Growing ==
    ASSUME NEW S, NEW seqs \in Seq(Seq(S)), seqs # <<>>
    PROVE  \E f \in [1..Len(seqs) -> Seq(S)] :
              /\ f[1] = seqs[1] /\ \A i \in 2..Len(seqs) : f[i] = f[i - 1] \o seqs[i]
              /\ \A i \in 1..Len(seqs) : \A x : x \in ToSet(f[i]) <=> \E j \in 1..i : x \in ToSet(seqs[j])
              /\ FlattenSeq(seqs) = f[Len(seqs)]
<1>1. PICK f \in [1..Len(seqs) -> Seq(S)] :
            /\ f[1] = seqs[1] /\ \A i \in 2..Len(seqs) : f[i] = f[i - 1] \o seqs[i]
            /\ FlattenSeq(seqs) = f[Len(seqs)]
  BY Flattening
<1> DEFINE n == Len(seqs)
           T == {i \in 1..n : \A x : x \in ToSet(f[i]) <=> \E j \in 1..i : x \in ToSet(seqs[j])}
<1>2. n \in Nat \ {0} /\ DOMAIN seqs = 1..n /\ \A i \in 1..n : seqs[i] \in Seq(S)
  OBVIOUS
<1>3. 1 \in T
  <2>1. \A j \in 1..1 : j = 1
    OBVIOUS
  <2>2. f[1] = seqs[1] /\ 1 \in 1..1 /\ 1 \in 1..n
    BY <1>1, <1>2
  <2>3. QED
    BY <2>1, <2>2
<1>4. ASSUME NEW i \in 1..n, i \in T, i < n PROVE i + 1 \in T
  <2>1. i + 1 \in 2..n /\ i + 1 \in 1..n /\ (i + 1) - 1 = i
    BY <1>2, <1>4
  <2>2. f[i + 1] = f[i] \o seqs[i + 1]
    BY <1>1, <2>1
  <2>3. f[i] \in Seq(S) /\ seqs[i + 1] \in Seq(S)
    BY <1>1, <1>2, <2>1
  <2>4. ToSet(f[i + 1]) = ToSet(f[i]) \cup ToSet(seqs[i + 1])
    BY <2>2, <2>3, Joined
  <2>5. \A j : j \in 1..(i + 1) <=> j \in 1..i \/ j = i + 1
    BY <2>1
  <2>6. \A x : x \in ToSet(f[i]) <=> \E j \in 1..i : x \in ToSet(seqs[j])
    BY <1>4
  <2>7. \A x : x \in ToSet(f[i + 1]) <=> \E j \in 1..(i + 1) : x \in ToSet(seqs[j])
    BY <2>4, <2>5, <2>6
  <2>8. QED
    BY <2>1, <2>7
<1>5. T = 1..n
  <2>1. T \in SUBSET (1..n)
    OBVIOUS
  <2> HIDE DEF T
  <2>2. QED
    BY <1>2, <1>3, <1>4, <2>1, UpTo
<1>6. \A i \in 1..n : \A x : x \in ToSet(f[i]) <=> \E j \in 1..i : x \in ToSet(seqs[j])
  BY <1>5
<1> HIDE DEF T
<1>7. /\ f[1] = seqs[1] /\ \A i \in 2..Len(seqs) : f[i] = f[i - 1] \o seqs[i]
      /\ \A i \in 1..Len(seqs) : \A x : x \in ToSet(f[i]) <=> \E j \in 1..i : x \in ToSet(seqs[j])
      /\ FlattenSeq(seqs) = f[Len(seqs)]
  BY <1>1, <1>6, Zenon
<1>8. QED
  <2> WITNESS f \in [1..Len(seqs) -> Seq(S)]
  <2>1. QED
    BY <1>7, Zenon

\* The elements of a sequence of sequences.
LEMMA Flattened ==
    ASSUME NEW S, NEW seqs \in Seq(Seq(S))
    PROVE  /\ FlattenSeq(seqs) \in Seq(S)
           /\ \A x : x \in ToSet(FlattenSeq(seqs)) <=> \E i \in DOMAIN seqs : x \in ToSet(seqs[i])
<1>1. CASE seqs = <<>>
  <2>1. Len(seqs) = 0 /\ DOMAIN seqs = {} /\ FlattenSeq(seqs) = <<>>
    BY <1>1 DEF FlattenSeq
  <2>2. ToSet(<<>>) = {}
    BY DEF ToSet
  <2>3. QED
    BY <2>1, <2>2
<1>2. CASE seqs # <<>>
  <2>1. PICK f \in [1..Len(seqs) -> Seq(S)] :
              /\ \A i \in 1..Len(seqs) : \A x : x \in ToSet(f[i]) <=> \E j \in 1..i : x \in ToSet(seqs[j])
              /\ FlattenSeq(seqs) = f[Len(seqs)]
    BY <1>2, Growing, Zenon
  <2>2. Len(seqs) \in 1..Len(seqs) /\ DOMAIN seqs = 1..Len(seqs)
    BY <1>2
  <2>3. QED
    BY <2>1, <2>2
<1>3. QED
  BY <1>1, <1>2

\* A function of the elements that tells apart those of all the parts tells apart those of
\* the flattened sequence.
Distinct(key, s) == \A a, b \in DOMAIN s : key[s[a]] = key[s[b]] => a = b
AllDistinct(key, seqs) ==
    \A i, j \in DOMAIN seqs : \A x \in DOMAIN seqs[i], y \in DOMAIN seqs[j] :
        key[seqs[i][x]] = key[seqs[j][y]] => i = j /\ x = y

\* Sequences whose elements differ in a mark, and that differ from each other in theirs, are
\* flattened to one whose elements differ.
LEMMA FlattenedApart ==
    ASSUME NEW S, NEW K, NEW key \in [S -> K], NEW seqs \in Seq(Seq(S)), seqs # <<>>,
           AllDistinct(key, seqs)
    PROVE  Distinct(key, FlattenSeq(seqs))
<1>1. PICK f \in [1..Len(seqs) -> Seq(S)] :
            /\ f[1] = seqs[1] /\ \A i \in 2..Len(seqs) : f[i] = f[i - 1] \o seqs[i]
            /\ \A i \in 1..Len(seqs) : \A x : x \in ToSet(f[i]) <=> \E j \in 1..i : x \in ToSet(seqs[j])
            /\ FlattenSeq(seqs) = f[Len(seqs)]
  BY Growing, Zenon
<1> DEFINE n == Len(seqs)
           T == {i \in 1..n : Distinct(key, f[i])}
<1>2. n \in Nat \ {0} /\ DOMAIN seqs = 1..n /\ \A i \in 1..n : seqs[i] \in Seq(S)
  OBVIOUS
<1>3. \A i \in 1..n : Distinct(key, seqs[i])
  BY <1>2 DEF Distinct, AllDistinct
<1>4. 1 \in T
  BY <1>1, <1>2, <1>3
<1>5. ASSUME NEW i \in 1..n, i \in T, i < n PROVE i + 1 \in T
  <2>1. i + 1 \in 2..n /\ i + 1 \in 1..n /\ (i + 1) - 1 = i
    BY <1>2, <1>5
  <2> DEFINE s == f[i]
             t == seqs[i + 1]
             u == f[i + 1]
  <2>2. u = s \o t /\ s \in Seq(S) /\ t \in Seq(S)
    BY <1>1, <1>2, <2>1
  <2>3. Distinct(key, s) /\ Distinct(key, t)
    BY <1>3, <1>5, <2>1
  <2>4. ASSUME NEW x \in DOMAIN s, NEW y \in DOMAIN t PROVE key[s[x]] # key[t[y]]
    <3>1. s[x] \in ToSet(s)
      BY DEF ToSet
    <3>2. PICK j \in 1..i : s[x] \in ToSet(seqs[j])
      BY <1>1, <3>1
    <3>3. PICK z \in DOMAIN seqs[j] : s[x] = seqs[j][z]
      BY <3>2 DEF ToSet
    <3>4. j \in DOMAIN seqs /\ i + 1 \in DOMAIN seqs /\ j # i + 1
      BY <1>2, <2>1, <3>2
    <3>5. QED
      BY <3>3, <3>4 DEF AllDistinct
  <2> HIDE DEF s, t, u
  <2>5. /\ DOMAIN s = 1..Len(s) /\ DOMAIN t = 1..Len(t) /\ Len(s) \in Nat /\ Len(t) \in Nat
        /\ DOMAIN u = 1..(Len(s) + Len(t))
        /\ \A j \in DOMAIN s : u[j] = s[j]
        /\ \A j \in DOMAIN t : u[Len(s) + j] = t[j]
    <3>1. DOMAIN s = 1..Len(s) /\ DOMAIN t = 1..Len(t) /\ Len(s) \in Nat /\ Len(t) \in Nat
      BY <2>2
    <3>2. QED
      BY <2>2, <3>1, Joined
  <2>6. ASSUME NEW a \in DOMAIN u
        PROVE  \/ a \in DOMAIN s /\ u[a] = s[a]
               \/ a - Len(s) \in DOMAIN t /\ u[a] = t[a - Len(s)]
    <3>1. CASE a <= Len(s)
      BY <2>5, <3>1
    <3>2. CASE ~(a <= Len(s))
      <4>1. a - Len(s) \in DOMAIN t /\ Len(s) + (a - Len(s)) = a
        BY <2>5, <3>2
      <4>2. QED
        BY <2>5, <4>1
    <3>3. QED
      BY <3>1, <3>2
  <2>7. ASSUME NEW a \in DOMAIN u, NEW b \in DOMAIN u, key[u[a]] = key[u[b]] PROVE a = b
    <3>1. a \in Int /\ b \in Int /\ Len(s) \in Int
      BY <2>5
    <3>2. CASE a \in DOMAIN s /\ u[a] = s[a] /\ b \in DOMAIN s /\ u[b] = s[b]
      BY <2>3, <2>7, <3>2 DEF Distinct
    <3>3. CASE a \in DOMAIN s /\ u[a] = s[a] /\ b - Len(s) \in DOMAIN t /\ u[b] = t[b - Len(s)]
      BY <2>4, <2>7, <3>3
    <3>4. CASE a - Len(s) \in DOMAIN t /\ u[a] = t[a - Len(s)] /\ b \in DOMAIN s /\ u[b] = s[b]
      BY <2>4, <2>7, <3>4
    <3>5. CASE /\ a - Len(s) \in DOMAIN t /\ u[a] = t[a - Len(s)]
               /\ b - Len(s) \in DOMAIN t /\ u[b] = t[b - Len(s)]
      <4>1. a - Len(s) = b - Len(s)
        BY <2>3, <2>7, <3>5 DEF Distinct
      <4>2. QED
        BY <3>1, <4>1
    <3>6. QED
      BY <2>6, <3>2, <3>3, <3>4, <3>5
  <2>8. QED
    BY <2>1, <2>7 DEF u, Distinct
<1>6. T = 1..n
  <2>1. T \in SUBSET (1..n)
    OBVIOUS
  <2> HIDE DEF T
  <2>2. QED
    BY <1>2, <1>4, <1>5, <2>1, UpTo
<1>7. Distinct(key, f[n])
  <2>1. n \in T
    <3> HIDE DEF T
    <3>1. QED
      BY <1>2, <1>6
  <2>2. QED
    BY <2>1
<1>8. QED
  BY <1>1, <1>7

-------------------------------------------------------------------------------
(***************************************************************************)
(* The collisions of one part, and distances.                              *)
(***************************************************************************)
Ends == {"whole", "shaft", "lower", "upper"}
CollisionNames == {"part"} \X STRING \X Ends
Collisions == [name : CollisionNames, pose : Int, geometry : Shape]

\* Squares of distances compare as the distances do.
LEMMA Squares ==
    /\ \A a, b \in Int : a >= 0 /\ b >= 0 => (a * a <= b * b <=> a <= b)
    /\ \A a \in Int : a * a >= 0
<1>1. ASSUME NEW a \in Int, NEW b \in Int, a >= 0, b >= 0, a <= b PROVE a * a <= b * b
  <2>1. a * a <= a * b
    BY <1>1
  <2>2. a * b <= b * b
    BY <1>1
  <2>3. QED
    BY <2>1, <2>2
<1>2. ASSUME NEW a \in Int, NEW b \in Int, a >= 0, b >= 0, b < a PROVE b * b < a * a
  <2>1. b * b <= b * a
    BY <1>2
  <2>2. b * a < a * a
    BY <1>2
  <2>3. QED
    BY <2>1, <2>2
<1>3. \A a \in Int : a * a >= 0
  OBVIOUS
<1>4. QED
  BY <1>1, <1>2, <1>3

\* The greatest of two and the least of two.
LEMMA MaxMin ==
    ASSUME NEW a \in Int, NEW b \in Int
    PROVE  /\ Max({a, b}) = (IF a >= b THEN a ELSE b)
           /\ Min({a, b}) = (IF a <= b THEN a ELSE b)
<1>1. Max({a, b}) \in {a, b} /\ \A y \in {a, b} : Max({a, b}) >= y
  <2>1. \E x \in {a, b} : \A y \in {a, b} : x >= y
    <3>1. CASE a >= b
      <4> WITNESS a \in {a, b}
      <4>1. QED
        BY <3>1
    <3>2. CASE ~(a >= b)
      <4> WITNESS b \in {a, b}
      <4>1. QED
        BY <3>2
    <3>3. QED
      BY <3>1, <3>2
  <2>2. QED
    BY <2>1 DEF Max
<1>2. Min({a, b}) \in {a, b} /\ \A y \in {a, b} : Min({a, b}) <= y
  <2>1. \E x \in {a, b} : \A y \in {a, b} : x <= y
    <3>1. CASE a <= b
      <4> WITNESS a \in {a, b}
      <4>1. QED
        BY <3>1
    <3>2. CASE ~(a <= b)
      <4> WITNESS b \in {a, b}
      <4>1. QED
        BY <3>2
    <3>3. QED
      BY <3>1, <3>2
  <2>2. QED
    BY <2>1 DEF Min
<1>3. QED
  BY <1>1, <1>2

\* The height of a point above the nearest point of the axis of a capsule.
LEMMA Nearest ==
    ASSUME NEW half \in Int, half >= 0, NEW d \in Int
    PROVE  Max({-half, Min({half, d})})
              = (IF d < -half THEN -half ELSE IF d > half THEN half ELSE d)
<1>1. PICK low \in Int : low = Min({half, d}) /\ low = (IF half <= d THEN half ELSE d)
  BY MaxMin
<1>2. -half \in Int
  OBVIOUS
<1>3. Max({-half, low}) = (IF -half >= low THEN -half ELSE low)
  BY <1>2, MaxMin
<1>4. QED
  BY <1>1, <1>3

\* A capsule is its cylinder and the spheres at its two ends.
LEMMA CapsuleIsUnion ==
    ASSUME NEW out \in Nat, NEW d \in Int, NEW r \in Int, r > 0, NEW h \in Int, h >= 0,
           NEW half \in Int, half = h \div 2,
           NEW near \in Int, near = (IF d < -half THEN -half ELSE IF d > half THEN half ELSE d)
    PROVE  out * out + (d - near) * (d - near) <= r * r
             <=> \/ out <= r /\ 2 * d \in -h..h
                 \/ out * out + (d + half) * (d + half) <= r * r
                 \/ out * out + (d - half) * (d - half) <= r * r
<1>0. half >= 0 /\ (2 * d \in -h..h <=> -half <= d /\ d <= half)
  OBVIOUS
<1>1. out * out \in Int /\ r * r \in Int /\ (out * out <= r * r <=> out <= r)
  BY Squares
<1>2. CASE -half <= d /\ d <= half
  <2>1. (d - near) * (d - near) = 0
    BY <1>2
  <2>2. (d + half) * (d + half) >= 0 /\ (d - half) * (d - half) >= 0
    BY Squares
  <2>3. (d + half) * (d + half) \in Int /\ (d - half) * (d - half) \in Int
    OBVIOUS
  <2>4. QED
    BY <1>0, <1>1, <1>2, <2>1, <2>2, <2>3
<1>3. CASE d < -half
  <2>1. near = -half /\ d - near = d + half
    BY <1>3
  <2>2. (d + half) * (d + half) <= (d - half) * (d - half)
    <3>1. -(d + half) >= 0 /\ -(d - half) >= 0 /\ -(d + half) <= -(d - half)
      BY <1>0, <1>3
    <3>2. (-(d + half)) * (-(d + half)) <= (-(d - half)) * (-(d - half))
      BY <3>1, Squares
    <3>3. /\ (-(d + half)) * (-(d + half)) = (d + half) * (d + half)
          /\ (-(d - half)) * (-(d - half)) = (d - half) * (d - half)
      OBVIOUS
    <3>4. QED
      BY <3>2, <3>3
  <2>3. (d + half) * (d + half) \in Int /\ (d - half) * (d - half) \in Int
    OBVIOUS
  <2>4. ~(2 * d \in -h..h)
    BY <1>0, <1>3
  <2>5. (d - near) * (d - near) = (d + half) * (d + half)
    BY <2>1
  <2> HIDE <1>0
  <2>6. QED
    BY <1>1, <2>2, <2>3, <2>4, <2>5
<1>4. CASE d > half
  <2>1. near = half /\ d - near = d - half
    BY <1>0, <1>4
  <2>2. (d - half) * (d - half) <= (d + half) * (d + half)
    <3>1. d + half >= 0 /\ d - half >= 0 /\ d - half <= d + half
      BY <1>0, <1>4
    <3>2. QED
      BY <3>1, Squares
  <2>3. (d + half) * (d + half) \in Int /\ (d - half) * (d - half) \in Int
    OBVIOUS
  <2>4. ~(2 * d \in -h..h)
    BY <1>0, <1>4
  <2>5. (d - near) * (d - near) = (d - half) * (d - half)
    BY <2>1
  <2>6. QED
    BY <1>1, <2>2, <2>3, <2>4, <2>5
<1>5. QED
  BY <1>0, <1>2, <1>3, <1>4

Solid(part, g, suffix, type, offset) ==
    [name |-> <<"part", part.id, suffix>>, pose |-> part.pose + offset,
     geometry |-> [g EXCEPT !.type = type]]

\* The geometry of a part that compiles.
LEMMA PartShape ==
    ASSUME NEW geometries \in Seq(Shape), NEW part \in Part, CompiledPart(part, geometries)
    PROVE  Geometry(part, geometries) \in Shape
<1>1. part.geometryIndex + 1 \in 1..Len(geometries)
  BY DEF CompiledPart, Part
<1>2. QED
  BY <1>1 DEF Geometry

\* The collision elements of a part, by the type of its geometry.
LEMMA PartCollisions ==
    ASSUME NEW geometries \in Seq(Shape), NEW part \in Part, NEW g \in Shape,
           g = Geometry(part, geometries), NEW half \in Int, half = g.height \div 2
    PROVE  LET whole == Solid(part, g, "whole", g.type, 0)
               ball == Solid(part, g, "whole", "sphere", 0)
               shaft == Solid(part, g, "shaft", "cylinder", 0)
               lower == Solid(part, g, "lower", "sphere", -half)
               upper == Solid(part, g, "upper", "sphere", half)
           IN  /\ {whole, ball, shaft, lower, upper} \subseteq Collisions
               /\ g.type # "capsule" => CollisionsOf(part, geometries) = <<whole>>
               /\ g.type = "capsule" /\ g.height = 0 => CollisionsOf(part, geometries) = <<ball>>
               /\ g.type = "capsule" /\ g.height # 0
                     => CollisionsOf(part, geometries) = <<shaft, lower, upper>>
<1>1. -half \in Int /\ 0 \in Int
  OBVIOUS
<1>2. ASSUME NEW suffix \in Ends, NEW type \in ShapeTypes, NEW offset \in Int
      PROVE  Solid(part, g, suffix, type, offset) \in Collisions
  <2>1. [g EXCEPT !.type = type] \in Shape
    BY DEF Shape
  <2>2. <<"part", part.id, suffix>> \in CollisionNames /\ part.pose + offset \in Int
    BY DEF CollisionNames, Part
  <2>3. QED
    BY <2>1, <2>2 DEF Solid, Collisions
<1>3. /\ {g.type, "sphere", "cylinder"} \subseteq ShapeTypes
      /\ {"whole", "shaft", "lower", "upper"} \subseteq Ends
  BY DEF Shape, ShapeTypes, Ends
<1>4. /\ Solid(part, g, "whole", g.type, 0) \in Collisions
      /\ Solid(part, g, "whole", "sphere", 0) \in Collisions
      /\ Solid(part, g, "shaft", "cylinder", 0) \in Collisions
      /\ Solid(part, g, "lower", "sphere", -half) \in Collisions
      /\ Solid(part, g, "upper", "sphere", half) \in Collisions
  <2>1. Solid(part, g, "whole", g.type, 0) \in Collisions
    BY <1>1, <1>2, <1>3
  <2>2. Solid(part, g, "whole", "sphere", 0) \in Collisions
    BY <1>1, <1>2, <1>3
  <2>3. Solid(part, g, "shaft", "cylinder", 0) \in Collisions
    BY <1>1, <1>2, <1>3
  <2>4. Solid(part, g, "lower", "sphere", -half) \in Collisions
    BY <1>1, <1>2, <1>3
  <2>5. Solid(part, g, "upper", "sphere", half) \in Collisions
    BY <1>1, <1>2, <1>3
  <2>6. QED
    BY <2>1, <2>2, <2>3, <2>4, <2>5
<1>5. /\ g.type # "capsule" => CollisionsOf(part, geometries) = <<Solid(part, g, "whole", g.type, 0)>>
      /\ g.type = "capsule" /\ g.height = 0
            => CollisionsOf(part, geometries) = <<Solid(part, g, "whole", "sphere", 0)>>
      /\ g.type = "capsule" /\ g.height # 0
            => CollisionsOf(part, geometries) = << Solid(part, g, "shaft", "cylinder", 0),
                                                   Solid(part, g, "lower", "sphere", -half),
                                                   Solid(part, g, "upper", "sphere", half) >>
  BY DEF CollisionsOf, Solid
<1>6. QED
  BY <1>4, <1>5

\* They are told apart by their names, which bear the identity of the part.
LEMMA PartNames ==
    ASSUME NEW geometries \in Seq(Shape), NEW part \in Part, NEW g \in Shape,
           g = Geometry(part, geometries)
    PROVE  /\ CollisionsOf(part, geometries) \in Seq(Collisions)
           /\ \A x \in DOMAIN CollisionsOf(part, geometries) :
                 CollisionsOf(part, geometries)[x].name[2] = part.id
           /\ \A x, y \in DOMAIN CollisionsOf(part, geometries) :
                 CollisionsOf(part, geometries)[x].name = CollisionsOf(part, geometries)[y].name => x = y
<1>0. PICK half \in Int : half = g.height \div 2
  BY DEF Shape
<1>1. ASSUME NEW suffix, NEW type, NEW offset
      PROVE  /\ Solid(part, g, suffix, type, offset).name = <<"part", part.id, suffix>>
             /\ Solid(part, g, suffix, type, offset).name[2] = part.id
             /\ Solid(part, g, suffix, type, offset).name[3] = suffix
  BY DEF Solid
<1>2. CASE g.type # "capsule"
  <2>1. PICK c \in Collisions : CollisionsOf(part, geometries) = <<c>> /\ c.name[2] = part.id
    BY <1>1, <1>2, <1>0, PartCollisions
  <2>2. <<c>> \in Seq(Collisions) /\ DOMAIN <<c>> = {1} /\ <<c>>[1] = c
    OBVIOUS
  <2>3. QED
    BY <2>1, <2>2
<1>3. CASE g.type = "capsule" /\ g.height = 0
  <2>1. PICK c \in Collisions : CollisionsOf(part, geometries) = <<c>> /\ c.name[2] = part.id
    BY <1>1, <1>3, <1>0, PartCollisions
  <2>2. <<c>> \in Seq(Collisions) /\ DOMAIN <<c>> = {1} /\ <<c>>[1] = c
    OBVIOUS
  <2>3. QED
    BY <2>1, <2>2
<1>4. CASE g.type = "capsule" /\ g.height # 0
  <2>1. PICK c \in Collisions, d \in Collisions, e \in Collisions :
          /\ CollisionsOf(part, geometries) = <<c, d, e>>
          /\ c.name[2] = part.id /\ d.name[2] = part.id /\ e.name[2] = part.id
          /\ c.name[3] = "shaft" /\ d.name[3] = "lower" /\ e.name[3] = "upper"
    BY <1>1, <1>4, <1>0, PartCollisions
  <2>2. /\ <<c, d, e>> \in Seq(Collisions) /\ DOMAIN <<c, d, e>> = {1, 2, 3}
        /\ <<c, d, e>>[1] = c /\ <<c, d, e>>[2] = d /\ <<c, d, e>>[3] = e
    OBVIOUS
  <2>3. c.name # d.name /\ c.name # e.name /\ d.name # e.name
    BY <2>1
  <2>4. QED
    BY <2>1, <2>2, <2>3
<1>5. QED
  BY <1>2, <1>3, <1>4

\* The collision elements of a part fill the space that the part describes.
LEMMA PartIsExact ==
    ASSUME NEW geometries \in Seq(Shape), NEW part \in Part, NEW g \in Shape,
           g = Geometry(part, geometries), Supported(g),
           NEW point \in [out : Nat, z : Int]
    PROVE  (\E c \in ToSet(CollisionsOf(part, geometries)) : Fills(point, c)) <=> Describes(part, g, point)
<1>0. PICK half \in Int, d \in Int : half = g.height \div 2 /\ d = point.z - part.pose
  BY DEF Shape, Part
<1>1. /\ half = g.height \div 2 /\ d = point.z - part.pose /\ part.pose \in Int /\ g.radius \in Int /\ g.height \in Int
      /\ point.out \in Nat /\ point.z \in Int
  BY <1>0 DEF Shape, Part
<1>2. /\ \A c : ToSet(<<c>>) = {c}
      /\ \A a, b, c : ToSet(<<a, b, c>>) = {a, b, c}
  BY DEF ToSet
<1>3. ASSUME NEW suffix, NEW offset \in Int
      PROVE  Fills(point, Solid(part, g, suffix, "sphere", offset))
                <=> point.out * point.out + (d - offset) * (d - offset) <= g.radius * g.radius
  <2>1. /\ Solid(part, g, suffix, "sphere", offset).geometry.type = "sphere"
        /\ Solid(part, g, suffix, "sphere", offset).geometry.radius = g.radius
        /\ Solid(part, g, suffix, "sphere", offset).pose = part.pose + offset
    BY DEF Solid, Shape
  <2>2. point.z - (part.pose + offset) = d - offset
    BY <1>1
  <2>3. QED
    BY <2>1, <2>2 DEF Fills, Sphere
<1>4. ASSUME NEW suffix
      PROVE  Fills(point, Solid(part, g, suffix, "cylinder", 0))
                <=> point.out <= g.radius /\ 2 * d \in -g.height..g.height
  <2>1. /\ Solid(part, g, suffix, "cylinder", 0).geometry.type = "cylinder"
        /\ Solid(part, g, suffix, "cylinder", 0).geometry.radius = g.radius
        /\ Solid(part, g, suffix, "cylinder", 0).geometry.height = g.height
        /\ Solid(part, g, suffix, "cylinder", 0).pose = part.pose
    BY <1>1 DEF Solid, Shape
  <2>2. PICK c : c = Solid(part, g, suffix, "cylinder", 0)
    OBVIOUS
  <2>3. /\ c.geometry.type = "cylinder" /\ c.geometry.radius = g.radius
        /\ c.geometry.height = g.height /\ c.pose = part.pose
    BY <2>1, <2>2
  <2>4. Fills(point, c) <=> /\ point.out <= c.geometry.radius
                            /\ 2 * (point.z - c.pose) \in -c.geometry.height..c.geometry.height
    BY <2>3 DEF Fills
  <2>5. Fills(point, c) <=> point.out <= g.radius /\ 2 * d \in -g.height..g.height
    BY <1>1, <2>3, <2>4
  <2>6. QED
    BY <2>2, <2>5
<1>5. CASE g.type \in {"box", "mesh"}
  <2>1. PICK c : CollisionsOf(part, geometries) = <<c>> /\ c = Solid(part, g, "whole", g.type, 0)
    BY <1>5, <1>0, PartCollisions
  <2>2. c.geometry.type = g.type
    BY <2>1 DEF Solid, Shape
  <2>3. ~Fills(point, c)
    BY <1>5, <2>2 DEF Fills
  <2>4. ~Describes(part, g, point)
    BY <1>5 DEF Describes
  <2>5. QED
    BY <1>2, <2>1, <2>3, <2>4
<1>6. CASE g.type = "sphere"
  <2>1. PICK c : CollisionsOf(part, geometries) = <<c>> /\ c = Solid(part, g, "whole", "sphere", 0)
    BY <1>6, <1>0, PartCollisions
  <2>2. Fills(point, c) <=> point.out * point.out + d * d <= g.radius * g.radius
    <3>1. d - 0 = d
      OBVIOUS
    <3>2. Fills(point, Solid(part, g, "whole", "sphere", 0))
             <=> point.out * point.out + (d - 0) * (d - 0) <= g.radius * g.radius
      BY <1>3
    <3>3. QED
      BY <2>1, <3>1, <3>2
  <2>3. Describes(part, g, point) <=> point.out * point.out + d * d <= g.radius * g.radius
    <3>1. Describes(part, g, point) <=> Sphere(point, part.pose + 0, g.radius)
      BY <1>6 DEF Describes
    <3>2. point.z - (part.pose + 0) = d
      BY <1>1
    <3>3. QED
      BY <3>1, <3>2 DEF Sphere
  <2>4. QED
    BY <1>2, <2>1, <2>2, <2>3
<1>7. CASE g.type = "cylinder"
  <2>1. PICK c : CollisionsOf(part, geometries) = <<c>> /\ c = Solid(part, g, "whole", "cylinder", 0)
    BY <1>7, <1>0, PartCollisions
  <2>2. Fills(point, c) <=> point.out <= g.radius /\ 2 * d \in -g.height..g.height
    BY <1>4, <2>1
  <2>3. Describes(part, g, point) <=> point.out <= g.radius /\ d \in -half..half
    BY <1>1, <1>7 DEF Describes
  <2>4. 2 * d \in -g.height..g.height <=> d \in -half..half
    <3>1. \A h \in Int : half = h \div 2 => (2 * d \in -h..h <=> d \in -half..half)
      OBVIOUS
    <3>2. QED
      BY <1>1, <3>1
  <2>5. QED
    BY <1>2, <2>1, <2>2, <2>3, <2>4
<1>8. CASE g.type = "capsule"
  <2>1. g.radius > 0 /\ g.height >= 0 /\ half >= 0
    BY <1>1, <1>8 DEF Supported
  <2>2. PICK near \in Int :
           /\ near = Max({-half, Min({half, d})})
           /\ near = (IF d < -half THEN -half ELSE IF d > half THEN half ELSE d)
    <3>1. half \in Int /\ -half \in Int /\ d \in Int /\ half >= 0
      BY <1>1, <2>1
    <3>2. (IF d < -half THEN -half ELSE IF d > half THEN half ELSE d) \in Int
      BY <3>1
    <3>3. QED
      BY <3>1, <3>2, Nearest
  <2>3. Describes(part, g, point)
           <=> point.out * point.out + (d - near) * (d - near) <= g.radius * g.radius
    <3>1. Describes(part, g, point) <=> Sphere(point, part.pose + near, g.radius)
      BY <1>1, <1>8, <2>2 DEF Describes
    <3>2. point.z - (part.pose + near) = d - near
      BY <1>1
    <3>3. QED
      BY <3>1, <3>2 DEF Sphere
  <2>4. Describes(part, g, point)
           <=> \/ point.out <= g.radius /\ 2 * d \in -g.height..g.height
               \/ point.out * point.out + (d + half) * (d + half) <= g.radius * g.radius
               \/ point.out * point.out + (d - half) * (d - half) <= g.radius * g.radius
    BY <1>1, <2>1, <2>2, <2>3, CapsuleIsUnion
  <2>5. CASE g.height = 0
    <3>1. PICK c : CollisionsOf(part, geometries) = <<c>> /\ c = Solid(part, g, "whole", "sphere", 0)
      BY <1>8, <2>5, <1>0, PartCollisions
    <3>2. Fills(point, c) <=> point.out * point.out + (d - 0) * (d - 0) <= g.radius * g.radius
      BY <1>3, <3>1
    <3>3. near = 0
      BY <1>1, <2>2, <2>5
    <3>4. QED
      BY <1>1, <1>2, <2>3, <3>1, <3>2, <3>3
  <2>6. CASE g.height # 0
    <3>1. PICK a, b, c : /\ CollisionsOf(part, geometries) = <<a, b, c>>
                         /\ a = Solid(part, g, "shaft", "cylinder", 0)
                         /\ b = Solid(part, g, "lower", "sphere", -half)
                         /\ c = Solid(part, g, "upper", "sphere", half)
      BY <1>8, <2>6, <1>0, PartCollisions
    <3>2. Fills(point, a) <=> point.out <= g.radius /\ 2 * d \in -g.height..g.height
      BY <1>4, <3>1
    <3>3. Fills(point, b) <=> point.out * point.out + (d + half) * (d + half) <= g.radius * g.radius
      <4>1. \A x, y \in Int : -x \in Int /\ y - (-x) = y + x
        OBVIOUS
      <4>2. QED
        BY <1>3, <3>1, <4>1
    <3>4. Fills(point, c) <=> point.out * point.out + (d - half) * (d - half) <= g.radius * g.radius
      BY <1>1, <1>3, <3>1
    <3>5. (\E x \in ToSet(CollisionsOf(part, geometries)) : Fills(point, x))
             <=> Fills(point, a) \/ Fills(point, b) \/ Fills(point, c)
      BY <1>2, <3>1
    <3>6. QED
      BY <2>4, <3>2, <3>3, <3>4, <3>5
  <2>7. QED
    BY <2>5, <2>6
<1>9. QED
  BY <1>5, <1>6, <1>7, <1>8 DEF Supported

-------------------------------------------------------------------------------
(***************************************************************************)
(* The collisions of a model.                                              *)
(***************************************************************************)
\* What the parts of an obstacle compile to fills the space that they describe, under names
\* that tell the collision elements apart.
LEMMA ModelIsExact ==
    ASSUME NEW geometries \in Seq(Shape), NEW obstacle, obstacle.parts \in Seq(Part),
           Compiles(obstacle, geometries)
    PROVE  /\ SceneModel(obstacle, geometries).collisions \in Seq(Collisions)
           /\ \A a, b \in DOMAIN SceneModel(obstacle, geometries).collisions :
                 SceneModel(obstacle, geometries).collisions[a].name
                    = SceneModel(obstacle, geometries).collisions[b].name => a = b
           /\ \A point \in [out : Nat, z : Int] :
                 (\E c \in ToSet(SceneModel(obstacle, geometries).collisions) : Fills(point, c))
                    <=> \E part \in ToSet(obstacle.parts) :
                            Describes(part, Geometry(part, geometries), point)
<1> DEFINE seqs == [i \in DOMAIN obstacle.parts |-> CollisionsOf(obstacle.parts[i], geometries)]
           key == [c \in Collisions |-> c.name]
<1>1. /\ SceneModel(obstacle, geometries).collisions = FlattenSeq(seqs)
      /\ obstacle.parts # <<>> /\ DOMAIN obstacle.parts = 1..Len(obstacle.parts)
  BY DEF SceneModel, Compiles
<1>2. ASSUME NEW i \in DOMAIN obstacle.parts
      PROVE  /\ obstacle.parts[i] \in Part
             /\ Geometry(obstacle.parts[i], geometries) \in Shape
             /\ Supported(Geometry(obstacle.parts[i], geometries))
             /\ seqs[i] = CollisionsOf(obstacle.parts[i], geometries)
             /\ seqs[i] \in Seq(Collisions)
  <2>1. obstacle.parts[i] \in Part
    OBVIOUS
  <2>2. CompiledPart(obstacle.parts[i], geometries) /\ Supported(Geometry(obstacle.parts[i], geometries))
    BY DEF Compiles
  <2>3. Geometry(obstacle.parts[i], geometries) \in Shape
    BY <2>1, <2>2, PartShape
  <2>4. CollisionsOf(obstacle.parts[i], geometries) \in Seq(Collisions)
    BY <2>1, <2>3, PartNames
  <2>5. QED
    BY <2>1, <2>2, <2>3, <2>4
<1>3. /\ seqs \in Seq(Seq(Collisions)) /\ DOMAIN seqs = DOMAIN obstacle.parts
      /\ Len(seqs) = Len(obstacle.parts) /\ seqs # <<>>
  <2>1. PICK n \in Nat \ {0} : n = Len(obstacle.parts) /\ DOMAIN obstacle.parts = 1..n
    <3>1. \A s \in Seq(Part) : s # <<>> => Len(s) \in Nat \ {0} /\ DOMAIN s = 1..Len(s)
      OBVIOUS
    <3>2. QED
      BY <1>1, <3>1
  <2>2. seqs \in [1..n -> Seq(Collisions)]
    <3>1. \A i \in DOMAIN obstacle.parts : CollisionsOf(obstacle.parts[i], geometries) \in Seq(Collisions)
      BY <1>2, Zenon
    <3>2. QED
      BY <2>1, <3>1
  <2> HIDE DEF seqs
  <2>3. seqs \in Seq(Seq(Collisions)) /\ Len(seqs) = n /\ DOMAIN seqs = 1..n
    <3>1. \A T : \A f \in [1..n -> T] : f \in Seq(T) /\ Len(f) = n /\ DOMAIN f = 1..n
      OBVIOUS
    <3>2. QED
      BY <2>2, <3>1
  <2>4. QED
    BY <2>1, <2>3
<1>4. ASSUME NEW i \in DOMAIN seqs, NEW j \in DOMAIN seqs, NEW x \in DOMAIN seqs[i], NEW y \in DOMAIN seqs[j],
             key[seqs[i][x]] = key[seqs[j][y]]
      PROVE  i = j /\ x = y
  <2>1. i \in DOMAIN obstacle.parts /\ j \in DOMAIN obstacle.parts
    BY <1>3
  <2>2. PICK s \in Seq(Collisions), t \in Seq(Collisions) :
           /\ s = seqs[i] /\ t = seqs[j]
           /\ s = CollisionsOf(obstacle.parts[i], geometries)
           /\ t = CollisionsOf(obstacle.parts[j], geometries)
    BY <1>2, <2>1, Zenon
  <2> HIDE DEF seqs
  <2>3. s[x] \in Collisions /\ t[y] \in Collisions
    BY <2>2
  <2>4. s[x].name = t[y].name
    BY <1>4, <2>2, <2>3
  <2>5. s[x].name[2] = obstacle.parts[i].id /\ t[y].name[2] = obstacle.parts[j].id
    <3>1. /\ \A z \in DOMAIN s : s[z].name[2] = obstacle.parts[i].id
          /\ \A z \in DOMAIN t : t[z].name[2] = obstacle.parts[j].id
      BY <1>2, <2>1, <2>2, PartNames
    <3>2. QED
      BY <2>2, <3>1
  <2>6. i = j
    BY <2>1, <2>4, <2>5 DEF Compiles, IsInjective
  <2>7. \A a, b \in DOMAIN s : s[a].name = s[b].name => a = b
    BY <1>2, <2>1, <2>2, PartNames
  <2>8. QED
    BY <2>2, <2>4, <2>6, <2>7
<1> HIDE DEF seqs
<1>5. key \in [Collisions -> CollisionNames]
  BY DEF Collisions
<1>6. /\ FlattenSeq(seqs) \in Seq(Collisions)
      /\ \A x : x \in ToSet(FlattenSeq(seqs)) <=> \E i \in DOMAIN seqs : x \in ToSet(seqs[i])
  BY <1>3, Flattened
<1>7. ASSUME NEW a \in DOMAIN FlattenSeq(seqs), NEW b \in DOMAIN FlattenSeq(seqs),
             FlattenSeq(seqs)[a].name = FlattenSeq(seqs)[b].name
      PROVE  a = b
  <2>1. FlattenSeq(seqs)[a] \in Collisions /\ FlattenSeq(seqs)[b] \in Collisions
    BY <1>6
  <2>2. key[FlattenSeq(seqs)[a]] = key[FlattenSeq(seqs)[b]]
    BY <1>7, <2>1
  <2> HIDE DEF key
  <2>3. AllDistinct(key, seqs)
    BY <1>4 DEF AllDistinct
  <2>4. Distinct(key, FlattenSeq(seqs))
    BY <1>3, <1>5, <2>3, FlattenedApart
  <2>5. QED
    BY <2>2, <2>4 DEF Distinct
<1>8. ASSUME NEW point \in [out : Nat, z : Int]
      PROVE  (\E c \in ToSet(FlattenSeq(seqs)) : Fills(point, c))
                <=> \E part \in ToSet(obstacle.parts) : Describes(part, Geometry(part, geometries), point)
  <2>1. ASSUME NEW i \in DOMAIN obstacle.parts
        PROVE  (\E c \in ToSet(seqs[i]) : Fills(point, c))
                  <=> Describes(obstacle.parts[i], Geometry(obstacle.parts[i], geometries), point)
    BY <1>2, PartIsExact
  <2>2. (\E c \in ToSet(FlattenSeq(seqs)) : Fills(point, c))
           <=> \E i \in DOMAIN obstacle.parts : \E c \in ToSet(seqs[i]) : Fills(point, c)
    BY <1>3, <1>6
  <2>3. QED
    BY <2>1, <2>2 DEF ToSet
<1>9. QED
  BY <1>1, <1>6, <1>7, <1>8

-------------------------------------------------------------------------------
(***************************************************************************)
(* What a document becomes.                                                *)
(***************************************************************************)
\* A model that is inserted, with collision elements that are told apart by name.
Told(s) == \A a, b \in DOMAIN s : s[a].name = s[b].name => a = b
IsModel(m) ==
    /\ m = [name |-> m.name, pose |-> m.pose, authored |-> m.authored, collisions |-> m.collisions]
    /\ m.pose \in Int /\ m.authored \in BOOLEAN
    /\ m.collisions \in Seq(Collisions) /\ Told(m.collisions)

\* The identities of the obstacles of a consumed document are unique.
LEMMA ItemsApart ==
    ASSUME NEW d, Consumable(d)
    PROVE  /\ \A i, j \in DOMAIN d.obstacles : d.obstacles[i].id = d.obstacles[j].id => i = j
           /\ \A item \in ToSet(d.obstacles) : Item(d, item.id) = item
<1>1. ASSUME NEW i \in DOMAIN d.obstacles, NEW j \in DOMAIN d.obstacles,
             d.obstacles[i].id = d.obstacles[j].id
      PROVE  i = j
  <2>1. DOMAIN ObstacleBodies(d) = DOMAIN d.obstacles
    BY DEF ObstacleBodies
  <2>2. \A k \in DOMAIN d.obstacles : ObstacleBodies(d)[k].id = d.obstacles[k].id
    BY DEF ObstacleBodies, Body
  <2>3. IsInjective([k \in DOMAIN ObstacleBodies(d) |-> ObstacleBodies(d)[k].id])
    BY DEF Consumable, CompileScene
  <2>4. \A a, b \in DOMAIN ObstacleBodies(d) : ObstacleBodies(d)[a].id = ObstacleBodies(d)[b].id => a = b
    BY <2>3 DEF IsInjective
  <2>5. QED
    BY <1>1, <2>1, <2>2, <2>4
<1>2. ASSUME NEW item \in ToSet(d.obstacles) PROVE Item(d, item.id) = item
  <2>1. Item(d, item.id) \in ToSet(d.obstacles) /\ Item(d, item.id).id = item.id
    BY DEF Item
  <2>2. PICK i \in DOMAIN d.obstacles : item = d.obstacles[i]
    BY DEF ToSet
  <2>3. PICK j \in DOMAIN d.obstacles : Item(d, item.id) = d.obstacles[j]
    BY <2>1 DEF ToSet
  <2>4. i = j
    BY <1>1, <2>1, <2>2, <2>3
  <2>5. QED
    BY <2>2, <2>3, <2>4
<1>3. QED
  BY <1>1, <1>2

\* The parts of an obstacle of a consumed document compile.
LEMMA ItemCompiles ==
    ASSUME NEW d, IsDocument(d), Consumable(d), NEW item \in ToSet(d.obstacles)
    PROVE  /\ d.geometries \in Seq(Shape) /\ item.model \in DOMAIN d.models
           /\ Body(d, item).parts = d.models[item.model].parts
           /\ Body(d, item).parts \in Seq(Part)
           /\ Compiles(Body(d, item), d.geometries)
<1>1. PICK i \in DOMAIN d.obstacles : item = d.obstacles[i]
  BY DEF ToSet
<1>2. item.model \in DOMAIN d.models
  BY <1>1 DEF Consumable, ObstaclesOk
<1>3. Body(d, item).parts = d.models[item.model].parts
  BY DEF Body
<1>4. d.geometries \in Seq(Shape) /\ d.models[item.model].parts \in Seq(Part)
  BY <1>2 DEF IsDocument
<1>5. Compiles(Body(d, item), d.geometries)
  <2>1. i \in DOMAIN ObstacleBodies(d) /\ ObstacleBodies(d)[i] = Body(d, item)
    BY <1>1 DEF ObstacleBodies
  <2>2. QED
    BY <2>1 DEF Consumable, CompileScene
<1>6. QED
  BY <1>2, <1>3, <1>4, <1>5

\* A model whose name or authorship is changed is a model.
LEMMA Changed ==
    ASSUME NEW m, m = [name |-> m.name, pose |-> m.pose, authored |-> m.authored, collisions |-> m.collisions],
           NEW x, NEW r, r = [m EXCEPT !.name = x] \/ r = [m EXCEPT !.authored = x]
    PROVE  /\ r = [name |-> r.name, pose |-> r.pose, authored |-> r.authored, collisions |-> r.collisions]
           /\ r.pose = m.pose /\ r.collisions = m.collisions
           /\ r = [m EXCEPT !.name = x] => r.name = x /\ r.authored = m.authored
           /\ r = [m EXCEPT !.authored = x] => r.name = m.name /\ r.authored = x
<1>1. DOMAIN m = {"name", "pose", "authored", "collisions"}
  OBVIOUS
<1>2. r.pose = m.pose /\ r.collisions = m.collisions
  BY <1>1
<1>3. r = [m EXCEPT !.name = x] => r.name = x /\ r.authored = m.authored
  BY <1>1
<1>4. r = [m EXCEPT !.authored = x] => r.name = m.name /\ r.authored = x
  BY <1>1
<1>5. DOMAIN r = {"name", "pose", "authored", "collisions"} /\ r = [f \in DOMAIN r |-> r[f]]
  BY <1>1
<1>6. r = [name |-> r.name, pose |-> r.pose, authored |-> r.authored, collisions |-> r.collisions]
  BY <1>5
<1>7. QED
  BY <1>2, <1>3, <1>4, <1>6

\* What an obstacle becomes.
LEMMA BuiltIsModel ==
    ASSUME NEW d, IsDocument(d), Consumable(d), NEW item \in ToSet(d.obstacles)
    PROVE  /\ IsModel(Built(d, item))
           /\ Built(d, item).name = <<"obstacle", item.id>>
           /\ Built(d, item).pose = item.pose
           /\ Built(d, item).collisions = SceneModel(Body(d, item), d.geometries).collisions
<1> DEFINE m == SceneModel(Body(d, item), d.geometries)
<1>1. /\ m = [name |-> <<"obstacle", item.id>>, pose |-> item.pose, authored |-> FALSE,
              collisions |-> m.collisions]
  BY DEF SceneModel, Body
<1>2. m.collisions \in Seq(Collisions) /\ Told(m.collisions)
  BY ItemCompiles, ModelIsExact DEF Told
<1>3. item.pose \in Int
  BY DEF IsDocument
<1>4. Built(d, item) = m \/ Built(d, item) = [m EXCEPT !.authored = TRUE]
  BY DEF Built, AuthorResourceModel
<1> HIDE DEF m
<1>5. PICK r : r = Built(d, item)
  OBVIOUS
<1>6. /\ r = [name |-> r.name, pose |-> r.pose, authored |-> r.authored, collisions |-> r.collisions]
      /\ r.name = <<"obstacle", item.id>> /\ r.pose = item.pose /\ r.collisions = m.collisions
      /\ r.authored \in BOOLEAN
  <2>1. /\ m.name = <<"obstacle", item.id>> /\ m.pose = item.pose
        /\ m = [name |-> m.name, pose |-> m.pose, authored |-> m.authored, collisions |-> m.collisions]
    BY <1>1
  <2>0. m.authored \in BOOLEAN
    <3>1. m.authored = FALSE
      BY DEF SceneModel, m
    <3>2. QED
      BY <3>1, Zenon
  <2>2. CASE r = m
    BY <2>0, <2>1, <2>2
  <2>3. CASE r = [m EXCEPT !.authored = TRUE]
    <3>1. PICK x : x = TRUE
      OBVIOUS
    <3>2. r = [m EXCEPT !.authored = x]
      BY <2>3, <3>1
    <3>3. /\ r = [name |-> r.name, pose |-> r.pose, authored |-> r.authored, collisions |-> r.collisions]
          /\ r.pose = m.pose /\ r.collisions = m.collisions /\ r.name = m.name /\ r.authored = x
      BY <2>1, <3>2, Changed
    <3>4. r.authored \in BOOLEAN
      BY <3>1, <3>3
    <3>5. QED
      BY <2>1, <3>3, <3>4
  <2>4. QED
    BY <1>4, <1>5, <2>2, <2>3
<1>7. QED
  BY <1>2, <1>3, <1>5, <1>6 DEF IsModel, m

\* What the ground becomes.
LEMMA GroundIsModel ==
    ASSUME NEW d, IsDocument(d), Consumable(d)
    PROVE  /\ d.ground.mode = "none" => GroundBuilt(d) = NoGround
           /\ d.ground.mode # "none" => /\ IsModel(GroundBuilt(d)) /\ GroundBuilt(d) # NoGround
                                        /\ GroundBuilt(d).name = GroundName
<1> DEFINE Plain == [name |-> GroundName, pose |-> d.ground.pose, authored |-> TRUE, collisions |-> <<>>]
<1>1. d.ground.mode = "none" => GroundBuilt(d) = NoGround
  BY DEF GroundBuilt
<1>2. ASSUME d.ground.mode # "none" PROVE d.ground.pose \in Int
  BY <1>2 DEF IsDocument
<1>3. <<>> \in Seq(Collisions) /\ Told(<<>>)
  BY DEF Told
<1>4. ASSUME d.ground.mode # "none" PROVE IsModel(Plain)
  BY <1>2, <1>3, <1>4 DEF IsModel
<1>5. CASE d.ground.mode = "default_plane"
  <2>1. GroundBuilt(d) = Plain
    BY <1>5 DEF GroundBuilt
  <2>2. Plain.name = GroundName
    OBVIOUS
  <2>3. QED
    BY <1>4, <1>5, <2>1, <2>2 DEF NoGround, GroundName
<1>6. CASE d.ground.mode = "model" /\ GroundModel(d).resource # "none"
  <2>1. GroundBuilt(d) = Plain
    BY <1>6 DEF GroundBuilt, UseConsumerGroundName
  <2>2. Plain.name = GroundName
    OBVIOUS
  <2>3. QED
    BY <1>4, <1>6, <2>1, <2>2 DEF NoGround, GroundName
<1>7. CASE d.ground.mode = "model" /\ GroundModel(d).resource = "none"
  <2> DEFINE m == SceneModel(Standin(d), d.geometries)
  <2>1. GroundBuilt(d) = [m EXCEPT !.name = GroundName]
    BY <1>7 DEF GroundBuilt, UseConsumerGroundName
  <2>2. /\ m = [name |-> m.name, pose |-> m.pose, authored |-> m.authored, collisions |-> m.collisions]
        /\ m.pose = d.ground.pose /\ m.authored \in BOOLEAN
    BY DEF SceneModel, Standin
  <2>3. PICK r : r = GroundBuilt(d) /\ r = [m EXCEPT !.name = GroundName]
    BY <2>1
  <2>4. Standin(d).parts \in Seq(Part) /\ d.geometries \in Seq(Shape)
    <3>1. d.ground.model \in DOMAIN d.models
      BY <1>7 DEF Consumable, GroundOk
    <3>2. QED
      BY <3>1 DEF IsDocument, Standin, GroundModel
  <2>5. Compiles(Standin(d), d.geometries)
    <3>1. CompileScene(<<Standin(d)>>, d.geometries)
      BY <1>7 DEF Consumable, GroundBuilds
    <3>2. 1 \in DOMAIN <<Standin(d)>> /\ <<Standin(d)>>[1] = Standin(d)
      OBVIOUS
    <3>3. QED
      BY <3>1, <3>2 DEF CompileScene
  <2>6. m.collisions \in Seq(Collisions) /\ Told(m.collisions)
    BY <2>4, <2>5, ModelIsExact DEF Told
  <2> HIDE DEF m
  <2>7. /\ r = [name |-> r.name, pose |-> r.pose, authored |-> r.authored, collisions |-> r.collisions]
        /\ r.pose = m.pose /\ r.collisions = m.collisions /\ r.name = GroundName /\ r.authored = m.authored
    BY <2>2, <2>3, Changed
  <2>8. IsModel(r)
    BY <1>2, <1>7, <2>2, <2>6, <2>7 DEF IsModel
  <2>9. r # NoGround
    BY <2>7 DEF NoGround, GroundName
  <2>10. QED
    BY <1>7, <2>3, <2>7, <2>8, <2>9
<1>8. d.ground.mode \in {"none", "default_plane", "model"}
  BY DEF Consumable, GroundOk
<1>9. QED
  BY <1>1, <1>5, <1>6, <1>7, <1>8

\* The parts of a consumed document.
LEMMA ConsumedIs ==
    ASSUME NEW d, IsDocument(d), Consumable(d)
    PROVE  /\ Consumed(d).accepted /\ Consumed(d).ground = GroundBuilt(d)
           /\ DOMAIN Consumed(d).models = Ids(ToSet(d.obstacles))
           /\ DOMAIN Consumed(d).trajectories = Ids(Moving(d))
           /\ \A item \in ToSet(d.obstacles) :
                 item.id \in Ids(ToSet(d.obstacles)) /\ Consumed(d).models[item.id] = Built(d, item)
<1>1. /\ Consumed(d).accepted = TRUE /\ Consumed(d).ground = GroundBuilt(d)
      /\ Consumed(d).models = [id \in Ids(ToSet(d.obstacles)) |-> Built(d, Item(d, id))]
      /\ DOMAIN Consumed(d).trajectories = Ids(Moving(d))
  BY DEF Consumed
<1>2. ASSUME NEW item \in ToSet(d.obstacles)
      PROVE  item.id \in Ids(ToSet(d.obstacles)) /\ Consumed(d).models[item.id] = Built(d, item)
  <2>1. item.id \in Ids(ToSet(d.obstacles))
    BY DEF Ids
  <2>2. Consumed(d).models[item.id] = Built(d, Item(d, item.id))
    BY <1>1, <2>1
  <2>3. QED
    BY <2>1, <2>2, ItemsApart
<1>3. QED
  BY <1>1, <1>2

\* Numbers that a function maps to different values have as many values.
LEMMA AsMany ==
    ASSUME NEW n \in Nat, NEW T, NEW f \in [1..n -> T], IsInjective(f),
           \A y \in T : \E i \in 1..n : y = f[i]
    PROVE  IsFiniteSet(T) /\ Cardinality(T) = n
<1>1. IsFiniteSet(1..n) /\ Cardinality(1..n) = n
  <2>1. 1 \in Int /\ n \in Int
    OBVIOUS
  <2>2. IsFiniteSet(1..n) /\ Cardinality(1..n) = (IF 1 > n THEN 0 ELSE n - 1 + 1)
    BY <2>1, FS_Interval
  <2>3. QED
    BY <2>2
<1>2. f \in Bijection(1..n, T)
  BY DEF Bijection, Injection, Surjection, IsInjective
<1>3. QED
  BY <1>1, <1>2, FS_Bijection DEF ExistsBijection

\* What a consumed document becomes fills the space that it describes.
LEMMA SolidsFollow ==
    ASSUME NEW d, IsDocument(d), Consumable(d), NEW item \in ToSet(d.obstacles),
           NEW point \in [out : Nat, z : Int]
    PROVE  (\E c \in ToSet(Consumed(d).models[item.id].collisions) : Fills(point, c))
              <=> \E part \in ToSet(d.models[item.model].parts) :
                      Describes(part, Geometry(part, d.geometries), point)
<1>1. Consumed(d).models[item.id].collisions = SceneModel(Body(d, item), d.geometries).collisions
  BY ConsumedIs, BuiltIsModel
<1>2. QED
  BY <1>1, ItemCompiles, ModelIsExact

\* The models that are inserted for a document.
Inserted(d) ==
    {Consumed(d).models[id] : id \in DOMAIN Consumed(d).models}
        \cup (IF Consumed(d).ground = NoGround THEN {} ELSE {Consumed(d).ground})

\* Everything that is inserted for a document is a model.
LEMMA InsertedAreModels ==
    ASSUME NEW d, IsDocument(d), Consumable(d)
    PROVE  \A m \in Inserted(d) : IsModel(m)
<1>1. ASSUME NEW id \in DOMAIN Consumed(d).models PROVE IsModel(Consumed(d).models[id])
  <2>1. PICK item \in ToSet(d.obstacles) : id = item.id
    BY ConsumedIs DEF Ids
  <2>2. QED
    BY <2>1, ConsumedIs, BuiltIsModel
<1>2. Consumed(d).ground # NoGround => IsModel(Consumed(d).ground)
  BY ConsumedIs, GroundIsModel
<1>3. QED
  BY <1>1, <1>2 DEF Inserted

\* Every obstacle has a model of its own, under a name of its own beside the ground.
LEMMA NamesCount ==
    ASSUME NEW d, IsDocument(d), Consumable(d)
    PROVE  /\ Len(d.obstacles) = Cardinality(DOMAIN Consumed(d).models)
           /\ Cardinality({m.name : m \in Inserted(d)})
                 = Len(d.obstacles) + (IF d.ground.mode = "none" THEN 0 ELSE 1)
<1>1. PICK n \in Nat : n = Len(d.obstacles) /\ DOMAIN d.obstacles = 1..n
  BY DEF IsDocument
<1>2. \A i, j \in 1..n : d.obstacles[i].id = d.obstacles[j].id => i = j
  BY <1>1, ItemsApart
<1>3. Cardinality(Ids(ToSet(d.obstacles))) = n
  <2> DEFINE f == [i \in 1..n |-> d.obstacles[i].id]
             T == Ids(ToSet(d.obstacles))
  <2>1. f \in [1..n -> T] /\ \A y \in T : \E i \in 1..n : y = f[i]
    BY <1>1 DEF Ids, ToSet
  <2>2. IsInjective(f)
    BY <1>2 DEF IsInjective
  <2> HIDE DEF f, T
  <2>3. Cardinality(T) = n
    BY <2>1, <2>2, AsMany
  <2>4. QED
    BY <2>3 DEF T
<1> DEFINE ModelNames == {Consumed(d).models[id].name : id \in DOMAIN Consumed(d).models}
<1>4. ASSUME NEW i \in 1..n
      PROVE  /\ d.obstacles[i].id \in DOMAIN Consumed(d).models
             /\ Consumed(d).models[d.obstacles[i].id].name = <<"obstacle", d.obstacles[i].id>>
  <2>1. d.obstacles[i] \in ToSet(d.obstacles)
    BY <1>1 DEF ToSet
  <2>2. QED
    BY <2>1, ConsumedIs, BuiltIsModel
<1>5. ASSUME NEW id \in DOMAIN Consumed(d).models PROVE \E i \in 1..n : id = d.obstacles[i].id
  BY <1>1, ConsumedIs DEF Ids, ToSet
<1> HIDE DEF ModelNames
<1>11. ASSUME NEW i \in 1..n PROVE <<"obstacle", d.obstacles[i].id>> \in ModelNames
  BY <1>4 DEF ModelNames
<1>12. ASSUME NEW y \in ModelNames PROVE \E i \in 1..n : y = <<"obstacle", d.obstacles[i].id>>
  <2>1. PICK id \in DOMAIN Consumed(d).models : y = Consumed(d).models[id].name
    BY DEF ModelNames
  <2>2. PICK i \in 1..n : id = d.obstacles[i].id
    BY <1>5
  <2>3. QED
    BY <1>4, <2>1, <2>2
<1>6. IsFiniteSet(ModelNames) /\ Cardinality(ModelNames) = n
  <2> DEFINE f == [i \in 1..n |-> <<"obstacle", d.obstacles[i].id>>]
  <2>1. f \in [1..n -> ModelNames] /\ \A y \in ModelNames : \E i \in 1..n : y = f[i]
    BY <1>11, <1>12
  <2>2. IsInjective(f)
    BY <1>2 DEF IsInjective
  <2> HIDE DEF f
  <2>3. QED
    BY <2>1, <2>2, AsMany
<1>7. GroundName \notin ModelNames
  <2>1. \A x : <<"obstacle", x>> # GroundName
    BY DEF GroundName
  <2>2. QED
    BY <1>12, <2>1
<1>13. DOMAIN Consumed(d).models = Ids(ToSet(d.obstacles))
  BY ConsumedIs
<1>8. CASE d.ground.mode = "none"
  <2>1. Consumed(d).ground = NoGround
    BY <1>8, ConsumedIs, GroundIsModel
  <2>2. {m.name : m \in Inserted(d)} = ModelNames
    <3>1. \A m : m \in Inserted(d) <=> \E id \in DOMAIN Consumed(d).models : m = Consumed(d).models[id]
      BY <2>1 DEF Inserted
    <3>2. QED
      BY <3>1 DEF ModelNames
  <2>3. Cardinality({m.name : m \in Inserted(d)}) = n
    BY <1>6, <2>2, Zenon
  <2>4. QED
    BY <1>1, <1>3, <1>8, <1>13, <2>3
<1>9. CASE d.ground.mode # "none"
  <2>1. Consumed(d).ground # NoGround /\ Consumed(d).ground.name = GroundName
    BY <1>9, ConsumedIs, GroundIsModel
  <2>2. {m.name : m \in Inserted(d)} = ModelNames \cup {GroundName}
    <3>1. \A m : m \in Inserted(d) <=> \/ \E id \in DOMAIN Consumed(d).models : m = Consumed(d).models[id]
                                       \/ m = Consumed(d).ground
      BY <2>1 DEF Inserted
    <3>2. QED
      BY <2>1, <3>1 DEF ModelNames
  <2>3. Cardinality(ModelNames \cup {GroundName}) = n + 1
    BY <1>6, <1>7, FS_AddElement
  <2>4. QED
    BY <1>1, <1>3, <1>9, <1>13, <2>2, <2>3
<1>10. QED
  BY <1>8, <1>9

\* Exactly the obstacles that move have a motion.
LEMMA MotionsFollow ==
    ASSUME NEW d, IsDocument(d), Consumable(d), NEW item \in ToSet(d.obstacles)
    PROVE  (item.id \in DOMAIN Consumed(d).trajectories) <=> item.motion.type # "hold"
<1>1. DOMAIN Consumed(d).trajectories = {other.id : other \in Moving(d)}
  BY ConsumedIs DEF Ids
<1>2. ASSUME item.motion.type # "hold" PROVE item.id \in DOMAIN Consumed(d).trajectories
  BY <1>1, <1>2 DEF Moving
<1>3. ASSUME item.id \in DOMAIN Consumed(d).trajectories PROVE item.motion.type # "hold"
  <2>1. PICK other \in ToSet(d.obstacles) : other.motion.type # "hold" /\ other.id = item.id
    BY <1>1, <1>3 DEF Moving
  <2>2. other = item
    BY <2>1, ItemsApart
  <2>3. QED
    BY <2>1, <2>2
<1>4. QED
  BY <1>2, <1>3

-------------------------------------------------------------------------------
(***************************************************************************)
(* The steps of the compiler.                                              *)
(***************************************************************************)
\* What was consumed is the whole document, what was made is of one of its models, and a verdict
\* is that of the check.
CompilerInv ==
    /\ doc \in Documents /\ verifyPose \in BOOLEAN
    /\ built = NoBuild \/ (Consumable(doc) /\ built = Consumed(doc))
    /\ \/ made = NotMade
       \/ Consumable(doc) /\ \E m \in Inserted(doc) : made \in Damages(m) \cup {Faithful(m)}
    /\ verdict \in {"none", "accepted", "rejected"}
    /\ verdict # "none" => made # NotMade /\ ((verdict = "accepted") <=> VerifySceneModel)

\* What can be made is what is inserted for the document that was consumed.
LEMMA CandidatesAre ==
    ASSUME built = Consumed(doc)
    PROVE  Candidates = Inserted(doc)
BY DEF Candidates, Inserted

\* Nothing is accepted before a document is consumed.
LEMMA NotBuilt == ~NoBuild.accepted
BY DEF NoBuild

\* Every step keeps the invariant: consumption, what Gazebo makes, the check.
LEMMA CompilerInvStep == CompilerInv /\ [CompilerNext]_compilerVars => CompilerInv'
<1> SUFFICES ASSUME CompilerInv, [CompilerNext]_compilerVars PROVE CompilerInv'
  OBVIOUS
<1> USE DEF CompilerInv
<1>1. CASE ConsumeCompiled
  <2>1. /\ doc' = doc /\ made' = made /\ verifyPose' = verifyPose /\ verdict' = verdict
        /\ Consumable(doc) /\ built' = Consumed(doc)
    BY <1>1 DEF ConsumeCompiled
  <2>2. VerifySceneModel' <=> VerifySceneModel
    BY <2>1 DEF VerifySceneModel, PartMatches
  <2>3. QED
    BY <2>1, <2>2
<1>2. ASSUME NEW m \in Candidates, NEW result \in Damages(m) \cup {Faithful(m)}, Make(m, result)
      PROVE  CompilerInv'
  <2>1. /\ doc' = doc /\ built' = built /\ verifyPose' = verifyPose /\ verdict' = verdict
        /\ built.accepted /\ made = NotMade /\ made' = result
    BY <1>2 DEF Make
  <2>2. Consumable(doc) /\ built = Consumed(doc)
    BY <2>1, NotBuilt
  <2>3. m \in Inserted(doc)
    BY <1>2, <2>2, CandidatesAre
  <2>4. verdict = "none"
    BY <2>1
  <2>5. QED
    BY <2>1, <2>2, <2>3, <2>4
<1>3. CASE Verify
  <2>1. /\ doc' = doc /\ built' = built /\ verifyPose' = verifyPose /\ made' = made
        /\ made # NotMade /\ verdict' = IF VerifySceneModel THEN "accepted" ELSE "rejected"
    BY <1>3 DEF Verify
  <2>2. VerifySceneModel' <=> VerifySceneModel
    BY <2>1 DEF VerifySceneModel, PartMatches
  <2>3. QED
    BY <2>1, <2>2
<1>4. CASE UNCHANGED compilerVars
  <2>1. /\ doc' = doc /\ built' = built /\ verifyPose' = verifyPose /\ made' = made /\ verdict' = verdict
    BY <1>4 DEF compilerVars
  <2>2. VerifySceneModel' <=> VerifySceneModel
    BY <2>1 DEF VerifySceneModel, PartMatches
  <2>3. QED
    BY <2>1, <2>2
<1>5. QED
  BY <1>1, <1>2, <1>3, <1>4 DEF CompilerNext

\* The invariant of the compiler (native_scene_controller.cpp:205-381).
THEOREM CompilerInvariant == CompilerSpec => []CompilerInv
<1>1. CompilerInit => CompilerInv
  BY DEF CompilerInit, CompilerInv
<1>2. QED
  BY <1>1, CompilerInvStep, PTL DEF CompilerSpec

\* What the invariant says of a consumed document.
LEMMA InvExact == CompilerInv => CompiledIsExact
<1> SUFFICES ASSUME CompilerInv, built.accepted PROVE SolidsAreExact /\ SceneIsWhole
  BY DEF CompiledIsExact, SolidsAreExact, SceneIsWhole
<1>1. IsDocument(doc) /\ Consumable(doc) /\ built = Consumed(doc)
  BY NotBuilt, SceneCompilerAssumption DEF CompilerInv
<1>2. SolidsAreExact
  <2>1. ASSUME NEW item \in ToSet(doc.obstacles), NEW point \in Lattice
        PROVE  (\E c \in ToSet(built.models[item.id].collisions) : Fills(point, c))
                <=> \E part \in ToSet(doc.models[item.model].parts) :
                        Describes(part, Geometry(part, doc.geometries), point)
    <3>1. point \in [out : Nat, z : Int]
      BY SceneCompilerAssumption
    <3>2. QED
      BY <1>1, <3>1, SolidsFollow
  <2>2. QED
    BY <2>1 DEF SolidsAreExact
<1>3. Candidates = Inserted(doc)
  BY <1>1, CandidatesAre
<1>4. \A m \in Candidates : IsInjective([i \in DOMAIN m.collisions |-> m.collisions[i].name])
  <2>1. ASSUME NEW m \in Candidates
        PROVE  IsInjective([i \in DOMAIN m.collisions |-> m.collisions[i].name])
    <3>1. Told(m.collisions)
      BY <1>1, <1>3, InsertedAreModels DEF IsModel
    <3>2. QED
      BY <3>1 DEF Told, IsInjective
  <2>2. QED
    BY <2>1
<1>5. ASSUME NEW item \in ToSet(doc.obstacles)
      PROVE  /\ built.models[item.id].pose = item.pose
             /\ (item.id \in DOMAIN built.trajectories) <=> item.motion.type # "hold"
  <2>1. built.models[item.id].pose = item.pose
    BY <1>1, ConsumedIs, BuiltIsModel
  <2>2. QED
    BY <1>1, <2>1, MotionsFollow
<1>6. PartCount(doc) <= MaxParts
  BY <1>1 DEF Consumable, ObstaclesOk
<1>7. /\ Len(doc.obstacles) = Cardinality(DOMAIN built.models)
      /\ Cardinality({m.name : m \in Candidates})
            = Len(doc.obstacles) + (IF doc.ground.mode = "none" THEN 0 ELSE 1)
  <2>1. /\ Len(doc.obstacles) = Cardinality(DOMAIN Consumed(doc).models)
        /\ Cardinality({m.name : m \in Inserted(doc)})
             = Len(doc.obstacles) + (IF doc.ground.mode = "none" THEN 0 ELSE 1)
    BY <1>1, NamesCount
  <2>2. QED
    BY <1>1, <1>3, <2>1
<1>8. SceneIsWhole
  BY <1>4, <1>5, <1>6, <1>7 DEF SceneIsWhole
<1>9. QED
  BY <1>2, <1>8

\* What is compiled of any document is what it says: each obstacle once, under a name of its own,
\* and of each exactly the space that its parts describe, a capsule as a cylinder and two spheres
\* (native_scene_controller.cpp:299-380, scene_model.cpp:527-610).
THEOREM SceneIsCompiled == CompilerSpec => []CompiledIsExact
BY CompilerInvariant, InvExact, PTL

-------------------------------------------------------------------------------
(***************************************************************************)
(* What Gazebo may have made of a model.                                   *)
(***************************************************************************)
\* The ways in which a collision of a damaged model differs from the one that was meant.
Variations(c) ==
    { [c EXCEPT !.name = <<"other">>], [c EXCEPT !.pose = @ + 1], [c EXCEPT !.geometry.type = "box"],
      [c EXCEPT !.geometry.radius = @ + 1],
      IF c.geometry.type = "cylinder" THEN [c EXCEPT !.geometry.height = @ + 2] ELSE c }

\* A collision that matches what was meant is what was meant.
LEMMA Tells ==
    ASSUME NEW c \in Collisions, NEW e \in Collisions, NEW a \in Variations(c) \cup {c},
           e.name = c.name => e = c,
           a.name = e.name, a.pose = e.pose, ShapeMatches(a.geometry, e.geometry)
    PROVE  a = e
<1>1. CASE a = [c EXCEPT !.name = <<"other">>]
  <2>1. a.name = <<"other">>
    BY <1>1 DEF Collisions
  <2>2. e.name # <<"other">>
    BY DEF Collisions, CollisionNames
  <2>3. QED
    BY <2>1, <2>2
<1>2. CASE a = [c EXCEPT !.pose = @ + 1]
  <2>1. a.name = c.name /\ a.pose = c.pose + 1 /\ c.pose \in Int
    BY <1>2 DEF Collisions
  <2>2. e = c
    BY <2>1
  <2>3. e.pose = c.pose + 1
    BY <2>1
  <2>4. QED
    BY <2>1, <2>2, <2>3
<1>3. CASE a = [c EXCEPT !.geometry.type = "box"]
  <2>1. a.name = c.name /\ a.geometry.type = "box"
    BY <1>3 DEF Collisions, Shape
  <2>2. e = c /\ c.geometry.type = "box"
    <3>1. e = c
      BY <2>1
    <3>2. a.geometry.type = e.geometry.type
      BY DEF ShapeMatches
    <3>3. QED
      BY <2>1, <3>1, <3>2
  <2>3. a.pose = c.pose /\ a.geometry.radius = c.geometry.radius /\ a.geometry.height = c.geometry.height
    BY <1>3 DEF Collisions, Shape
  <2>4. a \in Collisions
    BY <1>3 DEF Collisions, Shape, ShapeTypes
  <2>5. QED
    BY <2>1, <2>2, <2>3, <2>4 DEF Collisions, Shape
<1>4. CASE a = [c EXCEPT !.geometry.radius = @ + 1]
  <2>1. a.name = c.name /\ a.geometry.radius = c.geometry.radius + 1 /\ c.geometry.radius \in Int
    BY <1>4 DEF Collisions, Shape
  <2>2. e = c
    BY <2>1
  <2>3. a.geometry.radius = e.geometry.radius
    BY DEF ShapeMatches
  <2>4. QED
    BY <2>1, <2>2, <2>3
<1>5. CASE c.geometry.type = "cylinder" /\ a = [c EXCEPT !.geometry.height = @ + 2]
  <2>1. a.name = c.name /\ a.geometry.height = c.geometry.height + 2 /\ c.geometry.height \in Int
    BY <1>5 DEF Collisions, Shape
  <2>2. QED
    BY <1>5, <2>1 DEF ShapeMatches
<1>6. CASE a = c
  BY <1>6
<1>7. QED
  BY <1>1, <1>2, <1>3, <1>4, <1>5, <1>6 DEF Variations

\* The fields of what Gazebo made of a model, and records that have them.
MadeFields == {"expected", "present", "static", "pose", "links", "collisions", "visuals"}
IsMade(r) == r = [f \in MadeFields |-> r[f]]

\* Records of what was made are equal when their fields are.
LEMMA MadeEqual ==
    ASSUME NEW r, IsMade(r), NEW t, IsMade(t), \A f \in MadeFields : r[f] = t[f]
    PROVE  r = t
BY DEF IsMade

\* The fields of what is made without any damage.
LEMMA FaithfulIs ==
    ASSUME NEW m, NEW r, r = Faithful(m)
    PROVE  /\ IsMade(r) /\ r.expected = m /\ r.present /\ r.static /\ r.pose = m.pose /\ r.links = 1
           /\ r.collisions = ToSet(m.collisions) /\ r.visuals = {c.name : c \in ToSet(m.collisions)}
<1>1. DOMAIN r = MadeFields /\ r = [f \in DOMAIN r |-> r[f]]
  BY DEF Faithful, MadeFields
<1>2. /\ r.expected = m /\ r.present /\ r.static /\ r.pose = m.pose /\ r.links = 1
      /\ r.collisions = ToSet(m.collisions) /\ r.visuals = {c.name : c \in ToSet(m.collisions)}
  BY DEF Faithful
<1>3. QED
  BY <1>1, <1>2 DEF IsMade

\* What Gazebo may have made of a model: it is about that model, and each of its collisions is
\* one of the model's or one of them with something wrong.
MadeOf(m, r) ==
    /\ IsMade(r) /\ r.expected = m /\ r.present \in BOOLEAN /\ r.static \in BOOLEAN
    /\ IsFiniteSet(r.collisions) /\ IsFiniteSet(r.visuals)
    /\ \A a \in r.collisions : \E c \in ToSet(m.collisions) : a \in Variations(c) \cup {c}

\* A model has as many collisions, and names of them, as its sequence is long.
LEMMA CollisionsCount ==
    ASSUME NEW m, IsModel(m)
    PROVE  /\ IsFiniteSet(ToSet(m.collisions)) /\ Cardinality(ToSet(m.collisions)) = Len(m.collisions)
           /\ IsFiniteSet({c.name : c \in ToSet(m.collisions)})
           /\ Cardinality({c.name : c \in ToSet(m.collisions)}) = Len(m.collisions)
<1> DEFINE E == ToSet(m.collisions)
           N == {c.name : c \in E}
<1>1. PICK n \in Nat : n = Len(m.collisions) /\ DOMAIN m.collisions = 1..n
  BY DEF IsModel
<1>2. \A i, j \in 1..n : m.collisions[i].name = m.collisions[j].name => i = j
  BY <1>1 DEF IsModel, Told
<1>3. IsFiniteSet(E) /\ Cardinality(E) = n
  <2> DEFINE f == [i \in 1..n |-> m.collisions[i]]
  <2>1. f \in [1..n -> E] /\ \A y \in E : \E i \in 1..n : y = f[i]
    BY <1>1 DEF ToSet
  <2>2. IsInjective(f)
    BY <1>2 DEF IsInjective
  <2> HIDE DEF f, E
  <2>3. QED
    BY <2>1, <2>2, AsMany
<1>4. IsFiniteSet(N) /\ Cardinality(N) = n
  <2> DEFINE f == [i \in 1..n |-> m.collisions[i].name]
  <2>1. f \in [1..n -> N] /\ \A y \in N : \E i \in 1..n : y = f[i]
    BY <1>1 DEF ToSet
  <2>2. IsInjective(f)
    BY <1>2 DEF IsInjective
  <2> HIDE DEF f, N
  <2>3. QED
    BY <2>1, <2>2, AsMany
<1>5. QED
  BY <1>1, <1>3, <1>4

\* Replacing one collision by another, or leaving one out, keeps them finite and of their kind.
LEMMA Swaps ==
    ASSUME NEW E, IsFiniteSet(E), NEW x, NEW a
    PROVE  IsFiniteSet(E \ {x}) /\ IsFiniteSet((E \ {x}) \cup {a})
<1>1. IsFiniteSet(E \ {x})
  BY FS_Subset, E \ {x} \subseteq E
<1>2. QED
  BY <1>1, FS_AddElement

\* Every damage leaves what Gazebo may have made of the model.
LEMMA DamagedIsMadeOf ==
    ASSUME NEW m, IsModel(m), NEW r \in Damages(m) \cup {Faithful(m)}
    PROVE  MadeOf(m, r)
<1>1. PICK w : w = Faithful(m)
  OBVIOUS
<1>2. /\ IsMade(w) /\ w.expected = m /\ w.present /\ w.static /\ w.pose = m.pose /\ w.links = 1
      /\ w.collisions = ToSet(m.collisions) /\ w.visuals = {c.name : c \in ToSet(m.collisions)}
  BY <1>1, FaithfulIs
<1>3. IsFiniteSet(w.collisions) /\ IsFiniteSet(w.visuals)
  BY <1>2, CollisionsCount
<1>0. ASSUME NEW f \in MadeFields, NEW x, r = [w EXCEPT ![f] = x]
      PROVE  IsMade(r) /\ r[f] = x /\ \A g \in MadeFields : g # f => r[g] = w[g]
  <2>1. DOMAIN w = MadeFields
    BY <1>2 DEF IsMade
  <2>2. DOMAIN r = MadeFields /\ r = [g \in DOMAIN r |-> r[g]]
    BY <1>0, <2>1
  <2>3. QED
    BY <1>0, <2>1, <2>2 DEF IsMade
<1>4. w.present \in BOOLEAN /\ w.static \in BOOLEAN
  BY <1>1 DEF Faithful
<1>5. MadeOf(m, w)
  BY <1>2, <1>3, <1>4 DEF MadeOf
<1>6. ASSUME NEW b \in BOOLEAN, r = [w EXCEPT !["present"] = b] \/ r = [w EXCEPT !["static"] = b] PROVE MadeOf(m, r)
  <2>1. PICK f \in {"present", "static"} : r = [w EXCEPT ![f] = b]
    BY <1>6
  <2>2. f \in MadeFields /\ f \notin {"expected", "collisions", "visuals"}
    BY DEF MadeFields
  <2>3. IsMade(r) /\ r[f] = b /\ \A g \in MadeFields : g # f => r[g] = w[g]
    BY <1>0, <2>1, <2>2, Zenon
  <2>4. r.expected = w.expected /\ r.collisions = w.collisions /\ r.visuals = w.visuals
    BY <2>2, <2>3 DEF MadeFields
  <2>5. r.present \in BOOLEAN /\ r.static \in BOOLEAN
    BY <1>4, <2>3 DEF MadeFields
  <2>6. QED
    BY <1>5, <2>3, <2>4, <2>5 DEF MadeOf
<1>7. ASSUME NEW x, r = [w EXCEPT !["pose"] = x] \/ r = [w EXCEPT !["links"] = x] PROVE MadeOf(m, r)
  <2>1. PICK f \in {"pose", "links"} : r = [w EXCEPT ![f] = x]
    BY <1>7
  <2>2. f \in MadeFields /\ f \notin {"expected", "present", "static", "collisions", "visuals"}
    BY DEF MadeFields
  <2>3. IsMade(r) /\ r[f] = x /\ \A g \in MadeFields : g # f => r[g] = w[g]
    BY <1>0, <2>1, <2>2, Zenon
  <2>4. /\ r.expected = w.expected /\ r.collisions = w.collisions /\ r.visuals = w.visuals
        /\ r.present = w.present /\ r.static = w.static
    BY <2>2, <2>3 DEF MadeFields
  <2>5. QED
    BY <1>5, <2>3, <2>4 DEF MadeOf
<1>8. ASSUME NEW c \in ToSet(m.collisions), NEW a \in Variations(c),
             \/ r = [w EXCEPT !["collisions"] = w["collisions"] \ {c}]
             \/ r = [w EXCEPT !["collisions"] = (w["collisions"] \ {c}) \cup {a}]
      PROVE MadeOf(m, r)
  <2>1. PICK x : r = [w EXCEPT !["collisions"] = x] /\ x \in {w.collisions \ {c}, (w.collisions \ {c}) \cup {a}}
    BY <1>8
  <2>2. "collisions" \in MadeFields
    BY DEF MadeFields
  <2>3. IsMade(r) /\ r["collisions"] = x /\ \A g \in MadeFields : g # "collisions" => r[g] = w[g]
    BY <1>0, <2>1, <2>2, Zenon
  <2>4. r.expected = w.expected /\ r.visuals = w.visuals /\ r.present = w.present /\ r.static = w.static
    BY <2>3 DEF MadeFields
  <2>5. IsFiniteSet(x)
    <3>1. IsFiniteSet(w.collisions \ {c}) /\ IsFiniteSet((w.collisions \ {c}) \cup {a})
      BY <1>3, Swaps
    <3>2. QED
      BY <2>1, <3>1
  <2>6. \A y \in x : y \in ToSet(m.collisions) \/ y = a
    BY <1>2, <2>1
  <2>7. \A y \in x : \E e \in ToSet(m.collisions) : y \in Variations(e) \cup {e}
    BY <1>8, <2>6
  <2>8. QED
    BY <1>5, <2>3, <2>4, <2>5, <2>7 DEF MadeOf
<1>9. ASSUME NEW c \in ToSet(m.collisions), NEW a,
             \/ r = [w EXCEPT !["visuals"] = w["visuals"] \ {c.name}]
             \/ r = [w EXCEPT !["visuals"] = (w["visuals"] \ {c.name}) \cup {a}]
      PROVE MadeOf(m, r)
  <2>1. PICK x : r = [w EXCEPT !["visuals"] = x] /\ x \in {w.visuals \ {c.name}, (w.visuals \ {c.name}) \cup {a}}
    BY <1>9
  <2>2. "visuals" \in MadeFields
    BY DEF MadeFields
  <2>3. IsMade(r) /\ r["visuals"] = x /\ \A g \in MadeFields : g # "visuals" => r[g] = w[g]
    BY <1>0, <2>1, <2>2, Zenon
  <2>4. r.expected = w.expected /\ r.collisions = w.collisions /\ r.present = w.present /\ r.static = w.static
    BY <2>3 DEF MadeFields
  <2>5. IsFiniteSet(x)
    <3>1. IsFiniteSet(w.visuals \ {c.name}) /\ IsFiniteSet((w.visuals \ {c.name}) \cup {a})
      BY <1>3, Swaps
    <3>2. QED
      BY <2>1, <3>1
  <2>6. QED
    BY <1>5, <2>3, <2>4, <2>5 DEF MadeOf
<1>10. CASE r = [w EXCEPT !.present = FALSE] \/ r = [w EXCEPT !.static = FALSE]
  BY <1>6, <1>10
<1>11. CASE r = [w EXCEPT !.pose = @ + 1] \/ r = [w EXCEPT !.links = 2]
  BY <1>7, <1>11
<1>12. ASSUME NEW c \in ToSet(m.collisions),
              r \in { [w EXCEPT !.visuals = @ \ {c.name}],
                      [w EXCEPT !.visuals = (@ \ {c.name}) \cup {<<"other">>}] }
       PROVE  MadeOf(m, r)
  BY <1>9, <1>12
<1>13. ASSUME NEW c \in ToSet(m.collisions),
              \/ r = [w EXCEPT !.collisions = @ \ {c}]
              \/ \E a \in Variations(c) : r = [w EXCEPT !.collisions = (@ \ {c}) \cup {a}]
       PROVE  MadeOf(m, r)
  <2>1. [c EXCEPT !.pose = @ + 1] \in Variations(c)
    BY DEF Variations
  <2>2. QED
    BY <1>8, <1>13, <2>1
<1>14. \/ r = w
       \/ r = [w EXCEPT !.present = FALSE] \/ r = [w EXCEPT !.static = FALSE]
       \/ r = [w EXCEPT !.pose = @ + 1] \/ r = [w EXCEPT !.links = 2]
       \/ \E c \in ToSet(m.collisions) :
             \/ r \in { [w EXCEPT !.visuals = @ \ {c.name}],
                        [w EXCEPT !.visuals = (@ \ {c.name}) \cup {<<"other">>}] }
             \/ r = [w EXCEPT !.collisions = @ \ {c}]
             \/ \E a \in Variations(c) : r = [w EXCEPT !.collisions = (@ \ {c}) \cup {a}]
  BY <1>1 DEF Damages, Variations
<1>15. QED
  BY <1>5, <1>10, <1>11, <1>12, <1>13, <1>14

\* What is shown of what was made: its pose is hidden where it is not to be verified.
Shown(r, pose) == IF verifyPose \/ ~r.present THEN r ELSE [r EXCEPT !.pose = pose]

\* What is shown differs in its pose at most.
LEMMA ShownIs ==
    ASSUME NEW r, IsMade(r), NEW pose, NEW s, s = Shown(r, pose)
    PROVE  /\ IsMade(s) /\ \A f \in MadeFields \ {"pose"} : s[f] = r[f]
           /\ (verifyPose \/ ~r.present) => s.pose = r.pose
           /\ ~(verifyPose \/ ~r.present) => s.pose = pose
<1>1. DOMAIN r = MadeFields /\ "pose" \in MadeFields
  BY DEF IsMade, MadeFields
<1>2. CASE verifyPose \/ ~r.present
  BY <1>2 DEF Shown
<1>3. CASE ~(verifyPose \/ ~r.present)
  <2>1. s = [r EXCEPT !["pose"] = pose]
    BY <1>3 DEF Shown
  <2>2. DOMAIN s = MadeFields /\ s = [g \in DOMAIN s |-> s[g]]
    BY <1>1, <2>1
  <2>3. s["pose"] = pose
    BY <1>1, <2>1
  <2>4. QED
    BY <1>1, <1>3, <2>1, <2>2, <2>3 DEF IsMade
<1>4. QED
  BY <1>2, <1>3

\* Collisions and visuals that are accepted are those that were meant.
LEMMA PartsAreMeant ==
    ASSUME NEW m, IsModel(m), MadeOf(m, made),
           Cardinality(made.collisions) = Len(m.collisions), Cardinality(made.visuals) = Len(m.collisions)
    PROVE  (\A i \in DOMAIN m.collisions : PartMatches(m.collisions[i]))
               <=> /\ made.collisions = ToSet(m.collisions)
                   /\ made.visuals = {c.name : c \in ToSet(m.collisions)}
<1> DEFINE E == ToSet(m.collisions)
           N == {c.name : c \in E}
<1>1. E \subseteq Collisions
  BY DEF IsModel, ToSet
<1>2. ASSUME NEW e \in E, NEW c \in E, e.name = c.name PROVE e = c
  BY <1>2 DEF IsModel, Told, ToSet
<1>3. /\ IsFiniteSet(made.collisions) /\ IsFiniteSet(made.visuals)
      /\ IsFiniteSet(E) /\ IsFiniteSet(N) /\ Cardinality(E) = Cardinality(made.collisions)
      /\ Cardinality(N) = Cardinality(made.visuals)
  BY CollisionsCount DEF MadeOf
<1>4. (\A i \in DOMAIN m.collisions : PartMatches(m.collisions[i])) <=> \A e \in E : PartMatches(e)
  BY DEF ToSet
<1>5. ASSUME \A e \in E : PartMatches(e) PROVE made.collisions = E /\ made.visuals = N
  <2>1. ASSUME NEW e \in E PROVE e \in made.collisions /\ e.name \in made.visuals
    <3>1. PICK a \in made.collisions : /\ a.name = e.name /\ e.name \in made.visuals /\ a.pose = e.pose
                                       /\ ShapeMatches(a.geometry, e.geometry)
      BY <1>5 DEF PartMatches
    <3>2. PICK c \in E : a \in Variations(c) \cup {c}
      BY DEF MadeOf
    <3>3. e.name = c.name => e = c
      BY <1>2
    <3>4. a = e
      BY <1>1, <3>1, <3>2, <3>3, Tells
    <3>5. QED
      BY <3>1, <3>4
  <2>2. E \subseteq made.collisions /\ N \subseteq made.visuals
    BY <2>1
  <2> HIDE DEF E, N
  <2>3. QED
    BY <1>3, <2>2, FS_Subset
<1>6. ASSUME made.collisions = E, made.visuals = N, NEW e \in E PROVE PartMatches(e)
  <2>1. e \in made.collisions /\ e.name \in made.visuals
    BY <1>6
  <2>2. QED
    BY <2>1 DEF PartMatches, ShapeMatches
<1>7. QED
  BY <1>4, <1>5, <1>6

\* The check decides exactly whether what is shown is whole.
LEMMA VerdictFollows ==
    ASSUME NEW m, IsModel(m), MadeOf(m, made), verifyPose \in BOOLEAN,
           NEW whole, whole = Faithful(m), NEW shown, shown = Shown(made, whole.pose)
    PROVE  /\ m.authored => (VerifySceneModel <=> made.present /\ made.static /\ shown.pose = whole.pose)
           /\ ~m.authored => (VerifySceneModel <=> shown = whole)
<1>1. /\ IsMade(whole) /\ whole.expected = m /\ whole.present /\ whole.static /\ whole.pose = m.pose
      /\ whole.links = 1 /\ whole.collisions = ToSet(m.collisions)
      /\ whole.visuals = {c.name : c \in ToSet(m.collisions)}
  BY FaithfulIs
<1>2. whole.present \in BOOLEAN /\ whole.static \in BOOLEAN
  BY DEF Faithful
<1>3. /\ IsMade(shown) /\ \A f \in MadeFields \ {"pose"} : shown[f] = made[f]
      /\ (verifyPose \/ ~made.present) => shown.pose = made.pose
      /\ ~(verifyPose \/ ~made.present) => shown.pose = whole.pose
  BY ShownIs DEF MadeOf
<1>4. /\ shown.expected = made.expected /\ shown.present = made.present /\ shown.static = made.static
      /\ shown.links = made.links /\ shown.collisions = made.collisions /\ shown.visuals = made.visuals
  BY <1>3 DEF MadeFields
<1>5. /\ made.expected = m /\ made.present \in BOOLEAN /\ made.static \in BOOLEAN
  BY DEF MadeOf
<1>6. made.present => ((verifyPose => made.pose = m.pose) <=> shown.pose = whole.pose)
  BY <1>1, <1>3
<1>7. shown = whole <=> /\ made.present /\ made.static /\ shown.pose = whole.pose /\ made.links = 1
                        /\ made.collisions = ToSet(m.collisions)
                        /\ made.visuals = {c.name : c \in ToSet(m.collisions)}
  <2>1. ASSUME shown = whole
        PROVE  /\ made.present /\ made.static /\ shown.pose = whole.pose /\ made.links = 1
               /\ made.collisions = ToSet(m.collisions)
               /\ made.visuals = {c.name : c \in ToSet(m.collisions)}
    BY <1>1, <1>4, <2>1
  <2>2. ASSUME made.present, made.static, shown.pose = whole.pose, made.links = 1,
               made.collisions = whole.collisions, made.visuals = whole.visuals
        PROVE  shown = whole
    <3>1. shown.present = whole.present /\ shown.static = whole.static
      BY <1>1, <1>2, <1>4, <1>5, <2>2
    <3>2. /\ shown.expected = whole.expected /\ shown.links = whole.links
          /\ shown.collisions = whole.collisions /\ shown.visuals = whole.visuals
      BY <1>1, <1>4, <1>5, <2>2
    <3>3. \A f \in MadeFields : shown[f] = whole[f]
      BY <2>2, <3>1, <3>2 DEF MadeFields
    <3>4. QED
      BY <1>1, <1>3, <3>3, MadeEqual
  <2>3. QED
    BY <1>1, <2>1, <2>2
<1>8. /\ Cardinality(ToSet(m.collisions)) = Len(m.collisions)
      /\ Cardinality({c.name : c \in ToSet(m.collisions)}) = Len(m.collisions)
  BY CollisionsCount
<1>9. /\ Cardinality(made.collisions) = Len(m.collisions) /\ Cardinality(made.visuals) = Len(m.collisions)
      /\ \A i \in DOMAIN m.collisions : PartMatches(m.collisions[i])
      <=> /\ made.collisions = ToSet(m.collisions)
          /\ made.visuals = {c.name : c \in ToSet(m.collisions)}
  BY <1>8, PartsAreMeant
<1>10. VerifySceneModel <=> /\ made.present /\ made.static /\ shown.pose = whole.pose
                            /\ m.authored \/ (made.links = 1 /\ made.collisions = ToSet(m.collisions)
                                              /\ made.visuals = {c.name : c \in ToSet(m.collisions)})
  <2>1. VerifySceneModel <=>
            /\ made.present /\ made.static /\ (verifyPose => made.pose = m.pose)
            /\ m.authored \/ (made.links = 1 /\ Cardinality(made.collisions) = Len(m.collisions)
                              /\ Cardinality(made.visuals) = Len(m.collisions)
                              /\ \A i \in DOMAIN m.collisions : PartMatches(m.collisions[i]))
    BY <1>5 DEF VerifySceneModel
  <2>2. QED
    BY <1>6, <1>9, <2>1
<1>11. QED
  BY <1>7, <1>10

\* The check of what Gazebo made accepts exactly what was meant, whatever single damage it has
\* (scene_model.cpp:619-707).
THEOREM VerdictIsRight == CompilerSpec => []VerdictIsExact
<1>1. CompilerInv => VerdictIsExact
  <2> SUFFICES ASSUME CompilerInv, verdict # "none" PROVE VerdictIsExact
    BY DEF VerdictIsExact
  <2>1. IsDocument(doc) /\ Consumable(doc)
    BY SceneCompilerAssumption DEF CompilerInv
  <2>2. PICK m \in Inserted(doc) : made \in Damages(m) \cup {Faithful(m)}
    BY DEF CompilerInv
  <2>3. IsModel(m)
    BY <2>1, InsertedAreModels
  <2>4. MadeOf(m, made)
    BY <2>2, <2>3, DamagedIsMadeOf
  <2> DEFINE whole == Faithful(made.expected)
             shown == Shown(made, whole.pose)
  <2>5. made.expected = m
    BY <2>4 DEF MadeOf
  <2>6. verifyPose \in BOOLEAN /\ ((verdict = "accepted") <=> VerifySceneModel)
    BY DEF CompilerInv
  <2>7. /\ m.authored => (VerifySceneModel <=> made.present /\ made.static /\ shown.pose = whole.pose)
        /\ ~m.authored => (VerifySceneModel <=> shown = whole)
    <3>1. PICK p, q : p = whole /\ q = Shown(made, p.pose)
      OBVIOUS
    <3>2. p = Faithful(m)
      BY <2>5, <3>1
    <3>3. QED
      BY <2>3, <2>4, <2>6, <3>1, <3>2, VerdictFollows
  <2>8. QED
    BY <2>5, <2>6, <2>7 DEF VerdictIsExact, Shown
<1>2. QED
  BY <1>1, CompilerInvariant, PTL

-------------------------------------------------------------------------------
Loops(n, V, a, step) == {f \in [1..n -> V] : f[1] = a /\ \A i \in 2..n : f[i] = step[i][f[i - 1]]}

\* A loop defines a function: there is one that begins with a and takes each of the steps.
LEMMA Recursion ==
    ASSUME NEW n \in Nat \ {0}, NEW V, NEW a \in V, NEW step \in [2..n -> [V -> V]]
    PROVE  Loops(n, V, a, step) # {}
<1> DEFINE Steps(f, k) == f[1] = a /\ \A i \in 2..k : f[i] = step[i][f[i - 1]]
           T == {k \in 1..n : \E f \in [1..k -> V] : Steps(f, k)}
<1>1. 1 \in T
  <2>1. \E f \in [1..1 -> V] : Steps(f, 1)
    <3> DEFINE one == [i \in 1..1 |-> a]
    <3>1. one \in [1..1 -> V] /\ Steps(one, 1)
      OBVIOUS
    <3> HIDE DEF one
    <3>2. QED
      BY <3>1
  <2>2. 1 \in 1..n
    OBVIOUS
  <2>3. QED
    BY <2>1, <2>2
<1>2. ASSUME NEW k \in 1..n, k \in T, k < n PROVE k + 1 \in T
  <2>1. PICK f \in [1..k -> V] : Steps(f, k)
    BY <1>2
  <2>2. k + 1 \in 2..n /\ k + 1 \in 1..n /\ (k + 1) - 1 = k /\ k \in 1..k
    BY <1>2
  <2> DEFINE x == step[k + 1][f[k]]
             h == [i \in 1..(k + 1) |-> IF i = k + 1 THEN x ELSE f[i]]
  <2>3. x \in V
    BY <2>2
  <2> HIDE DEF x
  <2>4. h \in [1..(k + 1) -> V] /\ h[k + 1] = x /\ \A i \in 1..k : h[i] = f[i]
    BY <2>3
  <2> HIDE DEF h
  <2>5. h[1] = a
    BY <2>1, <2>4, 1 \in 1..k
  <2>6. ASSUME NEW i \in 2..(k + 1) PROVE h[i] = step[i][h[i - 1]]
    <3>1. CASE i = k + 1
      BY <2>2, <2>4, <3>1 DEF x
    <3>2. CASE i # k + 1
      <4>1. i \in 2..k /\ i \in 1..k /\ i - 1 \in 1..k
        BY <3>2
      <4>2. f[i] = step[i][f[i - 1]]
        BY <2>1, <4>1
      <4>3. QED
        BY <2>4, <4>1, <4>2
    <3>3. QED
      BY <3>1, <3>2
  <2>7. Steps(h, k + 1)
    BY <2>5, <2>6
  <2>8. QED
    BY <2>2, <2>4, <2>7
<1>3. n \in T
  <2>1. T \in SUBSET (1..n)
    OBVIOUS
  <2> HIDE DEF T
  <2>2. T = 1..n
    BY <1>1, <1>2, <2>1, UpTo
  <2>3. QED
    BY <2>2
<1>4. QED
  BY <1>3 DEF Loops

\* What such a loop does has a value of V at every step.
LEMMA Typed ==
    ASSUME NEW n \in Nat \ {0}, NEW V, NEW h, h[1] \in V,
           \A i \in 2..n : h[i - 1] \in V => h[i] \in V
    PROVE  \A i \in 1..n : h[i] \in V
<1> DEFINE T == {i \in 1..n : h[i] \in V}
<1>1. 1 \in T
  OBVIOUS
<1>2. ASSUME NEW i \in 1..n, i \in T, i < n PROVE i + 1 \in T
  <2>1. i + 1 \in 2..n /\ i + 1 \in 1..n /\ (i + 1) - 1 = i /\ h[i] \in V
    BY <1>2
  <2>2. h[i + 1] \in V
    BY <2>1
  <2>3. QED
    BY <2>1, <2>2
<1>3. T \in SUBSET (1..n)
  OBVIOUS
<1>4. T = 1..n
  <2> HIDE DEF T
  <2>1. QED
    BY <1>1, <1>2, <1>3, UpTo
<1>5. QED
  BY <1>4

\* The poses of a path.
Poses == [at : Points, yaw : Yaws]

\* A segment takes no time exactly when its ends are the same pose.
LEMMA DurationIs ==
    ASSUME NEW from \in Poses, NEW to \in Poses
    PROVE  Duration(from, to) \in Nat /\ (Duration(from, to) = 0 <=> from = to)
<1>0. /\ from.at \in Points /\ to.at \in Points /\ from.yaw \in Yaws /\ to.yaw \in Yaws
      /\ from = to <=> from.at = to.at /\ from.yaw = to.yaw
  BY DEF Poses
<1>5. \A a, b \in Nat \ {0} : a * b \in Nat \ {0}
  OBVIOUS
<1>6. \A a \in Nat \ {0}, b \in Nat : a * b \in Nat /\ (a * b = 0 <=> b = 0)
  OBVIOUS
<1>1. CASE from.at # to.at
  <2>1. Distance(from.at, to.at) \in Nat \ {0} /\ Pace \in Nat \ {0}
    BY <1>0, <1>1, ObstaclePathAssumption
  <2>2. Pace * Distance(from.at, to.at) \in Nat \ {0}
    BY <1>5, <2>1
  <2>3. QED
    BY <1>0, <1>1, <2>2 DEF Duration
<1>2. CASE from.at = to.at
  <2>1. Between(from.yaw, to.yaw) \in Nat /\ (Between(from.yaw, to.yaw) = 0 <=> from.yaw = to.yaw)
    <3> DEFINE d == to.yaw - from.yaw
    <3>0. \A a, b \in Yaws : b - a \in -359..359 /\ (b - a = 0 <=> a = b)
      BY DEF Yaws
    <3>1. d \in -359..359 /\ (d = 0 <=> from.yaw = to.yaw)
      <4>1. from.yaw \in Yaws /\ to.yaw \in Yaws
        BY <1>0
      <4> HIDE DEF d
      <4>2. to.yaw - from.yaw \in -359..359 /\ (to.yaw - from.yaw = 0 <=> from.yaw = to.yaw)
        BY <3>0, <4>1, Zenon
      <4>3. QED
        BY <4>2 DEF d
    <3> HIDE DEF d
    <3>2. \A x \in 0..359 : x % 360 = x
      OBVIOUS
    <3>7. \A x \in -359..-1 : x % 360 = x + 360
      OBVIOUS
    <3>3. PICK m : m = d % 360
      OBVIOUS
    <3>4. m \in 0..359 /\ (m = 0 <=> d = 0)
      <4>1. CASE d \in 0..359
        BY <3>2, <3>3, <4>1
      <4>2. CASE d \in -359..-1
        <5>1. m = d + 360
          BY <3>3, <3>7, <4>2
        <5>2. QED
          BY <4>2, <5>1
      <4>3. QED
        BY <3>1, <4>1, <4>2
    <3>5. Between(from.yaw, to.yaw) = IF m <= 180 THEN m ELSE 360 - m
      BY <3>3, Zenon DEF Between, d
    <3>6. QED
      BY <3>1, <3>4, <3>5
  <2>2. TurnPace \in Nat \ {0}
    BY ObstaclePathAssumption
  <2>3. QED
    BY <1>0, <1>2, <1>6, <2>1, <2>2 DEF Duration
<1>3. QED
  BY <1>1, <1>2

\* The knots count the time from pose to pose.
LEMMA KnotsAre ==
    ASSUME NEW n \in Nat \ {0}, NEW poses \in [1..n -> Poses]
    PROVE  /\ Knots(poses) \in [1..n -> Nat] /\ Knots(poses)[1] = 0
           /\ \A i \in 2..n : Knots(poses)[i] = Knots(poses)[i - 1] + Duration(poses[i - 1], poses[i])
<1> DEFINE Def(h, i) == IF i = 1 THEN 0 ELSE h[i - 1] + Duration(poses[i - 1], poses[i])
           knot == CHOOSE h : h = [i \in 1..n |-> Def(h, i)]
           step == [i \in 2..n |-> [v \in Nat |-> v + Duration(poses[i - 1], poses[i])]]
<1>1. \A i \in 2..n : Duration(poses[i - 1], poses[i]) \in Nat
  <2>1. ASSUME NEW i \in 2..n PROVE Duration(poses[i - 1], poses[i]) \in Nat
    <3>1. poses[i - 1] \in Poses /\ poses[i] \in Poses
      OBVIOUS
    <3>2. QED
      BY <3>1, DurationIs
  <2>2. QED
    BY <2>1
<1>2. step \in [2..n -> [Nat -> Nat]]
  BY <1>1
<1>3. PICK f \in [1..n -> Nat] : f[1] = 0 /\ \A i \in 2..n : f[i] = step[i][f[i - 1]]
  <2> HIDE DEF step
  <2>1. 0 \in Nat
    OBVIOUS
  <2>2. Loops(n, Nat, 0, step) # {}
    BY <1>2, <2>1, Recursion, Zenon
  <2>3. QED
    BY <2>2 DEF Loops
<1>4. \A i \in 2..n : f[i] = f[i - 1] + Duration(poses[i - 1], poses[i])
  <2>1. \A i \in 2..n : i - 1 \in 1..n
    OBVIOUS
  <2>2. QED
    BY <1>3, <2>1
<1>5. f = [i \in 1..n |-> Def(f, i)]
  <2>1. \A i \in 1..n : i # 1 => i \in 2..n
    OBVIOUS
  <2>2. \A i \in 1..n : f[i] = Def(f, i)
    BY <1>3, <1>4, <2>1
  <2> HIDE DEF Def
  <2>3. QED
    BY <2>2
<1>6. knot = [i \in 1..n |-> Def(knot, i)]
  BY <1>5
<1>7. Knots(poses) = knot
  BY DEF Knots
<1> HIDE DEF knot
<1>8. /\ DOMAIN knot = 1..n /\ knot[1] = 0
      /\ \A i \in 2..n : knot[i] = knot[i - 1] + Duration(poses[i - 1], poses[i])
  <2>1. \A i \in 2..n : i \in 1..n /\ i # 1
    OBVIOUS
  <2>2. \A i \in 1..n : knot[i] = Def(knot, i)
    BY <1>6
  <2>3. DOMAIN knot = 1..n
    BY <1>6
  <2>4. QED
    BY <2>1, <2>2, <2>3
<1>9. \A i \in 1..n : knot[i] \in Nat
  <2>1. \A i \in 2..n : knot[i - 1] \in Nat => knot[i] \in Nat
    BY <1>1, <1>8
  <2>2. knot[1] \in Nat
    BY <1>8
  <2>3. QED
    BY <2>1, <2>2, Typed
<1>10. knot \in [1..n -> Nat]
  BY <1>6, <1>9
<1>11. QED
  BY <1>7, <1>8, <1>10

\* The points of a path of n, without repetitions, up to each of them.
Visited(v, n, p) ==
    /\ v \in [1..n -> Seq(Points)]
    /\ v[1] = <<p[1]>>
    /\ \A i \in 2..n : v[i] = IF p[i] = p[i - 1] THEN v[i - 1] ELSE Append(v[i - 1], p[i])

\* Every path has them.
LEMMA SomeVisited ==
    ASSUME NEW n \in Nat \ {0}, NEW p \in [1..n -> Points]
    PROVE  \E v : Visited(v, n, p)
<1> DEFINE V == Seq(Points)
           a == <<p[1]>>
           step == [i \in 2..n |-> [s \in V |-> IF p[i] = p[i - 1] THEN s ELSE Append(s, p[i])]]
<1>1. a \in V
  <2>1. p[1] \in Points
    OBVIOUS
  <2>2. QED
    BY <2>1
<1>2. step \in [2..n -> [V -> V]]
  <2>1. \A i \in 2..n : \A s \in V : (IF p[i] = p[i - 1] THEN s ELSE Append(s, p[i])) \in V
    <3>1. \A i \in 2..n : p[i] \in Points
      OBVIOUS
    <3>2. QED
      BY <3>1
  <2> HIDE DEF V
  <2>2. QED
    BY <2>1
<1>3. PICK v : v \in Loops(n, V, a, step)
  <2> HIDE DEF V, a, step
  <2>1. Loops(n, V, a, step) # {}
    BY <1>1, <1>2, Recursion, Zenon
  <2>2. QED
    BY <2>1
<1>4. Visited(v, n, p)
  <2>1. \A i \in 2..n : i - 1 \in 1..n
    OBVIOUS
  <2>2. v \in [1..n -> V] /\ v[1] = a /\ \A i \in 2..n : v[i] = step[i][v[i - 1]]
    BY <1>3 DEF Loops
  <2>3. \A i \in 2..n : v[i - 1] \in V
    BY <2>1, <2>2
  <2> HIDE DEF V
  <2>4. \A i \in 2..n : v[i] = IF p[i] = p[i - 1] THEN v[i - 1] ELSE Append(v[i - 1], p[i])
    BY <2>2, <2>3
  <2> USE DEF V
  <2>5. QED
    BY <2>2, <2>4 DEF Visited
<1>5. QED
  BY <1>4

\* The last of them is what the path visits.
LEMMA VisitsAre ==
    ASSUME NEW n \in Nat \ {0}, NEW p \in [1..n -> Points], NEW v, Visited(v, n, p)
    PROVE  Visits(p) = v[n]
<1> DEFINE Def(h, i) == IF i = 1 THEN <<p[1]>>
                        ELSE IF p[i] = p[i - 1] THEN h[i - 1] ELSE Append(h[i - 1], p[i])
           visit == CHOOSE h : h = [i \in 1..n |-> Def(h, i)]
<1>1. \A i \in 1..n : i # 1 => i \in 2..n
  OBVIOUS
<1>2. v = [i \in 1..n |-> Def(v, i)]
  <2>1. \A i \in 1..n : v[i] = Def(v, i)
    BY <1>1 DEF Visited
  <2> HIDE DEF Def
  <2>2. QED
    BY <2>1 DEF Visited
<1>3. visit = [i \in 1..n |-> Def(visit, i)]
  <2> HIDE DEF Def
  <2>1. QED
    BY <1>2
<1> HIDE DEF visit
<1>4. \A i \in 1..n : visit[i] = Def(visit, i)
  <2> HIDE DEF Def
  <2>1. QED
    BY <1>3
<1> DEFINE T == {i \in 1..n : visit[i] = v[i]}
<1>5. 1 \in T
  <2>1. 1 \in 1..n
    OBVIOUS
  <2>2. visit[1] = Def(visit, 1)
    BY <1>4, <2>1, Zenon
  <2>3. v[1] = <<p[1]>>
    BY DEF Visited
  <2>4. QED
    BY <2>1, <2>2, <2>3
<1>6. ASSUME NEW i \in 1..n, i \in T, i < n PROVE i + 1 \in T
  <2>1. i + 1 \in 2..n /\ i + 1 \in 1..n /\ (i + 1) - 1 = i /\ visit[i] = v[i] /\ i + 1 # 1
    BY <1>6
  <2>2. visit[i + 1] = Def(visit, i + 1)
    <3> HIDE DEF Def
    <3>1. QED
      BY <1>4, <2>1
  <2>3. v[i + 1] = IF p[i + 1] = p[i] THEN v[i] ELSE Append(v[i], p[i + 1])
    <3>1. v[i + 1] = IF p[i + 1] = p[(i + 1) - 1] THEN v[(i + 1) - 1] ELSE Append(v[(i + 1) - 1], p[i + 1])
      BY <2>1, Zenon DEF Visited
    <3>2. QED
      BY <2>1, <3>1, Zenon
  <2>4. visit[i + 1] = v[i + 1]
    BY <2>1, <2>2, <2>3, Zenon
  <2>5. QED
    BY <2>1, <2>4
<1>7. T = 1..n
  <2>1. T \in SUBSET (1..n)
    OBVIOUS
  <2> HIDE DEF T
  <2>2. QED
    BY <1>5, <1>6, <2>1, UpTo
<1>8. visit[n] = v[n]
  BY <1>7
<1>9. Len(p) = n /\ DOMAIN p = 1..n
  OBVIOUS
<1>10. Visits(p) = visit[n]
  BY <1>9 DEF Visits, visit
<1>11. QED
  BY <1>8, <1>10

\* A point that follows the last one is visited unless it is the last one again.
LEMMA VisitsAppend ==
    ASSUME NEW n \in Nat \ {0}, NEW p \in [1..n -> Points], NEW x \in Points,
           NEW q \in [1..(n + 1) -> Points], q[n + 1] = x, \A i \in 1..n : q[i] = p[i]
    PROVE  Visits(q) = IF x = p[n] THEN Visits(p) ELSE Append(Visits(p), x)
<1>1. PICK v : Visited(v, n, p)
  BY SomeVisited
<1> DEFINE last == IF x = p[n] THEN v[n] ELSE Append(v[n], x)
           w == [i \in 1..(n + 1) |-> IF i = n + 1 THEN last ELSE v[i]]
<1>2. last \in Seq(Points)
  <2>1. v[n] \in Seq(Points)
    BY <1>1 DEF Visited
  <2>2. QED
    BY <2>1
<1>3. w \in [1..(n + 1) -> Seq(Points)] /\ w[n + 1] = last /\ \A i \in 1..n : w[i] = v[i]
  <2> HIDE DEF last
  <2>1. \A i \in 1..n : v[i] \in Seq(Points)
    BY <1>1 DEF Visited
  <2>2. QED
    BY <1>2, <2>1
<1> HIDE DEF w
<1>4. w[1] = <<q[1]>>
  <2>1. 1 \in 1..n
    OBVIOUS
  <2>2. QED
    BY <1>1, <1>3, <2>1 DEF Visited
<1>5. ASSUME NEW i \in 2..(n + 1)
      PROVE  w[i] = IF q[i] = q[i - 1] THEN w[i - 1] ELSE Append(w[i - 1], q[i])
  <2>1. CASE i = n + 1
    <3>1. i - 1 = n /\ n \in 1..n
      BY <2>1
    <3>2. q[i] = x /\ q[i - 1] = p[n] /\ w[i - 1] = v[n] /\ w[i] = last
      BY <1>3, <2>1, <3>1
    <3>3. QED
      BY <3>2
  <2>2. CASE i # n + 1
    <3>1. i \in 2..n /\ i \in 1..n /\ i - 1 \in 1..n
      BY <2>2
    <3>2. q[i] = p[i] /\ q[i - 1] = p[i - 1] /\ w[i - 1] = v[i - 1] /\ w[i] = v[i]
      BY <1>3, <3>1
    <3>3. v[i] = IF p[i] = p[i - 1] THEN v[i - 1] ELSE Append(v[i - 1], p[i])
      BY <1>1, <3>1 DEF Visited
    <3>4. QED
      BY <3>2, <3>3
  <2>3. QED
    BY <2>1, <2>2
<1>6. Visited(w, n + 1, q)
  BY <1>3, <1>4, <1>5 DEF Visited
<1>7. Visits(q) = w[n + 1]
  <2>1. n + 1 \in Nat \ {0}
    OBVIOUS
  <2>2. QED
    BY <1>6, <2>1, VisitsAre
<1>8. Visits(p) = v[n]
  BY <1>1, VisitsAre
<1>9. QED
  BY <1>3, <1>7, <1>8

\* The frames that are kept up to each of n, of which those that share a time are equal.
Frames(F, n, S, times, fr) ==
    /\ F \in [1..n -> Seq(S)]
    /\ F[1] = <<fr[1]>>
    /\ \A i \in 2..n : F[i] = IF times[i] = times[i - 1] THEN F[i - 1] ELSE Append(F[i - 1], fr[i])
Keeps(kept, n, S, times, fr) ==
    /\ kept \in Seq(1..n)
    /\ \E F : Frames(F, n, S, times, fr) /\ F[n] = [j \in DOMAIN kept |-> fr[kept[j]]]

\* The last of several frames with the same time stands for them.
LEMMA FramesAre ==
    ASSUME NEW n \in Nat \ {0}, NEW times \in [1..n -> Nat], NEW S, NEW fr \in [1..n -> S],
           \A i \in 2..n : times[i] = times[i - 1] => fr[i] = fr[i - 1]
    PROVE  Keeps(UniqueKeyframeIndices(times), n, S, times, fr)
<1> DEFINE V == Seq(1..n)
           Add(s, i) == IF i = n \/ times[i + 1] # times[i] THEN Append(s, i) ELSE s
           Def(h, i) == Add(IF i = 1 THEN <<>> ELSE h[i - 1], i)
           index == CHOOSE h : h = [i \in 1..n |-> Def(h, i)]
           a == Add(<<>>, 1)
           step == [i \in 2..n |-> [s \in V |-> Add(s, i)]]
<1>1. \A s \in V : \A i \in 1..n : Add(s, i) \in V
  <2>1. \A s \in V : \A i \in 1..n : Append(s, i) \in V
    OBVIOUS
  <2> HIDE DEF V
  <2>2. QED
    BY <2>1
<1>2. a \in V
  <2>1. <<>> \in V /\ 1 \in 1..n
    OBVIOUS
  <2> HIDE DEF Add, V
  <2>2. QED
    BY <1>1, <2>1
<1>3. step \in [2..n -> [V -> V]]
  <2>1. \A i \in 2..n : i \in 1..n
    OBVIOUS
  <2> HIDE DEF Add, V
  <2>2. QED
    BY <1>1, <2>1
<1>4. PICK f : f \in Loops(n, V, a, step)
  <2> HIDE DEF V, a, step
  <2>1. Loops(n, V, a, step) # {}
    BY <1>2, <1>3, Recursion, Zenon
  <2>2. QED
    BY <2>1
<1>5. \A i \in 2..n : i - 1 \in 1..n /\ i \in 1..n /\ i # 1
  OBVIOUS
<1>6. f = [i \in 1..n |-> Def(f, i)]
  <2>1. f \in [1..n -> V] /\ f[1] = a /\ \A i \in 2..n : f[i] = step[i][f[i - 1]]
    BY <1>4 DEF Loops
  <2>2. \A i \in 2..n : f[i] = Add(f[i - 1], i)
    <3> HIDE DEF Add, V
    <3>1. QED
      BY <1>5, <2>1
  <2>3. \A i \in 1..n : f[i] = Def(f, i)
    <3>1. \A i \in 1..n : i # 1 => i \in 2..n
      OBVIOUS
    <3> HIDE DEF Add, V
    <3>2. QED
      BY <2>1, <2>2, <3>1
  <2> HIDE DEF Def, V
  <2>4. QED
    BY <2>1, <2>3
<1>7. index = [i \in 1..n |-> Def(index, i)]
  <2> HIDE DEF Def
  <2>1. QED
    BY <1>6
<1>8. Len(times) = n /\ DOMAIN times = 1..n
  OBVIOUS
<1>9. UniqueKeyframeIndices(times) = index[n]
  BY <1>8 DEF UniqueKeyframeIndices, index
<1> HIDE DEF index
<1>10. index[1] = Add(<<>>, 1) /\ \A i \in 2..n : index[i] = Add(index[i - 1], i)
  <2>1. \A i \in 1..n : index[i] = Def(index, i)
    <3> HIDE DEF Def
    <3>1. QED
      BY <1>7
  <2>2. 1 \in 1..n
    OBVIOUS
  <2> HIDE DEF Add
  <2>3. QED
    BY <1>5, <2>1, <2>2
<1>11. \A i \in 1..n : index[i] \in V
  <2> HIDE DEF V, Add
  <2>1. \A i \in 2..n : index[i - 1] \in V => index[i] \in V
    BY <1>1, <1>5, <1>10
  <2>2. index[1] \in V
    BY <1>2, <1>10
  <2>3. QED
    BY <2>1, <2>2, Typed
<1> DEFINE B(i) == IF i = 1 THEN <<>> ELSE index[i - 1]
           Laid(s, i) == [j \in 1..(Len(s) + 1) |-> fr[IF j = Len(s) + 1 THEN i ELSE s[j]]]
           F == [i \in 1..n |-> Laid(B(i), i)]
<1>12. \A i \in 1..n : B(i) \in V
  <2>1. ASSUME NEW i \in 1..n PROVE B(i) \in V
    <3>1. CASE i = 1
      BY <3>1
    <3>2. CASE i # 1
      <4>1. i - 1 \in 1..n
        BY <3>2
      <4>2. QED
        BY <1>11, <3>2, <4>1
    <3>3. QED
      BY <3>1, <3>2
  <2>2. QED
    BY <2>1
<1>13. ASSUME NEW s \in V, NEW i \in 1..n PROVE Laid(s, i) \in Seq(S)
  <2>1. Len(s) + 1 \in Nat /\ \A j \in 1..(Len(s) + 1) : j # Len(s) + 1 => s[j] \in 1..n
    OBVIOUS
  <2>2. \A j \in 1..(Len(s) + 1) : fr[IF j = Len(s) + 1 THEN i ELSE s[j]] \in S
    BY <2>1
  <2>3. QED
    BY <2>1, <2>2
<1>14. F \in [1..n -> Seq(S)]
  <2> HIDE DEF Laid, B, V
  <2>1. QED
    BY <1>12, <1>13
<1>15. F[1] = <<fr[1]>>
  <2>1. F[1] = Laid(<<>>, 1)
    BY 1 \in 1..n
  <2>2. Laid(<<>>, 1) = <<fr[1]>>
    OBVIOUS
  <2>3. QED
    BY <2>1, <2>2
<1>16. ASSUME NEW s \in V, NEW i \in 2..n, times[i] = times[i - 1]
       PROVE  Laid(s, i) = Laid(s, i - 1)
  <2>1. fr[i] = fr[i - 1]
    BY <1>16
  <2>2. \A j \in 1..(Len(s) + 1) :
           fr[IF j = Len(s) + 1 THEN i ELSE s[j]] = fr[IF j = Len(s) + 1 THEN i - 1 ELSE s[j]]
    BY <2>1
  <2>3. QED
    BY <2>2
<1>17. ASSUME NEW s \in V, NEW i \in 2..n
       PROVE  Laid(Append(s, i - 1), i) = Append(Laid(s, i - 1), fr[i])
  <2>1. i - 1 \in 1..n /\ i \in 1..n
    OBVIOUS
  <2> DEFINE l == Len(s)
  <2>2. l \in Nat
    OBVIOUS
  <2>3. Len(Append(s, i - 1)) = l + 1 /\ Append(s, i - 1)[l + 1] = i - 1
        /\ \A j \in 1..l : Append(s, i - 1)[j] = s[j]
    BY <2>1
  <2>4. Laid(s, i - 1) \in Seq(S) /\ DOMAIN Laid(s, i - 1) = 1..(l + 1) /\ Len(Laid(s, i - 1)) = l + 1
    BY <1>13, <2>1
  <2> DEFINE both == Append(Laid(s, i - 1), fr[i])
             q == Append(s, i - 1)
  <2>5. /\ DOMAIN both = 1..(l + 2) /\ both[l + 2] = fr[i]
        /\ \A j \in 1..(l + 1) : both[j] = Laid(s, i - 1)[j]
    <3> HIDE DEF Laid
    <3>1. fr[i] \in S
      BY <2>1
    <3>2. QED
      BY <2>2, <2>4, <3>1
  <2>6. both = [j \in 1..(l + 2) |-> both[j]]
    <3> HIDE DEF Laid
    <3>1. fr[i] \in S
      BY <2>1
    <3>2. both \in Seq(S)
      BY <2>4, <3>1
    <3> HIDE DEF both
    <3>3. QED
      BY <2>5, <3>2
  <2> HIDE DEF both
  <2>7. Laid(q, i) = [j \in 1..(l + 2) |-> fr[IF j = l + 2 THEN i ELSE q[j]]]
    <3> HIDE DEF l, q
    <3>1. Len(q) + 1 = l + 2
      BY <2>2, <2>3 DEF q
    <3>2. QED
      BY <3>1
  <2>8. ASSUME NEW j \in 1..(l + 2) PROVE fr[IF j = l + 2 THEN i ELSE q[j]] = both[j]
    <3>1. CASE j = l + 2
      BY <2>5, <3>1
    <3>2. CASE j = l + 1
      <4>1. j \in 1..(l + 1) /\ j # l + 2
        BY <2>2, <3>2
      <4>2. both[j] = Laid(s, i - 1)[j]
        BY <2>5, <4>1
      <4>3. Laid(s, i - 1)[j] = fr[i - 1]
        BY <3>2, <4>1
      <4>4. q[j] = i - 1
        BY <2>3, <3>2
      <4>5. QED
        BY <4>1, <4>2, <4>3, <4>4
    <3>3. CASE j \in 1..l
      <4>1. j \in 1..(l + 1) /\ j # l + 2 /\ j # l + 1
        BY <2>2, <3>3
      <4>2. both[j] = Laid(s, i - 1)[j]
        BY <2>5, <4>1
      <4>3. Laid(s, i - 1)[j] = fr[s[j]]
        BY <4>1
      <4>4. q[j] = s[j]
        BY <2>3, <3>3
      <4>5. QED
        BY <4>1, <4>2, <4>3, <4>4
    <3>4. j = l + 2 \/ j = l + 1 \/ j \in 1..l
      <4> HIDE DEF l
      <4>1. QED
        BY <2>2
    <3>5. QED
      BY <3>1, <3>2, <3>3, <3>4, Zenon
  <2>9. QED
    <3> HIDE DEF Laid, l
    <3>1. QED
      BY <2>6, <2>7, <2>8 DEF q, both
<1>18. ASSUME NEW i \in 2..n
       PROVE  F[i] = IF times[i] = times[i - 1] THEN F[i - 1] ELSE Append(F[i - 1], fr[i])
  <2>1. i - 1 \in 1..n /\ i \in 1..n /\ i # 1 /\ i - 1 # n /\ (i - 1) + 1 = i
    OBVIOUS
  <2> HIDE DEF Laid, V
  <2>2. F[i] = Laid(index[i - 1], i) /\ F[i - 1] = Laid(B(i - 1), i - 1)
    <3> HIDE DEF B
    <3>1. F[i] = Laid(B(i), i) /\ F[i - 1] = Laid(B(i - 1), i - 1)
      BY <2>1
    <3>2. B(i) = index[i - 1]
      BY <2>1 DEF B
    <3>3. QED
      BY <3>1, <3>2
  <2>3. B(i - 1) \in V
    <3> HIDE DEF B
    <3>1. QED
      BY <1>12, <2>1
  <2>4. index[i - 1] = Add(B(i - 1), i - 1)
    <3> HIDE DEF Add
    <3>1. CASE i - 1 = 1
      BY <1>10, <3>1
    <3>2. CASE i - 1 # 1
      <4>1. i - 1 \in 2..n
        BY <2>1, <3>2
      <4>2. QED
        BY <1>10, <3>2, <4>1
    <3>3. QED
      BY <3>1, <3>2
  <2> HIDE DEF B
  <2>5. index[i - 1] = IF times[i] = times[i - 1] THEN B(i - 1) ELSE Append(B(i - 1), i - 1)
    BY <2>1, <2>4
  <2>6. CASE times[i] = times[i - 1]
    BY <1>16, <2>2, <2>3, <2>5, <2>6
  <2>7. CASE times[i] # times[i - 1]
    BY <1>17, <2>2, <2>3, <2>5, <2>7
  <2>8. QED
    BY <2>6, <2>7
<1>19. index[n] \in Seq(1..n)
  BY <1>11
<1>20. F[n] = [j \in DOMAIN index[n] |-> fr[index[n][j]]]
  <2>1. n \in 1..n
    OBVIOUS
  <2>2. index[n] = Append(B(n), n)
    <3>1. CASE n = 1
      BY <1>10, <3>1
    <3>2. CASE n # 1
      <4>1. n \in 2..n
        BY <3>2
      <4>2. QED
        BY <1>10, <3>2, <4>1
    <3>3. QED
      BY <3>1, <3>2
  <2>3. B(n) \in V
    <3> HIDE DEF B, V
    <3>1. QED
      BY <1>12, <2>1
  <2>4. F[n] = Laid(B(n), n)
    <3> HIDE DEF B, Laid
    <3>1. QED
      BY <2>1
  <2> HIDE DEF B, F
  <2>5. PICK s \in V : s = B(n)
    BY <2>3
  <2>6. DOMAIN Append(s, n) = 1..(Len(s) + 1) /\ \A j \in 1..(Len(s) + 1) :
            Append(s, n)[j] = IF j = Len(s) + 1 THEN n ELSE s[j]
    BY <2>1
  <2>7. \A j \in 1..(Len(s) + 1) : fr[Append(s, n)[j]] = fr[IF j = Len(s) + 1 THEN n ELSE s[j]]
    BY <2>6
  <2>8. Laid(s, n) = [j \in DOMAIN Append(s, n) |-> fr[Append(s, n)[j]]]
    BY <2>6, <2>7
  <2>9. QED
    <3> HIDE DEF Laid, V
    <3>1. QED
      BY <2>2, <2>4, <2>5, <2>8
<1> HIDE DEF F
<1>21. Frames(F, n, S, times, fr)
  BY <1>14, <1>15, <1>18 DEF Frames
<1>22. QED
  BY <1>9, <1>19, <1>20, <1>21 DEF Keeps

\* The frames of an animation, where their obstacle is, and what happens between two of them.
KeyFrames == [time : Nat, pose : Poses]
AtOf(s) == [i \in DOMAIN s |-> s[i].pose.at]
Faces(from, to, oriented) ==
    from.at # to.at => from.yaw = to.yaw /\ (oriented => from.yaw = Bearing(from.at, to.at))
Driven(a, b, oriented) ==
    /\ b.time - a.time = Duration(a.pose, b.pose)
    /\ a.time < b.time
    /\ Faces(a.pose, b.pose, oriented)
Drives(s, first, last, oriented) ==
    /\ s \in Seq(KeyFrames) /\ Len(s) >= 1 /\ s[1] = first /\ s[Len(s)] = last
    /\ \A i \in 1..Len(s) - 1 : Driven(s[i], s[i + 1], oriented)
GoesOn(s, first, last, next, oriented) ==
    /\ Drives(Append(s, next), first, next, oriented)
    /\ Visits(AtOf(Append(s, next))) =
           IF next.pose.at = last.pose.at THEN Visits(AtOf(s))
           ELSE Append(Visits(AtOf(s)), next.pose.at)

\* An animation goes on with a frame that is driven to.
LEMMA DrivesOn ==
    ASSUME NEW s, NEW first, NEW last, NEW oriented, NEW next \in KeyFrames,
           Drives(s, first, last, oriented), Driven(last, next, oriented)
    PROVE  GoesOn(s, first, last, next, oriented)
<1> DEFINE l == Len(s)
           q == Append(s, next)
<1>1. /\ s \in Seq(KeyFrames) /\ l \in Nat \ {0} /\ s[1] = first /\ s[l] = last
      /\ \A i \in 1..l - 1 : Driven(s[i], s[i + 1], oriented)
  BY DEF Drives
<1>2. /\ q \in Seq(KeyFrames) /\ Len(q) = l + 1 /\ DOMAIN q = 1..(l + 1) /\ q[l + 1] = next
      /\ \A i \in 1..l : q[i] = s[i]
  BY <1>1
<1>3. DOMAIN s = 1..l /\ \A i \in 1..l : s[i] \in KeyFrames
  BY <1>1
<1> HIDE DEF q, l
<1>4. ASSUME NEW i \in 1..Len(q) - 1 PROVE Driven(q[i], q[i + 1], oriented)
  <2>1. CASE i = l
    <3>1. q[i] = last /\ q[i + 1] = next
      BY <1>1, <1>2, <2>1
    <3>2. QED
      BY <3>1
  <2>2. CASE i # l
    <3>1. i \in 1..l - 1 /\ i \in 1..l /\ i + 1 \in 1..l
      BY <1>1, <1>2, <2>2
    <3>2. QED
      BY <1>1, <1>2, <3>1
  <2>3. QED
    BY <2>1, <2>2
<1>5. q[1] = first
  <2>1. 1 \in 1..l
    BY <1>1
  <2>2. QED
    BY <1>1, <1>2, <2>1
<1>6. Drives(q, first, next, oriented)
  BY <1>1, <1>2, <1>4, <1>5 DEF Drives
<1>7. \A f \in KeyFrames : f.pose.at \in Points
  BY DEF KeyFrames, Poses
<1>8. AtOf(s) \in [1..l -> Points] /\ AtOf(s)[l] = last.pose.at
  <2>1. AtOf(s) = [i \in 1..l |-> s[i].pose.at]
    BY <1>3 DEF AtOf
  <2>2. l \in 1..l
    BY <1>1
  <2>3. \A i \in 1..l : s[i].pose.at \in Points
    BY <1>3, <1>7
  <2>4. QED
    BY <1>1, <2>1, <2>2, <2>3
<1>9. /\ AtOf(q) \in [1..(l + 1) -> Points] /\ AtOf(q)[l + 1] = next.pose.at
      /\ \A i \in 1..l : AtOf(q)[i] = AtOf(s)[i]
  <2>1. AtOf(q) = [i \in 1..(l + 1) |-> q[i].pose.at]
    BY <1>2 DEF AtOf
  <2>2. l + 1 \in 1..(l + 1) /\ \A i \in 1..l : i \in 1..(l + 1)
    BY <1>1
  <2>3. \A i \in 1..(l + 1) : q[i].pose.at \in Points
    BY <1>2, <1>7
  <2>4. \A i \in 1..l : AtOf(s)[i] = s[i].pose.at
    BY <1>3 DEF AtOf
  <2>5. QED
    BY <1>2, <2>1, <2>2, <2>3, <2>4
<1>10. next.pose.at \in Points
  BY <1>7
<1>11. Visits(AtOf(q)) = IF next.pose.at = AtOf(s)[l] THEN Visits(AtOf(s))
                         ELSE Append(Visits(AtOf(s)), next.pose.at)
  <2>1. \A p, r, x : /\ p \in [1..l -> Points] /\ r \in [1..(l + 1) -> Points] /\ x \in Points
                     /\ r[l + 1] = x /\ \A i \in 1..l : r[i] = p[i]
                  => Visits(r) = IF x = p[l] THEN Visits(p) ELSE Append(Visits(p), x)
    BY <1>1, VisitsAppend
  <2>2. QED
    BY <1>8, <1>9, <1>10, <2>1, Zenon
<1>12. QED
  BY <1>6, <1>8, <1>11 DEF q, GoesOn

DrivesThrough(s, n, fr, oriented) ==
    Drives(s, fr[1], fr[n], oriented) /\ Visits(AtOf(s)) = Visits(AtOf(fr))

\* The frames that are kept of some poses begin and end with them, are driven, and visit the
\* points of the poses.
LEMMA FramesDrive ==
    ASSUME NEW n \in Nat \ {0}, NEW poses \in [1..n -> Poses], NEW oriented,
           \A i \in 2..n : Faces(poses[i - 1], poses[i], oriented),
           NEW times \in [1..n -> Nat],
           \A i \in 2..n : times[i] = times[i - 1] + Duration(poses[i - 1], poses[i]),
           NEW fr \in [1..n -> KeyFrames],
           \A i \in 1..n : fr[i] = [time |-> times[i], pose |-> poses[i]],
           NEW F, Frames(F, n, KeyFrames, times, fr)
    PROVE  DrivesThrough(F[n], n, fr, oriented)
<1> DEFINE p == AtOf(fr)
<1>1. /\ p \in [1..n -> Points] /\ DOMAIN fr = 1..n
      /\ \A i \in 1..n : p[i] = poses[i].at /\ p[i] = fr[i].pose.at
  <2>1. p = [i \in 1..n |-> fr[i].pose.at]
    BY DEF AtOf
  <2>2. \A i \in 1..n : fr[i].pose = poses[i] /\ poses[i].at \in Points
    BY DEF Poses
  <2>3. QED
    BY <2>1, <2>2
<1> HIDE DEF p
<1>2. PICK v : Visited(v, n, p)
  BY <1>1, SomeVisited
<1>3. Visits(p) = v[n]
  BY <1>1, <1>2, VisitsAre
<1> DEFINE Good(i) == Drives(F[i], fr[1], fr[i], oriented) /\ Visits(AtOf(F[i])) = v[i]
           T == {i \in 1..n : Good(i)}
<1>4. 1 \in T
  <2>1. F[1] = <<fr[1]>> /\ fr[1] \in KeyFrames /\ 1 \in 1..n
    BY DEF Frames
  <2>2. Drives(<<fr[1]>>, fr[1], fr[1], oriented)
    BY <2>1 DEF Drives
  <2> DEFINE r == AtOf(<<fr[1]>>)
  <2>3. r = <<p[1]>> /\ r \in [1..1 -> Points]
    <3>1. DOMAIN <<fr[1]>> = 1..1 /\ <<fr[1]>>[1] = fr[1]
      OBVIOUS
    <3>2. r = [i \in 1..1 |-> p[1]]
      BY <1>1, <2>1, <3>1 DEF AtOf
    <3>3. p[1] \in Points
      BY <1>1, <2>1
    <3>4. QED
      BY <3>2, <3>3
  <2> HIDE DEF r
  <2>4. Visited([i \in 1..1 |-> <<r[1]>>], 1, r)
    <3>1. <<r[1]>> \in Seq(Points)
      BY <2>3
    <3>2. QED
      BY <2>3, <3>1 DEF Visited
  <2>5. Visits(r) = <<r[1]>>
    <3> DEFINE w == [i \in 1..1 |-> <<r[1]>>]
    <3>1. w[1] = <<r[1]>>
      OBVIOUS
    <3>2. Visited(w, 1, r)
      BY <2>4
    <3> HIDE DEF w
    <3>3. Visits(r) = w[1]
      <4>1. 1 \in Nat \ {0}
        OBVIOUS
      <4>2. QED
        BY <2>3, <3>2, <4>1, VisitsAre
    <3>4. QED
      BY <3>1, <3>3
  <2>6. v[1] = <<p[1]>>
    BY <1>2 DEF Visited
  <2>7. r[1] = p[1]
    BY <2>3
  <2>8. QED
    BY <2>1, <2>2, <2>5, <2>6, <2>7 DEF r
<1>5. ASSUME NEW i \in 1..n, i \in T, i < n PROVE i + 1 \in T
  <2>1. i + 1 \in 2..n /\ i + 1 \in 1..n /\ (i + 1) - 1 = i
    BY <1>5
  <2>2. /\ Drives(F[i], fr[1], fr[i], oriented) /\ Visits(AtOf(F[i])) = v[i]
    BY <1>5
  <2>3. F[i + 1] = IF times[i + 1] = times[i] THEN F[i] ELSE Append(F[i], fr[i + 1])
    <3>1. F[i + 1] = IF times[i + 1] = times[(i + 1) - 1] THEN F[(i + 1) - 1]
                     ELSE Append(F[(i + 1) - 1], fr[i + 1])
      BY <2>1, Zenon DEF Frames
    <3>2. QED
      BY <2>1, <3>1, Zenon
  <2>4. v[i + 1] = IF p[i + 1] = p[i] THEN v[i] ELSE Append(v[i], p[i + 1])
    <3>1. v[i + 1] = IF p[i + 1] = p[(i + 1) - 1] THEN v[(i + 1) - 1] ELSE Append(v[(i + 1) - 1], p[i + 1])
      BY <1>2, <2>1, Zenon DEF Visited
    <3>2. QED
      BY <2>1, <3>1, Zenon
  <2>5. times[i + 1] = times[i] + Duration(poses[i], poses[i + 1]) /\ Faces(poses[i], poses[i + 1], oriented)
    <3>1. /\ times[i + 1] = times[(i + 1) - 1] + Duration(poses[(i + 1) - 1], poses[i + 1])
          /\ Faces(poses[(i + 1) - 1], poses[i + 1], oriented)
      BY <2>1, Zenon
    <3>2. QED
      BY <2>1, <3>1, Zenon
  <2>6. poses[i] \in Poses /\ poses[i + 1] \in Poses /\ times[i] \in Nat /\ times[i + 1] \in Nat
    BY <2>1
  <2>7. /\ Duration(poses[i], poses[i + 1]) \in Nat
        /\ Duration(poses[i], poses[i + 1]) = 0 <=> poses[i] = poses[i + 1]
    BY <2>6, DurationIs
  <2>8. /\ fr[i].time = times[i] /\ fr[i].pose = poses[i]
        /\ fr[i + 1].time = times[i + 1] /\ fr[i + 1].pose = poses[i + 1]
        /\ fr[i] \in KeyFrames /\ fr[i + 1] \in KeyFrames
    <3>1. fr[i] = [time |-> times[i], pose |-> poses[i]]
          /\ fr[i + 1] = [time |-> times[i + 1], pose |-> poses[i + 1]]
      BY <2>1
    <3>2. fr[i] \in KeyFrames /\ fr[i + 1] \in KeyFrames
      BY <2>1
    <3>3. QED
      BY <3>1, <3>2
  <2>9. CASE times[i + 1] = times[i]
    <3>1. poses[i + 1] = poses[i]
      BY <2>5, <2>6, <2>7, <2>9
    <3>2. fr[i + 1] = fr[i] /\ p[i + 1] = p[i]
      BY <1>1, <2>1, <2>9, <3>1
    <3>3. QED
      BY <2>1, <2>2, <2>3, <2>4, <2>9, <3>2
  <2>10. CASE times[i + 1] # times[i]
    <3> DEFINE d == Duration(poses[i], poses[i + 1])
    <3>1. d \in Nat /\ times[i + 1] = times[i] + d
      BY <2>5, <2>7
    <3> HIDE DEF d
    <3>2. times[i + 1] - times[i] = d /\ times[i] < times[i + 1]
      BY <2>6, <2>10, <3>1
    <3>3. Driven(fr[i], fr[i + 1], oriented)
      BY <2>5, <2>8, <3>2 DEF Driven, d
    <3>4. F[i + 1] = Append(F[i], fr[i + 1])
      BY <2>3, <2>10
    <3>5. /\ Drives(Append(F[i], fr[i + 1]), fr[1], fr[i + 1], oriented)
          /\ Visits(AtOf(Append(F[i], fr[i + 1]))) =
                IF fr[i + 1].pose.at = fr[i].pose.at THEN Visits(AtOf(F[i]))
                ELSE Append(Visits(AtOf(F[i])), fr[i + 1].pose.at)
      <4>1. GoesOn(F[i], fr[1], fr[i], fr[i + 1], oriented)
        BY <2>2, <2>8, <3>3, DrivesOn, Zenon
      <4>2. QED
        BY <4>1 DEF GoesOn
    <3>6. p[i] = fr[i].pose.at /\ p[i + 1] = fr[i + 1].pose.at
      BY <1>1, <2>1
    <3>7. Visits(AtOf(F[i + 1])) = v[i + 1]
      BY <2>2, <2>4, <3>4, <3>5, <3>6
    <3>8. QED
      BY <2>1, <3>4, <3>5, <3>7
  <2>11. QED
    BY <2>9, <2>10
<1>6. T = 1..n
  <2>1. T \in SUBSET (1..n)
    OBVIOUS
  <2> HIDE DEF T
  <2>2. QED
    BY <1>4, <1>5, <2>1, UpTo
<1>7. Good(n)
  BY <1>6
<1>8. QED
  BY <1>3, <1>7 DEF p, DrivesThrough

\* Poses that an obstacle can take one after another, round a closed path.
GoesRound(poses, path, oriented) ==
    \E m \in Nat \ {0} :
        /\ poses \in [1..m -> Poses] /\ poses[1] = poses[m]
        /\ \A i \in 2..m : Faces(poses[i - 1], poses[i], oriented)
        /\ Visits([i \in 1..m |-> poses[i].at]) = Visits(path)

\* Without an orientation there is a pose for every point.
LEMMA RoundWithoutAngle ==
    ASSUME NEW n \in Nat \ {0}, NEW path \in [1..n -> Points], path[1] = path[n]
    PROVE  GoesRound(WithoutAngle(path), path, FALSE)
<1> DEFINE poses == WithoutAngle(path)
<1>1. poses = [i \in 1..n |-> [at |-> path[i], yaw |-> 0]]
  BY DEF WithoutAngle
<1>2. 0 \in Yaws
  BY DEF Yaws
<1>3. \A i \in 1..n : poses[i].at = path[i] /\ poses[i].yaw = 0
  BY <1>1
<1>4. poses \in [1..n -> Poses]
  <2>1. \A i \in 1..n : [at |-> path[i], yaw |-> 0] \in Poses
    BY <1>2 DEF Poses
  <2>2. QED
    BY <1>1, <2>1
<1>5. poses[1] = poses[n]
  <2>1. 1 \in 1..n /\ n \in 1..n
    OBVIOUS
  <2>2. poses[1] = [at |-> path[1], yaw |-> 0] /\ poses[n] = [at |-> path[n], yaw |-> 0]
    BY <1>1, <2>1
  <2>3. QED
    BY <2>2
<1> HIDE DEF poses
<1>6. \A i \in 2..n : Faces(poses[i - 1], poses[i], FALSE)
  <2>1. \A i \in 2..n : i \in 1..n /\ i - 1 \in 1..n
    OBVIOUS
  <2>2. \A i \in 2..n : poses[i].yaw = 0 /\ poses[i - 1].yaw = 0
    BY <1>3, <2>1
  <2>3. QED
    BY <2>2 DEF Faces
<1>7. [i \in 1..n |-> poses[i].at] = path
  <2>1. path = [i \in 1..n |-> path[i]]
    OBVIOUS
  <2>2. QED
    BY <1>3, <2>1
<1>8. QED
  BY <1>4, <1>5, <1>6, <1>7 DEF GoesRound, poses

\* The yaw with which a point is left.
LEMMA LeavingIs ==
    ASSUME NEW n \in Nat \ {0, 1}, NEW path \in [1..n -> Points], path[1] = path[n]
    PROVE  /\ Leaving(path) \in [1..n -> Yaws]
           /\ \A i \in 1..n - 1 : Leaving(path)[i] = Bearing(path[i], path[i + 1])
           /\ Leaving(path)[1] = Leaving(path)[n]
<1> DEFINE next(i) == IF i < n THEN path[i + 1] ELSE path[2]
<1>1. Leaving(path) = [i \in 1..n |-> Bearing(path[i], next(i))]
  BY DEF Leaving
<1>2. \A i \in 1..n : next(i) \in Points
  OBVIOUS
<1>3. \A i \in 1..n : Bearing(path[i], next(i)) \in Yaws
  <2> HIDE DEF next
  <2>1. \A i \in 1..n : path[i] \in Points
    OBVIOUS
  <2>2. QED
    BY <1>2, <2>1, ObstaclePathAssumption
<1>4. next(1) = path[2] /\ next(n) = path[2] /\ 1 \in 1..n /\ n \in 1..n
  OBVIOUS
<1>5. \A i \in 1..n - 1 : next(i) = path[i + 1] /\ i \in 1..n
  OBVIOUS
<1> HIDE DEF next
<1>6. QED
  BY <1>1, <1>3, <1>4, <1>5

\* With an orientation every point after the first has two.
LEMMA RoundWithAngle ==
    ASSUME NEW n \in Nat \ {0, 1}, NEW path \in [1..n -> Points], path[1] = path[n]
    PROVE  GoesRound(WithAngle(path), path, TRUE)
<1> DEFINE m == 2 * n - 1
           yaw == Leaving(path)
           poses == WithAngle(path)
           ats == [k \in 1..m |-> poses[k].at]
<1>1. /\ yaw \in [1..n -> Yaws] /\ yaw[1] = yaw[n]
      /\ \A i \in 1..n - 1 : yaw[i] = Bearing(path[i], path[i + 1])
  BY LeavingIs
<1> HIDE DEF yaw
<1>2. poses = [k \in 1..m |-> [at |-> path[(k \div 2) + 1], yaw |-> yaw[(k + 1) \div 2]]]
  BY DEF WithAngle, yaw
<1>3. \A k \in 1..m : (k \div 2) + 1 \in 1..n /\ (k + 1) \div 2 \in 1..n
  OBVIOUS
<1>4. m \in Nat \ {0}
  OBVIOUS
<1>5. \A k \in 1..m : poses[k].at = path[(k \div 2) + 1] /\ poses[k].yaw = yaw[(k + 1) \div 2]
  <2> HIDE DEF poses, m
  <2>1. QED
    BY <1>2
<1>6. poses \in [1..m -> Poses]
  <2>1. \A k \in 1..m : path[(k \div 2) + 1] \in Points /\ yaw[(k + 1) \div 2] \in Yaws
    BY <1>1, <1>3
  <2>2. \A k \in 1..m : [at |-> path[(k \div 2) + 1], yaw |-> yaw[(k + 1) \div 2]] \in Poses
    BY <2>1 DEF Poses
  <2> HIDE DEF poses, m
  <2>3. QED
    BY <1>2, <2>2
<1> HIDE DEF poses
<1>7. /\ \A j \in 1..n : 2 * j - 1 \in 1..m
      /\ \A j \in 1..n - 1 : 2 * j \in 1..m
  OBVIOUS
<1>8. \A j \in Nat \ {0} : /\ (2 * j - 1) \div 2 = j - 1 /\ (2 * j) \div 2 = j
                           /\ (2 * j + 1) \div 2 = j
  OBVIOUS
<1>9. \A j \in 1..n : poses[2 * j - 1].at = path[j] /\ poses[2 * j - 1].yaw = yaw[j]
  <2>1. ASSUME NEW j \in 1..n
        PROVE  poses[2 * j - 1].at = path[j] /\ poses[2 * j - 1].yaw = yaw[j]
    <3>1. 2 * j - 1 \in 1..m /\ ((2 * j - 1) \div 2) + 1 = j /\ ((2 * j - 1) + 1) \div 2 = j
      BY <1>7, <1>8
    <3>2. QED
      BY <1>5, <3>1
  <2>2. QED
    BY <2>1
<1>10. \A j \in 1..n - 1 : poses[2 * j].at = path[j + 1] /\ poses[2 * j].yaw = yaw[j]
  <2>1. ASSUME NEW j \in 1..n - 1
        PROVE  poses[2 * j].at = path[j + 1] /\ poses[2 * j].yaw = yaw[j]
    <3>1. 2 * j \in 1..m /\ ((2 * j) \div 2) + 1 = j + 1 /\ (2 * j + 1) \div 2 = j
      BY <1>7, <1>8
    <3>2. QED
      BY <1>5, <3>1
  <2>2. QED
    BY <2>1
<1>11. poses[1] = poses[m]
  <2>1. 2 * 1 - 1 = 1 /\ 1 \in 1..n /\ n \in 1..n /\ 1 \in 1..m /\ m \in 1..m
    OBVIOUS
  <2>2. poses[1].at = path[1] /\ poses[1].yaw = yaw[1] /\ poses[m].at = path[n] /\ poses[m].yaw = yaw[n]
    BY <1>9, <2>1
  <2>3. \A a, b \in Poses : a.at = b.at /\ a.yaw = b.yaw => a = b
    BY DEF Poses
  <2>4. poses[1] \in Poses /\ poses[m] \in Poses
    BY <1>6, <2>1
  <2>5. QED
    BY <1>1, <2>2, <2>3, <2>4
<1>12. ASSUME NEW k \in 2..m
       PROVE  \/ \E j \in 1..n - 1 : k = 2 * j
              \/ \E j \in 1..n - 1 : k = 2 * j + 1
  <2>1. k = 2 * (k \div 2) \/ k = 2 * (k \div 2) + 1
    OBVIOUS
  <2>2. k \div 2 \in 1..n - 1
    OBVIOUS
  <2>3. QED
    BY <2>1, <2>2
<1>13. ASSUME NEW k \in 2..m PROVE Faces(poses[k - 1], poses[k], TRUE)
  <2>1. CASE \E j \in 1..n - 1 : k = 2 * j
    <3>1. PICK j \in 1..n - 1 : k = 2 * j
      BY <2>1
    <3>2. k - 1 = 2 * j - 1 /\ j \in 1..n
      BY <3>1
    <3>3. /\ poses[k].at = path[j + 1] /\ poses[k].yaw = yaw[j]
          /\ poses[k - 1].at = path[j] /\ poses[k - 1].yaw = yaw[j]
      BY <1>9, <1>10, <3>1, <3>2
    <3>4. yaw[j] = Bearing(path[j], path[j + 1])
      BY <1>1
    <3>5. QED
      BY <3>3, <3>4 DEF Faces
  <2>2. CASE \E j \in 1..n - 1 : k = 2 * j + 1
    <3>1. PICK j \in 1..n - 1 : k = 2 * j + 1
      BY <2>2
    <3>2. k - 1 = 2 * j /\ k = 2 * (j + 1) - 1 /\ j + 1 \in 1..n
      BY <3>1
    <3>3. poses[k].at = path[j + 1] /\ poses[k - 1].at = path[j + 1]
      BY <1>9, <1>10, <3>2
    <3>4. QED
      BY <3>3 DEF Faces
  <2>3. QED
    BY <1>12, <2>1, <2>2
<1>14. ats \in [1..m -> Points] /\ \A k \in 1..m : ats[k] = poses[k].at
  <2> HIDE DEF m
  <2>1. \A k \in 1..m : poses[k].at \in Points
    BY <1>6 DEF Poses
  <2>2. QED
    BY <2>1
<1> HIDE DEF ats
<1>15. PICK v : Visited(v, m, ats)
  BY <1>4, <1>14, SomeVisited
<1>16. PICK w : Visited(w, n, path)
  BY SomeVisited
<1> DEFINE T == {j \in 1..n : v[2 * j - 1] = w[j]}
<1>17. 1 \in T
  <2>1. 2 * 1 - 1 = 1 /\ 1 \in 1..n /\ 1 \in 1..m
    OBVIOUS
  <2>2. v[1] = <<ats[1]>> /\ w[1] = <<path[1]>>
    BY <1>15, <1>16 DEF Visited
  <2>3. ats[1] = path[1]
    BY <1>9, <1>14, <2>1
  <2>4. QED
    BY <2>1, <2>2, <2>3
<1>18. ASSUME NEW j \in 1..n, j \in T, j < n PROVE j + 1 \in T
  <2> DEFINE k == 2 * j
  <2>1. /\ j + 1 \in 2..n /\ j + 1 \in 1..n /\ (j + 1) - 1 = j /\ j \in 1..n - 1
        /\ k \in 2..m /\ k + 1 \in 2..m /\ k - 1 \in 1..m /\ k \in 1..m /\ k + 1 \in 1..m
        /\ 2 * (j + 1) - 1 = k + 1 /\ (k + 1) - 1 = k
    BY <1>18
  <2>2. v[k - 1] = w[j]
    BY <1>18
  <2>3. ats[k - 1] = path[j] /\ ats[k] = path[j + 1] /\ ats[k + 1] = path[j + 1]
    <3>1. ats[k - 1] = poses[2 * j - 1].at /\ ats[k] = poses[2 * j].at /\ ats[k + 1] = poses[2 * (j + 1) - 1].at
      BY <1>14, <2>1
    <3>2. QED
      BY <1>9, <1>10, <2>1, <3>1
  <2> HIDE DEF k, T
  <2>4. v[k] = IF ats[k] = ats[k - 1] THEN v[k - 1] ELSE Append(v[k - 1], ats[k])
    BY <1>15, <2>1, Zenon DEF Visited
  <2>5. v[k + 1] = IF ats[k + 1] = ats[k] THEN v[k] ELSE Append(v[k], ats[k + 1])
    <3>1. v[k + 1] = IF ats[k + 1] = ats[(k + 1) - 1] THEN v[(k + 1) - 1] ELSE Append(v[(k + 1) - 1], ats[k + 1])
      BY <1>15, <2>1, Zenon DEF Visited
    <3>2. QED
      BY <2>1, <3>1, Zenon
  <2>6. w[j + 1] = IF path[j + 1] = path[j] THEN w[j] ELSE Append(w[j], path[j + 1])
    <3>1. w[j + 1] = IF path[j + 1] = path[(j + 1) - 1] THEN w[(j + 1) - 1]
                     ELSE Append(w[(j + 1) - 1], path[j + 1])
      BY <1>16, <2>1, Zenon DEF Visited
    <3>2. QED
      BY <2>1, <3>1, Zenon
  <2>7. v[k + 1] = w[j + 1]
    BY <2>2, <2>3, <2>4, <2>5, <2>6, Zenon
  <2>8. v[2 * (j + 1) - 1] = w[j + 1]
    BY <2>1, <2>7, Zenon
  <2>9. QED
    BY <2>1, <2>8 DEF T
<1>19. v[m] = w[n]
  <2>1. T \in SUBSET (1..n)
    OBVIOUS
  <2> HIDE DEF T
  <2>2. T = 1..n
    BY <1>17, <1>18, <2>1, UpTo
  <2>3. n \in T
    BY <2>2
  <2> USE DEF T
  <2>4. QED
    BY <2>3
<1>20. Visits(ats) = Visits(path)
  <2>1. Visits(ats) = v[m]
    <3> HIDE DEF m
    <3>1. QED
      BY <1>4, <1>14, <1>15, VisitsAre
  <2>2. Visits(path) = w[n]
    BY <1>16, VisitsAre
  <2>3. QED
    BY <1>19, <2>1, <2>2
<1>21. QED
  <2> HIDE DEF m
  <2>1. QED
    BY <1>4, <1>6, <1>11, <1>13, <1>20 DEF GoesRound, poses, ats

\* The way past the waypoints, and back.
Round(there, loop) ==
    LET n == Len(there)
    IN  IF loop THEN [i \in 1..n + 1 |-> there[IF i <= n THEN i ELSE 1]]
        ELSE [i \in 1..2 * n - 1 |-> there[IF i <= n THEN i ELSE 2 * n - i]]

\* The path is that way, and it is closed.
LEMMA ClosedIs ==
    ASSUME NEW there \in Seq(Points), Len(there) >= 2, NEW loop \in BOOLEAN
    PROVE  /\ Closed(there, loop) = Round(there, loop)
           /\ \E m \in Nat \ {0, 1} : /\ Closed(there, loop) \in [1..m -> Points]
                                      /\ Closed(there, loop)[1] = Closed(there, loop)[m]
<1> DEFINE n == Len(there)
           path == Closed(there, loop)
<1>1. n \in Nat \ {0, 1} /\ DOMAIN there = 1..n /\ \A i \in 1..n : there[i] \in Points
  OBVIOUS
<1>2. CASE loop = TRUE
  <2>1. path = Append(there, there[1])
    BY <1>2 DEF Closed
  <2> DEFINE way == [i \in 1..n + 1 |-> there[IF i <= n THEN i ELSE 1]]
  <2>2. there[1] \in Points
    BY <1>1
  <2>3. /\ path \in Seq(Points) /\ Len(path) = n + 1 /\ path[n + 1] = there[1]
        /\ \A i \in 1..n : path[i] = there[i]
    BY <2>1, <2>2
  <2> HIDE DEF path
  <2>4. \A i \in 1..n + 1 : path[i] = there[IF i <= n THEN i ELSE 1]
    <3>1. \A i \in 1..n + 1 : i \in 1..n \/ (i = n + 1 /\ ~(n + 1 <= n))
      BY <1>1
    <3>2. QED
      BY <1>1, <2>3, <3>1
  <2>5. path = [i \in 1..n + 1 |-> path[i]] /\ path \in [1..n + 1 -> Points]
    <3> HIDE DEF n
    <3>1. QED
      BY <1>1, <2>3
  <2>6. path = way
    <3> HIDE DEF n
    <3>1. QED
      BY <2>4, <2>5
  <2>7. path[1] = path[n + 1]
    BY <1>1, <2>3
  <2>8. n + 1 \in Nat \ {0, 1}
    BY <1>1
  <2>9. Round(there, loop) = way
    BY <1>2 DEF Round
  <2>10. QED
    <3> HIDE DEF way, n
    <3>1. path = Round(there, loop)
      BY <2>6, <2>9
    <3>2. \E m \in Nat \ {0, 1} : path \in [1..m -> Points] /\ path[1] = path[m]
      BY <2>5, <2>7, <2>8
    <3>3. QED
      BY <3>1, <3>2 DEF path
<1>3. CASE loop = FALSE
  <2> DEFINE back == Tail(Reverse(there))
             way == [i \in 1..2 * n - 1 |-> there[IF i <= n THEN i ELSE 2 * n - i]]
  <2>1. path = there \o back
    BY <1>3 DEF Closed
  <2>2. Reverse(there) = [i \in 1..n |-> there[(n - i) + 1]]
    BY DEF Reverse
  <2>3. Reverse(there) \in Seq(Points) /\ Len(Reverse(there)) = n
    <3>1. \A i \in 1..n : there[(n - i) + 1] \in Points
      BY <1>1
    <3> HIDE DEF n
    <3>2. QED
      BY <1>1, <2>2, <3>1
  <2>4. \A i \in 1..n : Reverse(there)[i] = there[(n - i) + 1]
    BY <2>2
  <2>5. back \in Seq(Points) /\ Len(back) = n - 1 /\ \A i \in 1..n - 1 : back[i] = Reverse(there)[i + 1]
    BY <1>1, <2>3
  <2>6. \A i \in 1..n - 1 : back[i] = there[n - i]
    <3>1. \A i \in 1..n - 1 : i + 1 \in 1..n /\ (n - (i + 1)) + 1 = n - i
      BY <1>1
    <3>2. QED
      BY <2>4, <2>5, <3>1
  <2> HIDE DEF back
  <2>7. /\ path \in Seq(Points) /\ Len(path) = n + (n - 1)
        /\ \A i \in 1..n : path[i] = there[i]
        /\ \A i \in 1..n - 1 : path[n + i] = back[i]
    <3>1. path \in Seq(Points) /\ Len(path) = n + (n - 1)
      <4>1. \A s, t \in Seq(Points) : s \o t \in Seq(Points) /\ Len(s \o t) = Len(s) + Len(t)
        OBVIOUS
      <4> HIDE DEF path
      <4>2. QED
        BY <2>1, <2>5, <4>1
    <3>2. \A i \in 1..n : path[i] = there[i]
      BY <1>1, <2>1, <2>5
    <3>3. \A i \in 1..n - 1 : path[n + i] = back[i]
      BY <1>1, <2>1, <2>5
    <3>4. QED
      BY <3>1, <3>2, <3>3
  <2> HIDE DEF path
  <2>8. \A i \in 1..2 * n - 1 : path[i] = there[IF i <= n THEN i ELSE 2 * n - i]
    <3>1. ASSUME NEW i \in 1..2 * n - 1 PROVE path[i] = there[IF i <= n THEN i ELSE 2 * n - i]
      <4>1. CASE i <= n
        BY <1>1, <2>7, <4>1
      <4>2. CASE ~(i <= n)
        <5>1. i - n \in 1..n - 1 /\ n + (i - n) = i /\ n - (i - n) = 2 * n - i
          BY <1>1, <4>2
        <5>2. path[n + (i - n)] = there[n - (i - n)]
          BY <2>6, <2>7, <5>1
        <5>3. QED
          BY <4>2, <5>1, <5>2
      <4>3. QED
        BY <4>1, <4>2
    <3>2. QED
      BY <3>1
  <2>9. path = [i \in 1..2 * n - 1 |-> path[i]] /\ path \in [1..2 * n - 1 -> Points]
    <3>1. n + (n - 1) = 2 * n - 1
      BY <1>1
    <3> HIDE DEF n
    <3>2. QED
      BY <1>1, <2>7, <3>1
  <2>10. path = way
    <3> HIDE DEF n
    <3>1. QED
      BY <2>8, <2>9
  <2>11. path[1] = path[2 * n - 1]
    <3>1. /\ 1 \in 1..2 * n - 1 /\ 2 * n - 1 \in 1..2 * n - 1 /\ 1 <= n
          /\ ~(2 * n - 1 <= n) /\ 2 * n - (2 * n - 1) = 1
      BY <1>1
    <3>2. path[1] = there[1] /\ path[2 * n - 1] = there[2 * n - (2 * n - 1)]
      <4> HIDE DEF n
      <4>1. QED
        BY <2>8, <3>1
    <3>3. QED
      BY <3>1, <3>2
  <2>12. 2 * n - 1 \in Nat \ {0, 1}
    BY <1>1
  <2>13. Round(there, loop) = way
    BY <1>3 DEF Round
  <2>14. QED
    <3> HIDE DEF way, n
    <3>1. path = Round(there, loop)
      BY <2>10, <2>13
    <3>2. \E m \in Nat \ {0, 1} : path \in [1..m -> Points] /\ path[1] = path[m]
      BY <2>9, <2>11, <2>12
    <3>3. QED
      BY <3>1, <3>2 DEF path
<1>4. QED
  BY <1>2, <1>3

\* What the animation of a path is: it closes, it is driven, and it visits the waypoints.
Animation(poses) ==
    LET times == Knots(poses)
        kept == UniqueKeyframeIndices(times)
    IN  [i \in DOMAIN kept |-> [time |-> times[kept[i]], pose |-> poses[kept[i]]]]
PathPoses(params) ==
    LET path == Closed(params.waypoints, params.loop)
    IN  IF params.orientation THEN WithAngle(path) ELSE WithoutAngle(path)

\* The poses of a path go round it.
LEMMA PosesGoRound ==
    ASSUME NEW params \in Parameters, Len(params.waypoints) >= 2
    PROVE  GoesRound(PathPoses(params), Round(params.waypoints, params.loop), params.orientation)
<1> DEFINE path == Closed(params.waypoints, params.loop)
<1>1. params.waypoints \in Seq(Points) /\ params.loop \in BOOLEAN /\ params.orientation \in BOOLEAN
  <2>1. params.waypoints \in SeqOf(Points, MaxWaypoints)
    BY DEF Parameters
  <2>2. PICK m \in 0..MaxWaypoints : params.waypoints \in [1..m -> Points]
    BY <2>1 DEF SeqOf
  <2>3. m \in Nat
    BY <2>2, ObstaclePathAssumption
  <2>4. QED
    BY <2>2, <2>3 DEF Parameters
<1>2. /\ path = Round(params.waypoints, params.loop)
      /\ \E m \in Nat \ {0, 1} : path \in [1..m -> Points] /\ path[1] = path[m]
  BY <1>1, ClosedIs
<1> HIDE DEF path
<1>3. PICK m \in Nat \ {0, 1} : path \in [1..m -> Points] /\ path[1] = path[m]
  BY <1>2
<1>4. m \in Nat \ {0}
  OBVIOUS
<1>5. CASE params.orientation = TRUE
  <2>1. GoesRound(WithAngle(path), path, TRUE)
    BY <1>3, RoundWithAngle
  <2>2. PathPoses(params) = WithAngle(path)
    BY <1>5 DEF PathPoses, path
  <2>3. QED
    BY <1>2, <1>5, <2>1, <2>2
<1>6. CASE params.orientation = FALSE
  <2>1. GoesRound(WithoutAngle(path), path, FALSE)
    BY <1>3, <1>4, RoundWithoutAngle
  <2>2. PathPoses(params) = WithoutAngle(path)
    BY <1>6 DEF PathPoses, path
  <2>3. QED
    BY <1>2, <1>6, <2>1, <2>2
<1>7. QED
  BY <1>1, <1>5, <1>6

\* What the frames of such poses do.
LEMMA AnimationIs ==
    ASSUME NEW poses, NEW way, NEW oriented, GoesRound(poses, way, oriented)
    PROVE  /\ \E first, last : /\ Drives(Animation(poses), first, last, oriented)
                               /\ first.time = 0 /\ first.pose = last.pose
           /\ Visits(AtOf(Animation(poses))) = Visits(way)
<1>1. PICK n \in Nat \ {0} :
        /\ poses \in [1..n -> Poses] /\ poses[1] = poses[n]
        /\ \A i \in 2..n : Faces(poses[i - 1], poses[i], oriented)
        /\ Visits([i \in 1..n |-> poses[i].at]) = Visits(way)
  BY DEF GoesRound
<1> DEFINE times == Knots(poses)
           kept == UniqueKeyframeIndices(times)
           fr == [i \in 1..n |-> [time |-> times[i], pose |-> poses[i]]]
<1>2. /\ times \in [1..n -> Nat] /\ times[1] = 0
      /\ \A i \in 2..n : times[i] = times[i - 1] + Duration(poses[i - 1], poses[i])
  BY <1>1, KnotsAre
<1>3. Animation(poses) = [i \in DOMAIN kept |-> [time |-> times[kept[i]], pose |-> poses[kept[i]]]]
  BY DEF Animation
<1> HIDE DEF times
<1>4. /\ fr \in [1..n -> KeyFrames]
      /\ \A i \in 1..n : fr[i] = [time |-> times[i], pose |-> poses[i]]
  <2>1. \A i \in 1..n : [time |-> times[i], pose |-> poses[i]] \in KeyFrames
    BY <1>1, <1>2 DEF KeyFrames
  <2>2. QED
    BY <2>1
<1> HIDE DEF fr
<1>5. ASSUME NEW i \in 2..n, times[i] = times[i - 1] PROVE fr[i] = fr[i - 1]
  <2>1. i \in 1..n /\ i - 1 \in 1..n
    OBVIOUS
  <2>2. poses[i] \in Poses /\ poses[i - 1] \in Poses /\ times[i - 1] \in Nat
    BY <1>1, <1>2, <2>1
  <2> DEFINE d == Duration(poses[i - 1], poses[i])
  <2>3. d \in Nat /\ (d = 0 <=> poses[i - 1] = poses[i])
    BY <2>2, DurationIs
  <2>4. times[i] = times[i - 1] + d
    BY <1>2
  <2> HIDE DEF d
  <2>5. poses[i - 1] = poses[i]
    BY <1>5, <2>2, <2>3, <2>4
  <2>6. fr[i] = [time |-> times[i], pose |-> poses[i]]
        /\ fr[i - 1] = [time |-> times[i - 1], pose |-> poses[i - 1]]
    BY <1>4, <2>1
  <2>7. QED
    BY <1>5, <2>5, <2>6
<1>6. Keeps(kept, n, KeyFrames, times, fr)
  BY <1>2, <1>4, <1>5, FramesAre, Zenon
<1>7. PICK F : Frames(F, n, KeyFrames, times, fr) /\ F[n] = [j \in DOMAIN kept |-> fr[kept[j]]]
  BY <1>6 DEF Keeps
<1> HIDE DEF kept
<1>8. Animation(poses) = F[n]
  <2>1. \A i \in DOMAIN kept : kept[i] \in 1..n
    BY <1>6 DEF Keeps
  <2>2. \A i \in DOMAIN kept : fr[kept[i]] = [time |-> times[kept[i]], pose |-> poses[kept[i]]]
    BY <1>4, <2>1
  <2>3. QED
    BY <1>3, <1>7, <2>2
<1>9. Drives(F[n], fr[1], fr[n], oriented) /\ Visits(AtOf(F[n])) = Visits(AtOf(fr))
  <2>1. \A i \in 2..n : Faces(poses[i - 1], poses[i], oriented)
    BY <1>1
  <2>2. Frames(F, n, KeyFrames, times, fr)
    BY <1>7
  <2>3. QED
    <3>1. DrivesThrough(F[n], n, fr, oriented)
      BY <1>1, <1>2, <1>4, <2>1, <2>2, FramesDrive, Zenon
    <3>2. QED
      BY <3>1 DEF DrivesThrough
<1>10. AtOf(fr) = [i \in 1..n |-> poses[i].at]
  <2>1. DOMAIN fr = 1..n
    BY <1>4
  <2>2. \A i \in 1..n : fr[i].pose = poses[i]
    BY <1>4
  <2>3. \A i \in 1..n : fr[i].pose.at = poses[i].at
    BY <2>2
  <2>4. QED
    BY <2>1, <2>3 DEF AtOf
<1>11. fr[1].time = 0 /\ fr[1].pose = fr[n].pose
  <2>1. 1 \in 1..n /\ n \in 1..n
    OBVIOUS
  <2>2. fr[1] = [time |-> times[1], pose |-> poses[1]] /\ fr[n] = [time |-> times[n], pose |-> poses[n]]
    BY <1>4, <2>1
  <2>3. QED
    BY <1>1, <1>2, <2>2
<1>12. QED
  BY <1>1, <1>8, <1>9, <1>10, <1>11

\* The animation of an obstacle passes its waypoints in order, at its pace and facing where it
\* drives, and closes, for any waypoints, distances and bearings (obstacle_path_plugin.cpp:75-198).
THEOREM PathsAreSound == PathSpec => []AnimationIsSound
<1> DEFINE Inv == sdf \in Parameters /\ AnimationIsSound
<1>1. PathInit => Inv
  BY DEF PathInit, NoAnimation, AnimationIsSound, AnimationCloses, AnimationIsDriven, WaypointsAreVisited
<1>2. ASSUME Inv, [LoadPath]_pathVars PROVE Inv'
  <2>1. CASE LoadPath
    <3>1. keys' = Animation(PathPoses(sdf)) /\ sdf' = sdf /\ Len(sdf.waypoints) >= 2
      BY <2>1 DEF LoadPath, Animation, PathPoses
    <3>2. GoesRound(PathPoses(sdf), Round(sdf.waypoints, sdf.loop), sdf.orientation)
      BY <1>2, <3>1, PosesGoRound
    <3>3. /\ \E first, last : /\ Drives(keys', first, last, sdf.orientation)
                              /\ first.time = 0 /\ first.pose = last.pose
          /\ Visits(AtOf(keys')) = Visits(Round(sdf.waypoints, sdf.loop))
      BY <3>1, <3>2, AnimationIs
    <3>4. PICK first, last : /\ Drives(keys', first, last, sdf.orientation)
                             /\ first.time = 0 /\ first.pose = last.pose
      BY <3>3
    <3>5. AnimationCloses'
      <4>1. keys' \in Seq(KeyFrames) /\ Len(keys') >= 1
            /\ keys'[1] = first /\ keys'[Len(keys')] = last
        BY <3>4 DEF Drives
      <4>2. Head(keys') = first /\ Last(keys') = last
        BY <4>1 DEF Last
      <4>3. QED
        BY <3>4, <4>2 DEF AnimationCloses
    <3>6. AnimationIsDriven'
      BY <3>1, <3>4 DEF AnimationIsDriven, Drives, Driven, Faces
    <3>7. WaypointsAreVisited'
      BY <3>1, <3>3 DEF WaypointsAreVisited, AtOf, Round
    <3>8. QED
      BY <1>2, <3>1, <3>5, <3>6, <3>7 DEF AnimationIsSound
  <2>2. CASE UNCHANGED pathVars
    BY <1>2, <2>2 DEF pathVars, AnimationIsSound, AnimationCloses, AnimationIsDriven, WaypointsAreVisited
  <2>3. QED
    BY <1>2, <2>1, <2>2
<1>3. QED
  BY <1>1, <1>2, PTL DEF PathSpec
===============================================================================
