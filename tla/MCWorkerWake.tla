---------------------------- MODULE MCWorkerWake ----------------------------
(***************************************************************************)
(* TLC instances of WorkerWake: a command or create, its native answers    *)
(* and a scene observer.  Either the scene is used, and a create is ended  *)
(* by its cancellation at most, or its parts may answer and its deadline   *)
(* may pass.  Only answers, deadlines, observers and updates are held      *)
(* back: no fairness demands them.                                         *)
(***************************************************************************)
EXTENDS WorkerWake

SceneUnused ==
    /\ serial = 0 /\ physics = "idle" /\ ~requested /\ ~active
    /\ \A c \in Observers : watching[c] = None
Pending == expired = {} /\ \A o \in Ops : answered[o] = {}

SpecOfOne == Init /\ [][Next /\ (SceneUnused' \/ Pending')]_vars /\ Fairness
=============================================================================
