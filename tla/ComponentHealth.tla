---------------------------- MODULE ComponentHealth ----------------------------
(***************************************************************************)
(* The health of a world: the components that it requires, the owners that *)
(* attach to them and report, each from its own thread and without a lock, *)
(* and the IO thread that reads the atomics one after the other to answer, *)
(* or to hold, the clients that ask.                                       *)
(***************************************************************************)
EXTENDS Integers, FiniteSets, FiniteSetsExt

CONSTANTS NumComponents,   \* components_.size()
          Owners,          \* the lives of component owners
          Clients,
          ObserverCap,     \* sixteen, for either kind of waiting
          MaxRevision      \* bound of the model: reports on one component

ASSUME ComponentHealthAssumption ==
    /\ NumComponents \in Nat \ {0} /\ ObserverCap \in Nat /\ MaxRevision \in Nat
    /\ IsFiniteSet(Clients)

Components == 1..NumComponents
States == {"missing", "starting", "ready", "failed"}
Places == {"none", "store", "bump", "up", "set", "close", "release", "gone"}

VARIABLES
    state, revision, attached,    \* NativeComponentState
    owner,                        \* [place, on, said] of each owner
    world, stopping,              \* native_ready_; the stop: no, yes, joined
    io,                           \* what the IO thread reads it for
    at, view,                     \* how far it is, and what it has read
    waits, expired,               \* the clients that are held, and until when
    seen                          \* the last health a client was answered

componentVars == <<state, revision, attached, owner>>
readVars == <<io, at, view>>
clientVars == <<waits, expired, seen>>
healthVars == <<componentVars, world, stopping, readVars, clientVars>>

NoReading == [for |-> "nothing"]
NotSeen == [revision |-> 0, states |-> [c \in Components |-> "missing"], lifecycle |-> "starting"]
Asked == [for : {"query", "observe", "describe"}, client : Clients]
Readings == {NoReading} \cup Asked \cup [for : {"drain"}, then : {NoReading} \cup Asked]
Views == [revision : Nat, states : [Components -> States],
          lifecycle : {"starting", "ready", "failed", "stopping"}]

HealthTypeOK ==
    /\ state \in [Components -> States]
    /\ revision \in [Components -> Nat] /\ attached \in [Components -> BOOLEAN]
    /\ owner \in [Owners -> [place : Places, on : Components \cup {0}, said : States]]
    /\ \A o \in Owners :
          /\ (owner[o].on = 0) <=> owner[o].place \in {"none", "gone"}
          /\ owner[o].on # 0 => attached[owner[o].on]
    /\ world \in BOOLEAN /\ stopping \in {"no", "yes", "joined"}
    /\ io \in Readings
    /\ at \in 0..2 * NumComponents /\ view \in Views
    /\ waits \in [Clients -> {"none", "observe", "describe"}]
    /\ expired \subseteq {k \in Clients : waits[k] # "none"}
    /\ \A kind \in {"observe", "describe"} :
          Cardinality({k \in Clients : waits[k] = kind}) <= ObserverCap
    /\ seen \in [Clients -> Views]

HealthInit ==
    /\ state = [c \in Components |-> "missing"]
    /\ revision = [c \in Components |-> 0]
    /\ attached = [c \in Components |-> FALSE]
    /\ owner = [o \in Owners |-> [place |-> "none", on |-> 0, said |-> "missing"]]
    /\ world = FALSE /\ stopping = "no"
    /\ io = NoReading /\ at = 0 /\ view = NotSeen
    /\ waits = [k \in Clients |-> "none"] /\ expired = {}
    /\ seen = [k \in Clients |-> NotSeen]

-------------------------------------------------------------------------------
(***************************************************************************)
(* Owners.                                                                 *)
(***************************************************************************)
OthersUnchanged == UNCHANGED <<world, stopping, readVars, clientVars>>
Move(o, place) == owner' = [owner EXCEPT ![o].place = place]

\* Mutant of Attach: a component may have two owners.
AttachShared(o, c) ==
    /\ owner[o].place = "none" /\ revision[c] < MaxRevision
    /\ \A p \in Owners : owner[p].place \notin {"store", "bump"}
    /\ attached' = [attached EXCEPT ![c] = TRUE]
    /\ owner' = [owner EXCEPT ![o] = [place |-> "store", on |-> c, said |-> "missing"]]
    /\ UNCHANGED <<state, revision>> /\ OthersUnchanged

\* One attachment at a time; a component that has an owner refuses another one.
Attach(o, c) ==
    /\ owner[o].place = "none" /\ ~attached[c] /\ revision[c] < MaxRevision
    /\ \A p \in Owners : owner[p].place \notin {"store", "bump"}
    /\ attached' = [attached EXCEPT ![c] = TRUE]
    /\ owner' = [owner EXCEPT ![o] = [place |-> "store", on |-> c, said |-> "missing"]]
    /\ UNCHANGED <<state, revision>> /\ OthersUnchanged

Store(o) ==
    /\ owner[o].place = "store"
    /\ state' = [state EXCEPT ![owner[o].on] = "starting"]
    /\ owner' = [owner EXCEPT ![o].said = "starting", ![o].place = "bump"]
    /\ UNCHANGED <<revision, attached>> /\ OthersUnchanged

\* The state first, its revision afterwards, and only when it changed.
Set(o, s, next) ==
    LET c == owner[o].on
    IN  /\ state' = [state EXCEPT ![c] = s]
        /\ owner' = [owner EXCEPT ![o].said = s,
                        ![o].place = IF state[c] # s THEN next ELSE IF next = "set" THEN "up" ELSE "release"]
        /\ UNCHANGED <<revision, attached>> /\ OthersUnchanged

Report(o, s) ==
    /\ owner[o].place = "up" /\ revision[owner[o].on] < MaxRevision
    /\ Set(o, s, "set")

Close(o) == owner[o].place = "up" /\ Set(o, "failed", "close")

\* Mutant of Bump: an owner begins its component at revision one.
BumpAnew(o) ==
    /\ owner[o].place \in {"bump", "set", "close"}
    /\ revision' = [revision EXCEPT ![owner[o].on] = IF owner[o].place = "bump" THEN 1 ELSE @ + 1]
    /\ Move(o, IF owner[o].place = "close" THEN "release" ELSE "up")
    /\ UNCHANGED <<state, attached>> /\ OthersUnchanged

Bump(o) ==
    /\ owner[o].place \in {"bump", "set", "close"}
    /\ revision' = [revision EXCEPT ![owner[o].on] = @ + 1]
    /\ Move(o, IF owner[o].place = "close" THEN "release" ELSE "up")
    /\ UNCHANGED <<state, attached>> /\ OthersUnchanged

ReleaseComponent(o) ==
    /\ owner[o].place = "release"
    /\ attached' = [attached EXCEPT ![owner[o].on] = FALSE]
    /\ owner' = [owner EXCEPT ![o].place = "gone", ![o].on = 0]
    /\ UNCHANGED <<state, revision>> /\ OthersUnchanged

-------------------------------------------------------------------------------
(***************************************************************************)
(* The IO thread.                                                          *)
(***************************************************************************)
Flag(b) == IF b THEN 1 ELSE 0
Reading(what) ==
    /\ io' = what /\ at' = 0
    /\ view' = [NotSeen EXCEPT !.revision = 1 + Flag(world) + Flag(stopping # "no"),
                               !.lifecycle = IF world THEN "ready" ELSE "starting"]

\* Between two polls, and again before a request of a client is looked at.
DrainFor(then) ==
    /\ stopping # "joined" /\ io = NoReading
    /\ Reading([for |-> "drain", then |-> then])
    /\ UNCHANGED <<componentVars, world, stopping, clientVars>>
Drain == DrainFor(NoReading)
Ask(k, kind) == waits[k] = "none" /\ DrainFor([for |-> kind, client |-> k])

\* The state of a component, then its revision.
Read ==
    /\ io # NoReading /\ at < 2 * NumComponents
    /\ at' = at + 1
    /\ LET c == at \div 2 + 1
       IN view' = IF at % 2 = 0 THEN [view EXCEPT !.states[c] = state[c]]
                                ELSE [view EXCEPT !.revision = @ + revision[c]]
    /\ UNCHANGED <<componentVars, world, stopping, io, clientVars>>

Lifecycle ==
    LET states == {view.states[c] : c \in Components}
    IN  IF stopping # "no" THEN "stopping"
        ELSE IF "failed" \in states THEN "failed"
        ELSE IF view.lifecycle = "ready" /\ states = {"ready"} THEN "ready" ELSE "starting"

Hold(k, kind) ==
    waits' = IF Cardinality({j \in Clients : waits[j] = kind}) < ObserverCap
             THEN [waits EXCEPT ![k] = kind] ELSE waits
\* Mutant of Due: an observer is answered when the lifecycle changes.
DueByLifecycle(k, health) ==
    \/ k \in expired
    \/ waits[k] = "observe" /\ health.lifecycle # seen[k].lifecycle
    \/ waits[k] = "describe" /\ health.lifecycle = "ready"

Due(k, health) == \/ k \in expired
                  \/ waits[k] = "observe" /\ health.revision # seen[k].revision
                  \/ waits[k] = "describe" /\ health.lifecycle = "ready"

Health == [view EXCEPT !.lifecycle = Lifecycle]
Finish(kind) ==
    /\ io.for = kind /\ at = 2 * NumComponents
    /\ io' = NoReading /\ at' = 0 /\ view' = NotSeen
    /\ UNCHANGED <<componentVars, world, stopping>>

FinishQuery ==
    /\ Finish("query")
    /\ seen' = [seen EXCEPT ![io.client] = Health]
    /\ UNCHANGED <<waits, expired>>

FinishObserve ==
    /\ Finish("observe")
    /\ IF Health.revision # seen[io.client].revision
       THEN seen' = [seen EXCEPT ![io.client] = Health] /\ UNCHANGED waits
       ELSE Hold(io.client, "observe") /\ UNCHANGED seen
    /\ UNCHANGED expired

\* A description tells more than the health: it counts as no answer to an observer.
FinishDescribe ==
    /\ Finish("describe")
    /\ IF Health.lifecycle = "ready" THEN UNCHANGED waits ELSE Hold(io.client, "describe")
    /\ UNCHANGED <<seen, expired>>

FinishDrain ==
    /\ io.for = "drain" /\ at = 2 * NumComponents
    /\ IF io.then = NoReading THEN io' = NoReading /\ at' = 0 /\ view' = NotSeen
       ELSE Reading(io.then)
    /\ UNCHANGED <<componentVars, world, stopping>>
    /\ seen' = [k \in Clients |-> IF waits[k] = "observe" /\ Health.revision # seen[k].revision
                                  THEN Health ELSE seen[k]]
    /\ waits' = [k \in Clients |-> IF Due(k, Health) THEN "none" ELSE waits[k]]
    /\ expired' = {}

Expire(k) ==
    /\ waits[k] # "none" /\ k \notin expired
    /\ expired' = expired \cup {k}
    /\ UNCHANGED <<componentVars, world, stopping, readVars, waits, seen>>

MarkNativeReady ==
    /\ ~world /\ world' = TRUE
    /\ UNCHANGED <<componentVars, stopping, readVars, clientVars>>

StopEndpoint ==
    /\ stopping = "no" /\ stopping' = "yes"
    /\ UNCHANGED <<componentVars, world, readVars, clientVars>>

\* The IO thread is joined between two polls; who is held is dropped.
Join ==
    /\ stopping = "yes" /\ io = NoReading
    /\ stopping' = "joined"
    /\ waits' = [k \in Clients |-> "none"] /\ expired' = {}
    /\ UNCHANGED <<componentVars, world, readVars, seen>>

HealthNext ==
    \/ \E o \in Owners : \/ \E c \in Components : Attach(o, c)
                         \/ \E s \in {"ready", "failed"} : Report(o, s)
                         \/ Store(o) \/ Close(o) \/ Bump(o) \/ ReleaseComponent(o)
    \/ \E k \in Clients : Expire(k) \/ \E kind \in {"query", "observe", "describe"} : Ask(k, kind)
    \/ Drain \/ Read \/ FinishQuery \/ FinishObserve \/ FinishDescribe \/ FinishDrain
    \/ MarkNativeReady \/ StopEndpoint \/ Join

\* The IO thread polls for ever and drains between polls; what it began it ends.
Answering == Read \/ FinishQuery \/ FinishObserve \/ FinishDescribe \/ FinishDrain
HealthSpec == /\ HealthInit /\ [][HealthNext]_healthVars
              /\ WF_healthVars(Answering) /\ SF_healthVars(Drain) /\ SF_healthVars(Join)

-------------------------------------------------------------------------------
(***************************************************************************)
(* Properties.                                                             *)
(***************************************************************************)

\* A component shows what its owner last reported, and an owner that leaves does
\* not overwrite the report of the next one (native_component_binding.hpp:25-28,
\* simulation_service.cpp:449-453).
OwnerSpeaks ==
    \A o \in Owners : owner[o].place = "up" => state[owner[o].on] = owner[o].said

\* The components and the healths read from them stay in their bounds, and each
\* component speaks for the owner that it has (native_component_binding.hpp:20-44).
HealthAgrees == HealthTypeOK /\ OwnerSpeaks

\* The revision of a client's health never falls, over owners that come and go and
\* healths that are read while they change (simulation_service.cpp:524-528).
RevisionNeverFalls == [][\A k \in Clients : seen'[k].revision >= seen[k].revision]_healthVars

\* A held observer is answered once the revision moves on (simulation_service.cpp:1136-1139).
Total == 1 + Flag(world) + Flag(stopping # "no")
           + MapThenSumSet(LAMBDA c : revision[c], Components)
ObserversLearn ==
    \A k \in Clients : waits[k] = "observe" /\ seen[k].revision # Total ~> waits[k] # "observe"

\* What the test of an unchanged health relies on, "unchanged health returned a
\* fabricated event" (test/native_simulation/verify.py:105): who is held at the
\* current revision has seen the current health.
HeldIsUnchanged ==
    \A k \in Clients :
        /\ waits[k] = "observe" /\ seen[k].revision = Total /\ io = NoReading
        /\ \A o \in Owners : owner[o].place \in {"none", "up", "gone"}
        => seen[k].states = state
=============================================================================
