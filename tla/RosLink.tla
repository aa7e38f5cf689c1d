-------------------------------- MODULE RosLink --------------------------------
(***************************************************************************)
(* The link of a Gazebo process to ROS.  One watcher thread of the process *)
(* probes the ROS master, binds to the first one it finds, runs the        *)
(* registrations of the plugins while it is connected and ends the process *)
(* when the master was replaced.  The data source is one of the plugins:   *)
(* its registration advertises the topics and starts the worker that       *)
(* publishes the clock and the models after the physics thread and new     *)
(* subscribers woke it.                                                    *)
(*                                                                         *)
(* Atomics are sequentially consistent here: between the worker's store of *)
(* requested_ and its load of the clock it locks a mutex, which on x86 is  *)
(* a full fence.                                                           *)
(***************************************************************************)
EXTENDS Integers, FiniteSets

CONSTANTS Owners, Data,        \* registrations, and the one of the data source
          Budget,              \* registrations_ of the watcher
          Masters, PidOf,      \* incarnations of the ROS master and their PIDs
          Down, NoOwner,
          Period,              \* 1 / rate, 0 without a rate
          Senders,             \* who sends wake-ups: "physics", "subscriber"
          MaxClock             \* bound of the model: simulation time

ASSUME RosLinkAssumption ==
    /\ Data \in Owners /\ NoOwner \notin Owners /\ IsFiniteSet(Owners)
    /\ Budget \in Nat /\ Down \notin Masters
    /\ Senders \subseteq {"physics", "subscriber"}
    /\ PidOf \in [Masters -> Nat \ {0}]
    /\ Period \in Nat /\ MaxClock \in Nat

VARIABLES
    master,                                   \* the environment: who answers
    place, state, boundPid, boundRun, found,  \* the watcher
    due, wake, stopping,                      \* its probe time, eventfd and stop
    left, calling,                            \* this round's registrations
    owner, armed, applied,                    \* RosRegistration and its owner
    attached, clock, stale, clockRequested,   \* what the data worker publishes
    requested, signal,                        \* requested_ and the data eventfd
    sender,                                   \* Wake in progress: physics, subscriber
    worker, last, dataStop

masterVars == <<place, state, boundPid, boundRun, found, due, stopping, left, calling>>
ownerVars == <<owner, armed, applied>>
dataVars == <<attached, clock, stale, clockRequested, requested, signal, sender, worker, last>>
vars == <<master, masterVars, wake, ownerVars, dataVars, dataStop>>

Added == {r \in Owners : owner[r] = "added"}
NoRun == "none"

TypeOK ==
    /\ master \in Masters \cup {Down}
    /\ place \in {"none", "top", "getPid", "getParam", "copy", "each", "call", "poll", "ended"}
    /\ state \in {"waiting", "connected", "unavailable", "replaced"}
    /\ boundPid \in {0} \cup {PidOf[m] : m \in Masters}
    /\ boundRun \in Masters \cup {NoRun}
    /\ found \in Masters \cup {Down}
    /\ due \in BOOLEAN /\ wake \in BOOLEAN /\ stopping \in BOOLEAN
    /\ left \in SUBSET Owners /\ calling \in Owners \cup {NoOwner}
    /\ (calling # NoOwner) <=> (place = "call")
    /\ owner \in [Owners -> {"none", "added", "refused", "disarmed", "removed"}]
    /\ armed \in SUBSET Added /\ applied \in [Owners -> 0..1]
    /\ clock \in 0..MaxClock /\ last \in -1..MaxClock
    /\ attached \in BOOLEAN /\ stale \in BOOLEAN /\ clockRequested \in BOOLEAN
    /\ requested \in BOOLEAN /\ signal \in BOOLEAN
    /\ sender \in [Senders -> {"idle", "exchange", "write"}]
    /\ worker \in {"none", "poll", "clear", "publish", "snapshot", "ended"}
    /\ dataStop \in {"running", "unregister", "disconnect", "signal", "join", "done"}

Init ==
    /\ master \in Masters \cup {Down}
    /\ place = "none" /\ state = "waiting" /\ boundPid = 0 /\ boundRun = NoRun /\ found = Down
    /\ due = TRUE /\ wake = FALSE /\ stopping = FALSE /\ left = {} /\ calling = NoOwner
    /\ owner = [r \in Owners |-> "none"] /\ armed = {} /\ applied = [r \in Owners |-> 0]
    /\ attached = FALSE /\ clock = 0 /\ stale = FALSE /\ clockRequested = FALSE
    /\ requested = FALSE /\ signal = FALSE
    /\ sender = [t \in Senders |-> "idle"]
    /\ worker = "none" /\ last = -1 /\ dataStop = "running"

-------------------------------------------------------------------------------
(***************************************************************************)
(* Registrations and their owners.                                         *)
(***************************************************************************)
\* The first registration starts the watcher.
Add(r) ==
    /\ owner[r] = "none" /\ ~stopping
    /\ r = Data => dataStop = "running"
    /\ IF Cardinality({o \in Owners : owner[o] \in {"added", "disarmed"}}) >= Budget
       THEN owner' = [owner EXCEPT ![r] = "refused"] /\ UNCHANGED <<armed, wake>>
       ELSE /\ owner' = [owner EXCEPT ![r] = "added"]
            /\ armed' = armed \cup {r} /\ wake' = TRUE
    /\ place' = IF place = "none" THEN "top" ELSE place
    /\ UNCHANGED <<master, state, boundPid, boundRun, found, due, stopping, left, calling,
                   applied, dataVars, dataStop>>

\* Mutant of Disarm: an owner does not wait for its running callback.
DisarmUnlocked(r) ==
    /\ owner[r] = "added"
    /\ armed' = armed \ {r}
    /\ owner' = [owner EXCEPT ![r] = "disarmed"]
    /\ UNCHANGED <<master, masterVars, wake, applied, dataVars>>

\* Waits for a callback of this registration that runs.
Disarm(r) ==
    /\ owner[r] = "added" /\ calling # r
    /\ armed' = armed \ {r}
    /\ owner' = [owner EXCEPT ![r] = "disarmed"]
    /\ UNCHANGED <<master, masterVars, wake, applied, dataVars>>

RemoveOther(r) == r # Data /\ Disarm(r) /\ UNCHANGED dataStop

\* The last owner takes the watcher along.
Erase(r) ==
    /\ owner[r] = "disarmed"
    /\ owner' = [owner EXCEPT ![r] = "removed"]
    /\ LET ends == \A o \in Owners : owner'[o] \notin {"added", "disarmed"}
       IN stopping' = (stopping \/ ends) /\ wake' = (wake \/ ends)
    /\ UNCHANGED <<master, place, state, boundPid, boundRun, found, due, left, calling, armed,
                   applied, dataVars, dataStop>>

-------------------------------------------------------------------------------
(***************************************************************************)
(* The watcher.                                                            *)
(***************************************************************************)
WatcherUnchanged == UNCHANGED <<master, ownerVars, dataVars, dataStop>>

Top ==
    /\ place = "top"
    /\ place' = IF stopping THEN "ended" ELSE IF due THEN "getPid" ELSE "copy"
    /\ UNCHANGED <<state, boundPid, boundRun, found, due, wake, stopping, left, calling>>
    /\ WatcherUnchanged

\* Waiting for the socket drains the wake-ups that come in meanwhile.
MayDrain == wake' \in {wake, FALSE}

ReadPid ==
    /\ place = "getPid" /\ master # Down
    /\ found' = master /\ place' = "getParam"
    /\ MayDrain
    /\ UNCHANGED <<state, boundPid, boundRun, due, stopping, left, calling>>
    /\ WatcherUnchanged

\* No master, a deadline of one second, or the stop.
ReadFails ==
    /\ place = "getPid"
    /\ state' = IF boundPid # 0 THEN "unavailable" ELSE "waiting"
    /\ due' = FALSE /\ place' = "copy"
    /\ MayDrain
    /\ UNCHANGED <<boundPid, boundRun, found, stopping, left, calling>>
    /\ WatcherUnchanged

\* Mutant of Replaced: a run ID is not compared.
ReplacedByPid(run) == boundPid # 0 /\ PidOf[found] # boundPid

Replaced(run) == /\ boundPid # 0
                 /\ \/ PidOf[found] # boundPid
                    \/ run # NoRun /\ boundRun # NoRun /\ run # boundRun

\* Mutant of Identify: another master is taken for an outage.
IdentifyWaits(run) ==
    /\ place = "getParam" /\ run \in {NoRun, master} \ {Down}
    /\ place' = "copy" /\ due' = FALSE
    /\ IF Replaced(run)
       THEN state' = "unavailable" /\ UNCHANGED <<boundPid, boundRun>>
       ELSE /\ state' = "connected" /\ boundPid' = PidOf[found]
            /\ boundRun' = IF run # NoRun THEN run ELSE boundRun
    /\ MayDrain
    /\ UNCHANGED <<found, stopping, left, calling>>
    /\ WatcherUnchanged

\* The run ID may be missing; the process ends when the master is another one.
Identify(run) ==
    /\ place = "getParam" /\ run \in {NoRun, master} \ {Down}
    /\ IF Replaced(run)
       THEN state' = "replaced" /\ place' = "ended" /\ UNCHANGED <<boundPid, boundRun, due>>
       ELSE /\ state' = "connected" /\ place' = "copy"
            /\ boundPid' = PidOf[found]
            /\ boundRun' = IF run # NoRun THEN run ELSE boundRun
            /\ due' = FALSE
    /\ MayDrain
    /\ UNCHANGED <<found, stopping, left, calling>>
    /\ WatcherUnchanged

Copy ==
    /\ place = "copy"
    /\ left' = IF state = "connected" THEN {r \in Owners : owner[r] \in {"added", "disarmed"}}
                                      ELSE {}
    /\ place' = "each"
    /\ UNCHANGED <<state, boundPid, boundRun, found, due, wake, stopping, calling>>
    /\ WatcherUnchanged

Runnable(r) == ~stopping /\ applied[r] = 0 /\ r \in armed

\* A registration runs under its mutex.
Each(r) ==
    /\ place = "each" /\ r \in left
    /\ left' = left \ {r}
    /\ IF Runnable(r) THEN calling' = r /\ place' = "call" ELSE UNCHANGED <<calling, place>>
    /\ UNCHANGED <<state, boundPid, boundRun, found, due, wake, stopping>>
    /\ WatcherUnchanged

\* The one of the data source advertises its topics and starts its worker.
CallbackSucceeds ==
    /\ place = "call"
    /\ applied' = [applied EXCEPT ![calling] = @ + 1]
    /\ worker' = IF calling = Data THEN "poll" ELSE worker
    /\ calling' = NoOwner /\ place' = "each"
    /\ UNCHANGED <<master, state, boundPid, boundRun, found, due, wake, stopping, left, owner,
                   armed, attached, clock, stale, clockRequested, requested, signal, sender, last,
                   dataStop>>

CallbackFails ==
    /\ place = "call"
    /\ state' = "unavailable" /\ due' = FALSE
    /\ calling' = NoOwner /\ left' = {} /\ place' = "each"
    /\ UNCHANGED <<boundPid, boundRun, found, wake, stopping>>
    /\ WatcherUnchanged

\* Mutant of RoundEnds: the wake-up is drained after the round instead of before it.
PollDrainsLate ==
    /\ place = "each" /\ left = {}
    /\ place' = "poll" /\ wake' = FALSE
    /\ UNCHANGED <<state, boundPid, boundRun, found, due, stopping, left, calling>>
    /\ WatcherUnchanged

RoundEnds ==
    /\ place = "each" /\ left = {}
    /\ place' = "poll"
    /\ UNCHANGED <<state, boundPid, boundRun, found, due, wake, stopping, left, calling>>
    /\ WatcherUnchanged

Poll ==
    /\ place = "poll" /\ (wake \/ due)
    /\ wake' = FALSE /\ place' = "top"
    /\ UNCHANGED <<state, boundPid, boundRun, found, due, stopping, left, calling>>
    /\ WatcherUnchanged

\* The back-off, or the ten seconds between probes, are over.
ProbeDue ==
    /\ ~due /\ due' = TRUE
    /\ UNCHANGED <<place, state, boundPid, boundRun, found, wake, stopping, left, calling>>
    /\ WatcherUnchanged

\* The environment starts, kills and replaces masters.
MasterChanges ==
    /\ master' \in Masters \cup {Down} /\ master' # master
    /\ UNCHANGED <<masterVars, wake, ownerVars, dataVars, dataStop>>

-------------------------------------------------------------------------------
(***************************************************************************)
(* The data source: senders of wake-ups, the worker and the stop.          *)
(***************************************************************************)
DataUnchanged == UNCHANGED <<master, masterVars, wake, ownerVars, dataStop>>
Connected == attached /\ dataStop \in {"running", "unregister"}

\* The world was created; its callbacks are connected.
Attach ==
    /\ dataStop = "running" /\ ~attached /\ "physics" \in Senders
    /\ attached' = TRUE
    /\ sender' = [sender EXCEPT !["physics"] = "exchange"]
    /\ UNCHANGED <<clock, stale, clockRequested, requested, signal, worker, last>>
    /\ DataUnchanged

\* A step of the world, a reset of its time, a model that comes or goes.
Update(time, roster) ==
    /\ Connected /\ sender["physics"] = "idle"
    /\ time # clock \/ roster
    /\ clock' = time /\ stale' = (stale \/ roster)
    /\ sender' = [sender EXCEPT !["physics"] = "exchange"]
    /\ UNCHANGED <<attached, clockRequested, requested, signal, worker, last>>
    /\ DataUnchanged

\* A new subscriber gets the clock at once.
Subscribe ==
    /\ "subscriber" \in Senders /\ sender["subscriber"] = "idle"
    /\ applied[Data] = 1 /\ dataStop # "done"
    /\ clockRequested' = TRUE /\ stale' = TRUE
    /\ sender' = [sender EXCEPT !["subscriber"] = "exchange"]
    /\ UNCHANGED <<attached, clock, requested, signal, worker, last>>
    /\ DataUnchanged

\* One write per request, none after the stop.
Exchange(t) ==
    /\ sender[t] = "exchange"
    /\ IF dataStop # "running" \/ requested
       THEN sender' = [sender EXCEPT ![t] = "idle"] /\ UNCHANGED requested
       ELSE sender' = [sender EXCEPT ![t] = "write"] /\ requested' = TRUE
    /\ UNCHANGED <<attached, clock, stale, clockRequested, signal, worker, last>>
    /\ DataUnchanged

Write(t) ==
    /\ sender[t] = "write"
    /\ sender' = [sender EXCEPT ![t] = "idle"] /\ signal' = TRUE
    /\ UNCHANGED <<attached, clock, stale, clockRequested, requested, worker, last>>
    /\ DataUnchanged

Drain ==
    /\ worker = "poll" /\ signal
    /\ signal' = FALSE /\ worker' = "clear"
    /\ UNCHANGED <<attached, clock, stale, clockRequested, requested, sender, last>>
    /\ DataUnchanged

Clear ==
    /\ worker = "clear"
    /\ requested' = FALSE
    /\ worker' = IF dataStop # "running" THEN "ended"
                 ELSE IF attached THEN "publish" ELSE "poll"
    /\ UNCHANGED <<attached, clock, stale, clockRequested, signal, sender, last>>
    /\ DataUnchanged

Changed == \/ clockRequested \/ last < 0 \/ clock < last
           \/ clock # last /\ clock - last >= Period

Publish ==
    /\ worker = "publish"
    /\ last' = IF Changed THEN clock ELSE last
    /\ clockRequested' = FALSE
    /\ worker' = "snapshot"
    /\ UNCHANGED <<attached, clock, stale, requested, signal, sender>>
    /\ DataUnchanged

\* The models, for whoever subscribed to them.  A snapshot that is refused (more than 256
\* models, a name that is empty or too long) is logged and not tried again before the
\* next wake-up: stale is what the worker has not tried to publish.
Snapshot ==
    /\ worker = "snapshot"
    /\ stale' = FALSE
    /\ worker' = IF dataStop # "running" THEN "ended" ELSE "poll"
    /\ UNCHANGED <<attached, clock, clockRequested, requested, signal, sender, last>>
    /\ DataUnchanged

StopData ==
    /\ owner[Data] # "none" /\ dataStop = "running" /\ dataStop' = "unregister"
    /\ UNCHANGED <<master, masterVars, wake, ownerVars, dataVars>>

StopUnregisters ==
    /\ dataStop = "unregister"
    /\ Disarm(Data)
    /\ UNCHANGED dataStop

\* The last owner has joined the watcher.
StopDisconnects ==
    /\ dataStop = "unregister" /\ owner[Data] \in {"removed", "refused"}
    /\ stopping => place = "ended"
    /\ dataStop' = "disconnect"
    /\ UNCHANGED <<master, masterVars, wake, ownerVars, dataVars>>

\* Mutant of StopSignals: the stop signals by a wake-up, which is refused by then.
StopSignalsByWake ==
    /\ dataStop = "disconnect" /\ dataStop' = "join"
    /\ UNCHANGED <<master, masterVars, wake, ownerVars, dataVars>>

StopSignals ==
    /\ dataStop = "disconnect" /\ dataStop' = "join"
    /\ signal' = TRUE
    /\ UNCHANGED <<master, masterVars, wake, ownerVars, attached, clock, stale,
                   clockRequested, requested, sender, worker, last>>

StopJoins ==
    /\ dataStop = "join" /\ worker \in {"none", "ended"}
    /\ dataStop' = "done"
    /\ UNCHANGED <<master, masterVars, wake, ownerVars, dataVars>>

Watcher == \/ Top \/ ReadFails \/ \E run \in Masters \cup {NoRun} : Identify(run)
           \/ ReadPid \/ Copy \/ (\E r \in Owners : Each(r)) \/ CallbackSucceeds
           \/ CallbackFails \/ RoundEnds \/ Poll
DataWorker == Drain \/ Clear \/ Publish \/ Snapshot
Stopper == StopUnregisters \/ Erase(Data) \/ StopDisconnects \/ StopSignals \/ StopJoins

Next ==
    \/ Watcher \/ ProbeDue \/ MasterChanges
    \/ \E r \in Owners : Add(r) \/ RemoveOther(r) \/ Erase(r)
    \/ \E time \in 0..MaxClock, roster \in BOOLEAN : Update(time, roster)
    \/ Attach \/ Subscribe \/ \E t \in Senders : Exchange(t) \/ Write(t)
    \/ DataWorker \/ StopData \/ Stopper

\* The threads run.  A registration that fails again and again leaves its mutex
\* for the time of the back-off, in which the stop gets it; a master that answers
\* is read at last, its run ID too; a probe comes due when the clock says so.
Fairness ==
    /\ WF_vars(Watcher) /\ WF_vars(DataWorker) /\ SF_vars(Stopper)
    /\ \A t \in Senders : WF_vars(Exchange(t)) /\ WF_vars(Write(t))
    /\ WF_vars(ProbeDue) /\ SF_vars(ReadPid) /\ SF_vars(\E run \in Masters : Identify(run))

Spec == Init /\ [][Next]_vars /\ Fairness

-------------------------------------------------------------------------------
(***************************************************************************)
(* Properties.                                                             *)
(***************************************************************************)

\* No registration waits for the next probe: a watcher that sleeps while it is
\* connected ran every one it was given, although each probe swallows wake-ups
\* (ros_master_registration.cpp:58, 95-96, 250-255, 278-280).
NoneForgotten ==
    place = "poll" /\ state = "connected" /\ ~wake => \A r \in armed : applied[r] = 1

\* A registration never runs, or still runs, for an owner that took it back
\* (ros_master_registration.cpp:61-65; ros_master_registration.hpp:23-25).
NeverAfterRemoval ==
    [][\A r \in Owners : owner[r] \in {"disarmed", "removed"} =>
          applied'[r] = applied[r] /\ calling' # r]_vars

\* The process never passes from the master that it is bound to to another one.
BoundForGood ==
    [][(boundPid # 0 => boundPid' = boundPid) /\ (boundRun # NoRun => boundRun' = boundRun)]_vars

\* A master that took the place of the bound one ends the process, also when
\* nothing answered in between and however others follow it: one with another PID, and
\* one with another run ID, whatever its PID.  A master that is replaced between the
\* two calls of a probe passes for its predecessor in the first and for itself in the
\* second (ros_master_registration.cpp:213-236).
ReplacementEnds ==
    /\ BoundForGood
    /\ (boundPid # 0 /\ master # Down /\ PidOf[master] # boundPid)
           ~> (place = "ended" \/ master = Down \/ PidOf[master] = boundPid)
    /\ (boundRun # NoRun /\ master \notin {Down, boundRun})
           ~> (place = "ended" \/ master \in {Down, boundRun})

\* When the data worker sleeps without a signal, and nobody is on the way to send
\* one, it has published the clock within its period, tried to publish the roster, and
\* published the clock that a new subscriber asked for (simulation_ros_data_plugin.cpp:110-116, 183-208).
DataIsCurrent ==
    worker = "poll" /\ ~signal /\ dataStop = "running" /\ attached
        /\ (\A t \in Senders : sender[t] = "idle")
    => /\ last \in 0..clock /\ (clock - last < Period \/ clock = last)
       /\ ~stale /\ ~clockRequested

\* The stop of the data source leaves no worker behind, whenever its registration
\* runs (simulation_ros_data_plugin.cpp:117-132).
StoppedIsQuiet == dataStop = "done" => worker \in {"none", "ended"}

\* The link and the data source agree with those who rely on them: whoever sleeps
\* has done what it was told, and whoever was stopped does nothing more.
LinkAgrees == TypeOK /\ NoneForgotten /\ DataIsCurrent /\ StoppedIsQuiet

\* The stop ends: the worker is woken although wake-ups are refused by then.
StopEnds == dataStop = "unregister" ~> dataStop = "done"
=============================================================================
