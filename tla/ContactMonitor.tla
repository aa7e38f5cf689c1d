---------------------------- MODULE ContactMonitor ----------------------------
(***************************************************************************)
(* The system plugin that watches physical contacts: the table of models   *)
(* that the physics thread refreshes, the contact messages that the        *)
(* transport delivers later from a thread of its own, and the verdict.     *)
(***************************************************************************)
EXTENDS Integers, Sequences, FiniteSets, SequencesExt, FiniteSetsExt

CONSTANTS Names,        \* of top-level models
          Managed,      \* those that begin with managed_obstacle_prefix_
          Tracked,      \* those that MatchesTrackedPrefix accepts
          MaxContacts   \* bound of the model: messages in flight

ASSUME ContactMonitorAssumption ==
    /\ IsFiniteSet(Names) /\ Managed \subseteq Names /\ Tracked \subseteq Names
    /\ MaxContacts \in Nat

VARIABLES
    bodies,     \* world_->Models()
    rosAttached, \* AttachRos has run
    snapshot, contactModels,
    contacts,   \* the messages of ~/physics/contacts
    detected,   \* physical_collision_detected_
    topic,      \* what the two latched topics show
    known,      \* history: the models that have not changed since an update ran,
    owed,       \* the contacts of such models since the last reset,
    before      \* and how many of the messages in flight are older than that reset

contactVars ==
    <<bodies, rosAttached, snapshot, contactModels, contacts, detected, topic, known, owed,
      before>>

Kinds == {"absent", "static", "dynamic"}
Pairs == kSubset(2, Names)
Nothing == [n \in {} |-> [static |-> TRUE, managed |-> FALSE]]
Clear == [status |-> FALSE, detail |-> {}]

ContactTypeOK ==
    /\ bodies \in [Names -> Kinds] /\ rosAttached \in BOOLEAN
    /\ snapshot \in [Names -> Kinds]
    /\ DOMAIN contactModels \subseteq Names
    /\ \A n \in DOMAIN contactModels : contactModels[n] \in [static : BOOLEAN, managed : BOOLEAN]
    /\ contacts \in Seq(Pairs) /\ Len(contacts) <= MaxContacts
    /\ topic \in [status : BOOLEAN, detail : Pairs \cup {{}}]
    /\ detected = topic.status /\ (topic.status <=> topic.detail # {})
    /\ known \subseteq Names /\ owed \subseteq Pairs
    /\ before \in Nat /\ before <= Len(contacts)

ContactInit ==
    /\ bodies \in [Names -> Kinds] /\ rosAttached = FALSE
    /\ snapshot = [n \in Names |-> "absent"] /\ contactModels = Nothing
    /\ contacts = <<>> /\ detected = FALSE /\ topic = Clear
    /\ known = {} /\ owed = {} /\ before = 0

-------------------------------------------------------------------------------
\* Models come, go, are renamed and change their static flag: other threads do that.
ModelChanges(n, kind) ==
    /\ bodies[n] # kind
    /\ bodies' = [bodies EXCEPT ![n] = kind]
    /\ known' = known \ {n} /\ owed' = {p \in owed : n \notin p}
    /\ UNCHANGED <<rosAttached, snapshot, contactModels, contacts, detected, topic, before>>

AttachRos ==
    /\ ~rosAttached /\ rosAttached' = TRUE
    /\ topic' = Clear
    /\ UNCHANGED <<bodies, snapshot, contactModels, contacts, detected, known, owed, before>>

\* Mutant of Matches: the snapshot is compared by its size.
MatchesCount == Cardinality({n \in Names : snapshot[n] # "absent"})
                  = Cardinality({n \in Names : bodies[n] # "absent"})

Matches == snapshot = bodies

\* Mutant of RefreshContactModels: the table is not cleared, and emplace keeps what is there.
RefreshAddsOnly ==
    contactModels' = [n \in DOMAIN contactModels \cup {m \in Names : bodies[m] # "absent"} |->
                         IF n \in DOMAIN contactModels THEN contactModels[n]
                         ELSE [static |-> bodies[n] = "static", managed |-> n \in Managed]]

RefreshContactModels ==
    contactModels' = [n \in {m \in Names : bodies[m] # "absent"} |->
                         [static |-> bodies[n] = "static", managed |-> n \in Managed]]

OnUpdate ==
    /\ rosAttached
    /\ IF Matches THEN UNCHANGED <<snapshot, contactModels>>
       ELSE RefreshContactModels /\ snapshot' = bodies
    /\ known' = {n \in Names : bodies[n] # "absent"}
    /\ UNCHANGED <<bodies, rosAttached, contacts, detected, topic, owed, before>>

IsTrackedDynamicActor(n) ==
    ~contactModels[n].static /\ ~contactModels[n].managed /\ n \in Tracked

IsForbiddenPhysicalContact(m, n) ==
    /\ m # n
    /\ \/ IsTrackedDynamicActor(m) /\ contactModels[n].managed
       \/ IsTrackedDynamicActor(n) /\ contactModels[m].managed
       \/ IsTrackedDynamicActor(m) /\ IsTrackedDynamicActor(n)

\* The step finds two models in contact. It is owed a verdict when the update that
\* began the step has seen them as they are.
Touch(pair) ==
    /\ rosAttached /\ Len(contacts) < MaxContacts
    /\ \A n \in pair : bodies[n] # "absent"
    /\ \E n \in pair : bodies[n] = "dynamic"
    /\ contacts' = Append(contacts, pair)
    /\ owed' = IF pair \subseteq known THEN owed \cup {pair} ELSE owed
    /\ UNCHANGED <<bodies, rosAttached, snapshot, contactModels, detected, topic, known, before>>

\* A message that was sent before a reset is delivered after it like any other.
OnContacts ==
    /\ contacts # <<>> /\ contacts' = Tail(contacts)
    /\ before' = IF before = 0 THEN 0 ELSE before - 1
    /\ LET pair == Head(contacts)
       IN  IF /\ ~detected /\ pair \subseteq DOMAIN contactModels
              /\ \E m, n \in pair : IsForbiddenPhysicalContact(m, n)
           THEN detected' = TRUE /\ topic' = [status |-> TRUE, detail |-> pair]
           ELSE UNCHANGED <<detected, topic>>
    /\ UNCHANGED <<bodies, rosAttached, snapshot, contactModels, known, owed>>

\* A reset begins an epoch: no contact from before it is owed a verdict, and the
\* messages that are still in flight are older than it.
OnWorldReset ==
    /\ rosAttached
    /\ detected' = FALSE /\ topic' = Clear
    /\ owed' = {} /\ before' = Len(contacts)
    /\ UNCHANGED <<bodies, rosAttached, snapshot, contactModels, contacts, known>>

ContactNext ==
    \/ \E n \in Names, kind \in Kinds : ModelChanges(n, kind)
    \/ \E pair \in Pairs : Touch(pair)
    \/ AttachRos \/ OnUpdate \/ OnContacts \/ OnWorldReset

ContactSpec == ContactInit /\ [][ContactNext]_contactVars

-------------------------------------------------------------------------------
(***************************************************************************)
(* Properties.                                                             *)
(***************************************************************************)

\* The roles as the documentation gives them (README.md:142-147).
Actor(n) == bodies[n] = "dynamic" /\ n \in Tracked \ Managed
Collision(pair) == (\E n \in pair : Actor(n)) /\ \A n \in pair : Actor(n) \/ n \in Managed

\* A collision since the last reset, of two models that an update has seen and that are
\* still what they were, is on its way or on the topic: no change of the other models, no
\* refresh of the table and no other verdict hides it
\* (gazebo_scene_system_plugin.cpp:154-212).
CollisionIsReported ==
    \A pair \in owed : Collision(pair) => topic.status \/ pair \in ToSet(contacts)

\* A verdict about two models that are what the last update has seen is right: the roles
\* that they have forbid their contact, which is the one that the topic shows.  The
\* roles are the ones at the delivery, whatever the table held for models of these names
\* before (gazebo_scene_system_plugin.cpp:160-171, 192-212).
NoFalseVerdict ==
    [][~detected /\ detected' =>
          LET pair == Head(contacts)
          IN  topic'.detail = pair /\ (pair \subseteq known => Collision(pair))]_contactVars

\* The verdict agrees with the contacts of known models: the two latched topics show the
\* latch, no collision is missed, and none is reported that is not one.
VerdictAgrees == [](ContactTypeOK /\ CollisionIsReported) /\ NoFalseVerdict

\* What README.md:147-149 says of a reset: it "clears both latched status and detail,
\* defining a fresh physical-regression epoch".  A verdict is then about a contact of its
\* own epoch.  The code judges a message that was sent before the reset like any other.
VerdictIsOfEpoch == [][~detected /\ detected' => before = 0]_contactVars
=============================================================================
