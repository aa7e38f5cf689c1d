----------------------------- MODULE OperationLog -----------------------------
(***************************************************************************)
(* What the world endpoint promises about one mutating request: a receipt  *)
(* that moves forward only, is bound to one request body, never leaves a   *)
(* terminal state while it is retained, and stands for at most one         *)
(* execution of the command on the simulated world.                        *)
(*                                                                         *)
(* Nothing here knows about slots, threads, queues or waiters; module      *)
(* Operations is shown to implement it.                                    *)
(***************************************************************************)
CONSTANTS Requests,  \* request IDs that clients may use
          Bodies,    \* distinct contents (method, target, body) of a request
          None       \* no body; not one of Bodies

VARIABLES receipt,   \* receipt[r]: what GET /v1/operations/r reports
          body,      \* body[r]: the content the retained receipt is bound to
          ran        \* ran[r]: the command was let through to the world

vars == <<receipt, body, ran>>

Live == {"accepted", "running"}
Terminal == {"succeeded", "failed", "cancelled"}

TypeOK ==
    /\ receipt \in [Requests -> {"unknown"} \cup Live \cup Terminal]
    /\ body \in [Requests -> Bodies \cup {None}]
    /\ ran \in [Requests -> BOOLEAN]

Init ==
    /\ receipt = [r \in Requests |-> "unknown"]
    /\ body = [r \in Requests |-> None]
    /\ ran = [r \in Requests |-> FALSE]

Accept(r, b) ==
    /\ receipt[r] = "unknown"
    /\ receipt' = [receipt EXCEPT ![r] = "accepted"]
    /\ body' = [body EXCEPT ![r] = b]
    /\ UNCHANGED ran

\* The one execution of the command.
Run(r) ==
    /\ receipt[r] \in Live
    /\ ~ran[r]
    /\ ran' = [ran EXCEPT ![r] = TRUE]
    /\ UNCHANGED <<receipt, body>>

ReportRunning(r) ==
    /\ receipt[r] = "accepted"
    /\ receipt' = [receipt EXCEPT ![r] = "running"]
    /\ UNCHANGED <<body, ran>>

Finish(r, outcome) ==
    /\ receipt[r] \in Live
    /\ outcome = "succeeded" => ran[r]
    /\ receipt' = [receipt EXCEPT ![r] = outcome]
    /\ UNCHANGED <<body, ran>>

\* The retention time is over; the request ID may be used afresh.
Forget(r) ==
    /\ receipt[r] \in Terminal
    /\ receipt' = [receipt EXCEPT ![r] = "unknown"]
    /\ body' = [body EXCEPT ![r] = None]
    /\ ran' = [ran EXCEPT ![r] = FALSE]

Next ==
    \E r \in Requests :
        \/ \E b \in Bodies : Accept(r, b)
        \/ Run(r)
        \/ ReportRunning(r)
        \/ \E outcome \in Terminal : Finish(r, outcome)
        \/ Forget(r)

Spec == Init /\ [][Next]_vars
===============================================================================
