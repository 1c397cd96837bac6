-------------------------- MODULE CloudflareWorker --------------------------
(***************************************************************************)
(* The Durable Object behind a Cloudflare sandbox                          *)
(* (deploy/cloudflare/worker.js): its PUT, its DELETE and its alarm, which *)
(* take turns wherever one of them awaits the container.                   *)
(*                                                                         *)
(* Storage operations keep other events out until their caller awaits      *)
(* something else (the platform's input gate), so a step reaches from one  *)
(* await of the container to the next.  A container runs until it is       *)
(* destroyed, dies, or INACTIVITY_MS pass without an alarm's renewal.      *)
(*                                                                         *)
(* A definition whose comment says "Mutation" is no part of the system.    *)
(***************************************************************************)

VARIABLES
    status,     \* storage: "none", "creating", "active", "error", "deleted"
    running,    \* ctx.container.running
    armed,      \* storage: the alarm is set
    renewing,   \* alarm() awaits the container
    put,        \* what the PUT that claimed the name awaits
    deleting,   \* a DELETE awaits the container
    deleted     \* history: a DELETE was answered

worker == <<status, running, armed, renewing, put, deleting, deleted>>

WorkerTypeOK ==
    /\ status \in {"none", "creating", "active", "error", "deleted"}
    /\ put \in {"none", "claim", "inactivity", "script", "exit", "destroy", "cleanup", "over"}
    /\ {running, armed, renewing, deleting, deleted} \subseteq BOOLEAN
    /\ status = "none" => put = "none" /\ ~running

WorkerInit ==
    /\ status = "none" /\ put = "none"
    /\ running = FALSE /\ armed = FALSE /\ renewing = FALSE
    /\ deleting = FALSE /\ deleted = FALSE

-----------------------------------------------------------------------------
(* PUT.                                                                    *)

\* Any other status is answered 409.
Claim ==
    /\ status = "none" /\ status' = "creating" /\ put' = "claim"
    /\ UNCHANGED <<running, armed, renewing, deleting, deleted>>

Start ==
    /\ put = "claim" /\ put' = "inactivity" /\ running' = TRUE
    /\ UNCHANGED <<status, armed, renewing, deleting, deleted>>

Bootstrap ==
    /\ put = "inactivity" /\ running
    /\ armed' = TRUE /\ put' = "script"
    /\ UNCHANGED <<status, running, renewing, deleting, deleted>>

ScriptExits ==
    /\ put = "script" /\ running /\ put' = "exit"
    /\ UNCHANGED <<status, running, armed, renewing, deleting, deleted>>

\* Mutation: the status is not read again.
Activate ==
    /\ put = "exit" /\ status' = "active" /\ put' = "over"
    /\ UNCHANGED <<running, armed, renewing, deleting, deleted>>

\* The sandbox is active, unless a DELETE came in between.
Settle ==
    /\ put = "exit"
    /\ IF status = "creating" THEN status' = "active" /\ put' = "over"
       ELSE put' = "destroy" /\ UNCHANGED status
    /\ UNCHANGED <<running, armed, renewing, deleting, deleted>>

\* A call of the container throws, the script fails, or BOOTSTRAP_MS are over.
PutFails ==
    /\ put \in {"claim", "inactivity", "script"} /\ put' = "cleanup"
    /\ status' = IF status = "creating" THEN "error" ELSE status
    /\ UNCHANGED <<running, armed, renewing, deleting, deleted>>

\* destroy() may throw; only the catch clause goes on to delete the alarm.
PutDestroys ==
    /\ put \in {"destroy", "cleanup"} /\ put' = "over"
    /\ \/ running' = FALSE /\ armed' = (armed /\ put = "destroy")
       \/ UNCHANGED <<running, armed>>
    /\ UNCHANGED <<status, renewing, deleting, deleted>>

-----------------------------------------------------------------------------
(* DELETE.                                                                 *)

DeleteSandbox ==
    /\ ~deleting /\ deleting' = TRUE /\ status' = "deleted"
    /\ UNCHANGED <<running, armed, renewing, put, deleted>>

\* destroy() may throw.
DeleteDestroys ==
    /\ deleting /\ deleting' = FALSE
    /\ \/ running' = FALSE /\ armed' = FALSE /\ deleted' = TRUE
       \/ UNCHANGED <<running, armed, deleted>>
    /\ UNCHANGED <<status, renewing, put>>

-----------------------------------------------------------------------------
(* The alarm.  The platform runs an alarm handler again that did not end.  *)

\* Mutation: the container is kept up only once the sandbox is active.
KeepsUpActive == running /\ status = "active"

KeepsUp == running /\ status \in {"active", "creating"}

AlarmRings ==
    /\ armed /\ ~renewing /\ armed' = FALSE
    /\ renewing' = KeepsUp
    /\ UNCHANGED <<status, running, put, deleting, deleted>>

Renew ==
    /\ renewing /\ renewing' = FALSE /\ armed' = TRUE
    /\ UNCHANGED <<status, running, put, deleting, deleted>>

-----------------------------------------------------------------------------
(* The platform.                                                           *)

InactivityStop ==
    /\ running /\ ~armed /\ ~renewing /\ running' = FALSE
    /\ UNCHANGED <<status, armed, renewing, put, deleting, deleted>>

ContainerDies ==
    /\ running /\ running' = FALSE
    /\ UNCHANGED <<status, armed, renewing, put, deleting, deleted>>

\* The object is started anew; its constructor leaves the storage alone.
Restart ==
    /\ put' = IF put = "none" THEN "none" ELSE "over"
    /\ deleting' = FALSE /\ renewing' = FALSE /\ armed' = (armed \/ renewing)
    /\ UNCHANGED <<status, running, deleted>>

PutNext ==
    \/ Start \/ Bootstrap \/ ScriptExits \/ Settle \/ PutFails \/ PutDestroys

WorkerNext ==
    \/ Claim \/ PutNext \/ DeleteSandbox \/ DeleteDestroys
    \/ AlarmRings \/ Renew \/ InactivityStop \/ ContainerDies \/ Restart

\* Requests run on, alarms ring, and an idle container is stopped.
WorkerFairness ==
    WF_worker(PutNext) /\ WF_worker(AlarmRings) /\ WF_worker(Renew) /\ WF_worker(InactivityStop)

-----------------------------------------------------------------------------
\* A sandbox whose DELETE was answered stops for good, even if its PUT was about to start the
\* container, a destroy failed or the object was restarted in between: worker.js writes the
\* status first and reads it again after the script and at each alarm.
DeletedStops == <>[](deleted => ~running)

\* The container of an active sandbox has its alarm: it is not stopped for inactivity.
ActiveStaysUp == running /\ status = "active" => armed \/ renewing

=============================================================================
