--------------------------- MODULE HostRefinement ---------------------------
(* HostLifecycle implements SandboxPromise where no delete_host gives its    *)
(* row lock up half way, that is on a provider outside the tailnet.          *)
EXTENDS HostLifecycle

Phase(h) ==
    CASE row[h].status = "unborn" -> "absent"
      [] row[h].status \in Preparing -> "pending"
      [] row[h].status \in Renewable -> "usable"
      [] row[h].status = "error" -> "failed"
      [] row[h].status = "gone" -> "gone"

CallerDeleting(h) ==
    \E t \in Task :
        task[t].host = h /\ task[t].kind = "api" /\ task[t].pc \notin {"idle", "picked"}

Abstract == INSTANCE SandboxPromise WITH
    phase  <- [h \in Host |-> Phase(h)],
    live   <- vm,
    held   <- {h \in Host : Held(h)},
    ending <- {h \in Host : CallerDeleting(h)},
    adrift <- unheard

\* Every step of rows, locks, coroutines and deletes is a step of what the API
\* promises, or none (create_host, provision, renew_host, delete_host, janitor,
\* pool shedding, claims and releases, together).
ImplementsPromise == Abstract!Spec
=============================================================================
