--------------------------- MODULE SandboxPromise ---------------------------
(***************************************************************************)
(* What the hosts API promises of a sandbox, with nothing of how rows,     *)
(* locks, sessions and provider calls bring it about:                      *)
(*   - a VM is brought up only for a host whose creation was asked for and *)
(*     is not over, and is gone before the host is; only a creation that   *)
(*     was given up before the provider answered may still bring one up;   *)
(*   - while a lease that a caller was told of runs, and the request that  *)
(*     made the host has not taken it back, only a caller ends the host,   *)
(*     unless the host failed;                                             *)
(*   - a host that is gone stays gone.                                     *)
(***************************************************************************)
CONSTANT Host

VARIABLES
    phase,    \* absent, pending, usable, failed, gone
    live,     \* hosts with a VM
    held,     \* hosts whose promised lease runs
    ending,   \* hosts a caller is deleting
    adrift    \* hosts whose creation was given up before the provider answered

vars == <<phase, live, held, ending, adrift>>

Ended == {"absent", "gone"}

Init ==
    /\ phase = [h \in Host |-> "absent"]
    /\ live = {}
    /\ held = {}
    /\ ending = {}
    /\ adrift = {}

Become(h, p) == phase' = [phase EXCEPT ![h] = p]

MayEnd(h) == phase[h] \notin Ended /\ (h \in held => h \in ending)

Ask(h) ==
    /\ phase[h] = "absent" /\ Become(h, "pending")
    /\ UNCHANGED <<live, held, ending, adrift>>

Boot(h) ==
    /\ phase[h] = "pending" /\ live' = live \cup {h}
    /\ UNCHANGED <<phase, held, ending, adrift>>

Deliver(h) ==
    /\ phase[h] = "pending" /\ h \in live \ adrift /\ Become(h, "usable")
    /\ UNCHANGED <<live, held, ending, adrift>>

\* The creation is given up while the provider may still be at it.
Abandon(h) ==
    /\ phase[h] = "pending" /\ adrift' = adrift \cup {h}
    /\ UNCHANGED <<phase, live, held, ending>>

\* ... and then brings the VM up, be the host there or not.
Stray(h) ==
    /\ h \in adrift /\ live' = live \cup {h}
    /\ UNCHANGED <<phase, held, ending, adrift>>

Fail(h) ==
    /\ phase[h] \in {"pending", "usable"} /\ Become(h, "failed")
    /\ held' = held \ {h}
    /\ UNCHANGED <<live, ending, adrift>>

\* A caller is told a lease end, which may be in the past at once.
Promise(h) ==
    /\ phase[h] = "usable"
    /\ held' \in {held \cup {h}, held \ {h}}
    /\ UNCHANGED <<phase, live, ending, adrift>>

\* Leases run out, or the request that lost its idempotency key takes one back.
Lapse ==
    /\ held' \subseteq held
    /\ UNCHANGED <<phase, live, ending, adrift>>

\* A caller's delete begins, or gives up.
CallerDeletes(h) ==
    /\ phase[h] \notin Ended
    /\ \/ phase[h] # "pending" /\ ending' = ending \cup {h}
       \/ ending' = ending \ {h}
    /\ UNCHANGED <<phase, live, held, adrift>>

Stop(h) ==
    /\ MayEnd(h) /\ live' = live \ {h}
    /\ UNCHANGED <<phase, held, ending, adrift>>

End(h) ==
    /\ MayEnd(h) /\ h \notin live \ adrift /\ Become(h, "gone")
    /\ held' = held \ {h}
    /\ ending' = ending \ {h}
    /\ UNCHANGED <<live, adrift>>

Next ==
    \/ \E h \in Host :
        \/ Ask(h) \/ Boot(h) \/ Deliver(h) \/ Abandon(h) \/ Stray(h) \/ Fail(h)
        \/ Promise(h)
        \/ CallerDeletes(h) \/ Stop(h) \/ End(h)
    \/ Lapse

Spec == Init /\ [][Next]_vars
=============================================================================
