------------------------------ MODULE Tailnet ------------------------------
(***************************************************************************)
(* The Tailscale client of one process, src/networking/tailscale.py: the   *)
(* token cache of TailscaleAPI, the poller that _DeviceWaiter shares       *)
(* between provisions, and the calls provisions and teardowns make through *)
(* Tailscale (issue_join_credentials, wait_for_device, release_device).    *)
(*                                                                         *)
(* All are coroutines of one event loop: from one await to the next is one *)
(* step.  Only tokens need the clock: waiters may time out and the poller  *)
(* may wake at any time.  A token and a request carry the time they have   *)
(* left and the time they have taken, so that the clock needs no bound.    *)
(* Of a listing it matters when Tailscale makes it and when it arrives;    *)
(* other answers are made when they arrive, a token at any time before.    *)
(*                                                                         *)
(* A definition whose comment says "Mutation" is no part of the system.    *)
(***************************************************************************)
EXTENDS Integers, FiniteSets

CONSTANTS
    Host,      \* hosts, each with the coroutine that provisions it and deletes it
    Poller,    \* the poll task
    Ttl,       \* expires_in, how long Tailscale honours a token
    Buffer,    \* access_token_expiry_buffer_seconds
    Latency    \* the longest a request takes (api_timeout)

ASSUME PollerAssumption == Poller \notin Host
ASSUME TokenAssumption ==
    /\ Ttl \in Nat /\ Buffer \in Nat /\ Latency \in Nat
    /\ Latency <= Buffer /\ 2 * Latency < Ttl

VARIABLES
    granted,   \* Tailscale honours the OAuth client
    cached,    \* _access_token: when it really ends, and how long it is used
    call,      \* the request each coroutine has under way
    stage,     \* how far each host is
    waiter,    \* _waiters, and how each future was resolved
    device,    \* the host's auth key, and then its device in the tailnet
    closed     \* aclose was called

vars == <<granted, cached, call, stage, waiter, device, closed>>
tailnet == <<granted, device>>

NoToken == [left |-> 0, usable |-> 0]

NoCall == [pc |-> "none", age |-> 0, left |-> 0, listed |-> {}]
Resting == [NoCall EXCEPT !.pc = "top"]

Caller == Host \cup {Poller}

Pending(h) == waiter[h] = "pending"

InRequest(x) == call[x].pc \notin {"none", "top"}

\* A host's future is registered exactly while its coroutine waits for it.
TypeOK ==
    /\ granted \in BOOLEAN /\ closed \in BOOLEAN
    /\ cached \in [left : 0..Ttl, usable : 0..Ttl]
    /\ call \in [Caller -> [pc : {"none", "top", "token", "api", "listed"},
                            age : 0..Latency, left : 0..Ttl, listed : SUBSET Host]]
    /\ stage \in [Host -> {"new", "issuing", "booting", "waiting", "known", "releasing",
                           "released", "failed"}]
    /\ waiter \in [Host -> {"none", "pending", "found", "denied"}]
    /\ device \in [Host -> {"none", "keyed", "up", "gone"}]
    /\ \A h \in Host : waiter[h] # "none" <=> stage[h] = "waiting"

Init ==
    /\ granted \in BOOLEAN /\ closed = FALSE
    /\ cached = NoToken
    /\ call = [x \in Caller |-> NoCall]
    /\ stage = [h \in Host |-> "new"]
    /\ waiter = [h \in Host |-> "none"]
    /\ device = [h \in Host |-> "none"]

-----------------------------------------------------------------------------
(* Requests.                                                               *)

\* Mutation: the token's time runs from its arrival, and to its end.
UsableToItsEnd(age) == Ttl

\* get_access_token reads the clock before it asks, and keeps a buffer.
UsableFor(age) == IF Ttl > Buffer + age THEN Ttl - Buffer - age ELSE 0

Request(pc, left) == [NoCall EXCEPT !.pc = pc, !.left = left]

\* get_access_token: the cached token, or a fetch; fetches are not serialised.
FirstRequest == IF cached.usable > 0 THEN Request("api", cached.left) ELSE Request("token", 0)

Honoured(x) == granted /\ call[x].left > 0

\* The token is cached with the time it may be used, and the request proper leaves.
TokenArrives(x) ==
    /\ call[x].pc = "token" /\ granted
    /\ \E left \in Ttl - call[x].age..Ttl :
          /\ cached' = [left |-> left, usable |-> UsableFor(call[x].age)]
          /\ call' = [call EXCEPT ![x] = Request("api", left)]
    /\ UNCHANGED <<stage, waiter, closed, tailnet>>

\* 401 or 403, for the client or for the token.
Refused(x) == \/ call[x].pc = "token" /\ ~granted
              \/ call[x].pc = "api" /\ ~Honoured(x)

-----------------------------------------------------------------------------
(* Provision and teardown.                                                 *)

Reaches(h, s) == stage' = [stage EXCEPT ![h] = s]

\* issue_join_credentials, release_device
Ask(h, from, to) ==
    /\ ~closed /\ stage[h] = from /\ Reaches(h, to)
    /\ call' = [call EXCEPT ![h] = FirstRequest]
    /\ UNCHANGED <<cached, waiter, closed, tailnet>>

\* A provision fails; a teardown fails and is tried again.
AfterFailure(h) == IF stage[h] = "issuing" THEN "failed" ELSE "known"

\* The key arrives and boots with the VM; a device that is not found is released as well.
Completes(h) ==
    /\ call[h].pc = "api" /\ Honoured(h)
    /\ call' = [call EXCEPT ![h] = NoCall]
    /\ IF stage[h] = "issuing"
       THEN Reaches(h, "booting") /\ device' = [device EXCEPT ![h] = "keyed"]
       ELSE Reaches(h, "released") /\ device' = [device EXCEPT ![h] = "gone"]
    /\ UNCHANGED <<granted, cached, waiter, closed>>

\* The request, or the answer to one that Tailscale carried out, is lost or refused.
CallFails(h) ==
    /\ InRequest(h)
    /\ call' = [call EXCEPT ![h] = NoCall] /\ Reaches(h, AfterFailure(h))
    /\ device' \in {device} \cup
          (IF stage[h] = "releasing" /\ Honoured(h) THEN {[device EXCEPT ![h] = "gone"]} ELSE {})
    /\ UNCHANGED <<granted, cached, waiter, closed>>

\* Mutation: a poller that has ended is taken for one that runs.
StartedOnce == IF \E h \in Host : stage[h] \in {"waiting", "known", "failed"}
               THEN call[Poller] ELSE Resting

\* The poller a waiter finds, or starts.
PollerForWaiter == IF call[Poller].pc = "none" THEN Resting ELSE call[Poller]

\* wait_for, up to its await: the poller is there and the future registered in one step.
WaitFor(h) ==
    /\ stage[h] = "booting" /\ Reaches(h, "waiting")
    /\ call' = [call EXCEPT ![Poller] = PollerForWaiter]
    /\ waiter' = [waiter EXCEPT ![h] = "pending"]
    /\ UNCHANGED <<cached, closed, tailnet>>

Unregistered(h) == "none"

\* wait_for leaves: with the answer, or because its time is over or it is cancelled, which
\* may even happen after the future was resolved.
Leaves(h, outcome) ==
    /\ stage[h] = "waiting" /\ Reaches(h, outcome)
    /\ waiter' = [waiter EXCEPT ![h] = Unregistered(h)]
    /\ UNCHANGED <<cached, call, closed, tailnet>>

Wakes(h) ==
    \/ waiter[h] = "found" /\ Leaves(h, "known")
    \/ waiter[h] = "denied" /\ Leaves(h, "failed")

GivesUp(h) == Leaves(h, "failed")

-----------------------------------------------------------------------------
(* The poller.                                                             *)

SomeoneWaits == \E h \in Host : waiter[h] # "none"

\* The head of the loop, at the start and after every sleep.
PollerWakes ==
    /\ call[Poller].pc = "top"
    /\ call' = [call EXCEPT ![Poller] = IF SomeoneWaits THEN FirstRequest ELSE NoCall]
    /\ UNCHANGED <<cached, stage, waiter, closed, tailnet>>

\* Tailscale lists the devices; those of hosts that no longer look for one are left out.
Listed ==
    /\ call[Poller].pc = "api" /\ Honoured(Poller)
    /\ call' = [call EXCEPT ![Poller].pc = "listed",
                            ![Poller].listed = {h \in Host : device[h] = "up"
                                                  /\ stage[h] \in {"booting", "waiting"}}]
    /\ UNCHANGED <<cached, stage, waiter, closed, tailnet>>

\* A listing resolves whoever waits when it arrives.
PollerLists ==
    /\ call[Poller].pc = "listed"
    /\ waiter' = [h \in Host |-> IF Pending(h) /\ h \in call[Poller].listed THEN "found"
                                 ELSE waiter[h]]
    /\ call' = [call EXCEPT ![Poller] = Resting]
    /\ UNCHANGED <<cached, stage, closed, tailnet>>

Denial(h) == IF Pending(h) THEN "denied" ELSE waiter[h]

\* NetworkAuthError: all futures fail, and the task ends.
PollerRefused ==
    /\ Refused(Poller)
    /\ waiter' = [h \in Host |-> Denial(h)]
    /\ call' = [call EXCEPT ![Poller] = NoCall]
    /\ UNCHANGED <<cached, stage, closed, tailnet>>

\* Mutation: any error ends the task.
AfterError == NoCall

\* Any other error is for the next round.
NextRound == Resting

PollerBreaks ==
    /\ InRequest(Poller)
    /\ call' = [call EXCEPT ![Poller] = NextRound]
    /\ UNCHANGED <<cached, stage, waiter, closed, tailnet>>

\* aclose, which the process calls when its requests or its tick are over.
Close ==
    /\ ~closed /\ closed' = TRUE
    /\ \A h \in Host : stage[h] \in {"new", "known", "released", "failed"}
    /\ call' = [call EXCEPT ![Poller] = NoCall]
    /\ UNCHANGED <<cached, stage, waiter, tailnet>>

-----------------------------------------------------------------------------
(* The tailnet and time.                                                   *)

\* The VM joins with its key, which works once; an ephemeral device goes by itself.
DeviceJoinsOrGoes(h) ==
    /\ \/ device[h] = "keyed" /\ device' = [device EXCEPT ![h] = "up"]
       \/ device[h] = "up" /\ device' = [device EXCEPT ![h] = "gone"]
    /\ UNCHANGED <<granted, cached, call, stage, waiter, closed>>

Revoke ==
    /\ granted /\ granted' = FALSE
    /\ UNCHANGED <<cached, call, stage, waiter, device, closed>>

Less(n) == IF n > 0 THEN n - 1 ELSE 0

Tick ==
    /\ \A x \in Caller : InRequest(x) => call[x].age < Latency
    /\ cached' = [left |-> Less(cached.left), usable |-> Less(cached.usable)]
    /\ call' = [x \in Caller |-> IF InRequest(x) THEN [call[x] EXCEPT !.age = @ + 1, !.left = Less(@)]
                                ELSE call[x]]
    /\ UNCHANGED <<granted, stage, waiter, device, closed>>

HostStep(h) ==
    \/ Ask(h, "new", "issuing") \/ Ask(h, "known", "releasing")
    \/ TokenArrives(h) \/ Completes(h) \/ CallFails(h)
    \/ WaitFor(h) \/ Wakes(h) \/ GivesUp(h) \/ DeviceJoinsOrGoes(h)

PollerStep ==
    \/ PollerWakes \/ TokenArrives(Poller) \/ Listed
    \/ PollerLists \/ PollerRefused \/ PollerBreaks

Next == (\E h \in Host : HostStep(h)) \/ PollerStep \/ Close \/ Revoke \/ Tick

Spec == Init /\ [][Next]_vars

\* The poller and woken coroutines go on, and of requests made for ever some get through.
FairSpec ==
    /\ Spec
    /\ WF_vars(PollerStep) /\ \A h \in Host : WF_vars(Wakes(h))
    /\ SF_vars(TokenArrives(Poller)) /\ SF_vars(Listed)
    /\ SF_vars(PollerLists) /\ SF_vars(PollerRefused)

-----------------------------------------------------------------------------
\* "wait_for spawns a fresh task next time someone shows up" (_poll): however starting,
\* ending and registering interleave, no unresolved waiter is without a poller.
WaiterHasPoller == (\E h \in Host : Pending(h)) => call[Poller].pc # "none"

\* "Auth failures don't heal on retry" (_poll): a provision is failed for a refusal only
\* when Tailscale refuses the client, and never because the cached token ran out on the
\* way; the buffer of get_access_token is for that.
DenialIsReal == granted => \A h \in Host : waiter[h] # "denied"

\* delete_device: a release reported as done has left no device.
ReleasedIsGone == \A h \in Host : stage[h] = "released" => device[h] = "gone"

\* A refusal is Tailscale's own and a release that counts as done is done
\* (get_access_token and delete_device).
TailnetInv == TypeOK /\ DenialIsReal /\ ReleasedIsGone

\* A device that is in the tailnet while its host waits is found, whatever listings fail
\* and whoever else comes and goes, unless the host gives up; and with a client that is
\* refused nobody waits until its time is over: "so a bad token surfaces as itself rather
\* than a discovery timeout" (_poll).
WaitIsAnswered ==
    \A h \in Host :
        Pending(h) /\ (device[h] = "up" \/ ~granted)
            ~> ~Pending(h) \/ (device[h] = "gone" /\ granted)

\* "Exit when no one's waiting" (_poll): the polls of a process where nobody waits end.
PollerEnds == ~SomeoneWaits ~> SomeoneWaits \/ call[Poller].pc = "none"

\* Neither the wait of a host nor the polling of a process goes on without need (_poll).
WaitsEnd == WaitIsAnswered /\ PollerEnds

=============================================================================
