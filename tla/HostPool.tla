------------------------------ MODULE HostPool ------------------------------
(***************************************************************************)
(* The pool maintainer, src/hosts/pool.py: ticks that may overlap, because *)
(* the scheduler starts one a minute and a tick creates its hosts one after *)
(* the other.  A tick counts the warm members, lists the excess, creates   *)
(* what it planned and sheds what it listed; nothing locks two ticks out of *)
(* each other.                                                             *)
(*                                                                         *)
(* A host is a row of the hosts table that is a pool member, or was claimed *)
(* by a request that loses its idempotency key and gives it back.  Its id   *)
(* stands for a new row once the old one is gone: a tick finds the row it   *)
(* listed gone, as if it were not on its list.                              *)
(* The plan of a tick is the round robin that PoolBatch shows the loop to   *)
(* compute.  HostLifecycle has the steps of a create and of a delete.      *)
(*                                                                         *)
(* A definition whose comment says "Mutation" is no part of the system.    *)
(***************************************************************************)
EXTENDS PoolPlan

CONSTANTS
    Tick,          \* maintainer processes that may run at the same time
    Reliable,      \* those of them that never die in a tick
    Host,          \* bound: pool members there can be at once
    NoHost,
    Healthy,       \* providers whose creates succeed again and again
    Target,        \* settings.get_pool_targets(); absent providers are 0
    MaxFailures,   \* _MAX_CONSECUTIVE_CREATE_FAILURES
    MaxReturned    \* bound: claimed hosts that may come back, and rows that came back

ASSUME PoolAssumption ==
    /\ IsFiniteSet(Tick) /\ Tick # {} /\ IsFiniteSet(Host) /\ NoHost \notin Host
    /\ Target \in [Provider -> Nat] /\ MaxFailures \in Nat \ {0}
    /\ MaxReturned \in Nat

VARIABLES
    older,     \* pairs of rows of a provider, the one made first in front
    state,     \* what is known of each host's row
    on,        \* its provider
    returned,  \* history: rows that were claimed and came back
    pc, count, excess, todo, making, failures    \* where each tick is

rows == <<older, state, on, returned>>
vars == <<older, state, on, returned, pc, count, excess, todo, making, failures>>

\* A row that is in error or expired counts no more than one that is gone: it is "free".
\* "creating" stands for preparing and bootstrapping.
States == {"free", "creating", "ready", "claimed"}

Rows == {h \in Host : state[h] # "free"}

\* The rows that count: nobody has claimed them.
Warm == {h \in Rows : state[h] # "claimed"}

Members(p) == {h \in Warm : on[h] = p}

TypeOK ==
    /\ older \subseteq Host \X Host
    /\ state \in [Host -> States]
    /\ on \in [Host -> Provider]
    /\ returned \subseteq Host
    /\ pc \in [Tick -> {"idle", "list", "create", "making"}]
    /\ count \in [Tick -> [Provider -> Nat]]
    /\ excess \in [Tick -> SUBSET Host]
    /\ todo \in [Tick -> Seq(Provider)]
    /\ making \in [Tick -> Host \cup {NoHost}]
    /\ failures \in [Tick -> 0..(MaxFailures - 1)]

NoCount == [p \in Provider |-> 0]

\* The provider of a host that is no row, so that free hosts are alike.
Nowhere == CHOOSE p \in Provider : TRUE

Init ==
    /\ older = {}
    /\ state = [h \in Host |-> "free"]
    /\ on = [h \in Host |-> Nowhere]
    /\ returned = {}
    /\ pc = [t \in Tick |-> "idle"]
    /\ count = [t \in Tick |-> NoCount]
    /\ excess = [t \in Tick |-> {}]
    /\ todo = [t \in Tick |-> <<>>]
    /\ making = [t \in Tick |-> NoHost]
    /\ failures = [t \in Tick |-> 0]

Drop(h) ==
    /\ older' = {a \in older : a[1] # h /\ a[2] # h}
    /\ state' = [state EXCEPT ![h] = "free"]
    /\ on' = [on EXCEPT ![h] = Nowhere]
    /\ returned' = returned \ {h}
    /\ excess' = [t \in Tick |-> excess[t] \ {h}]
    /\ making' = [t \in Tick |-> IF making[t] = h THEN NoHost ELSE making[t]]

-----------------------------------------------------------------------------
(* A tick.                                                                 *)

\* Mutation: the hosts that are still being created are not counted.
CountedReady(p) == {h \in Host : state[h] = "ready" /\ on[h] = p}

Counted(p) == Members(p)

Count(t) ==
    /\ pc[t] = "idle"
    /\ count' = [count EXCEPT ![t] = [p \in Provider |-> Cardinality(Counted(p))]]
    /\ pc' = [pc EXCEPT ![t] = "list"]
    /\ UNCHANGED <<rows, excess, todo, making, failures>>

Shortage(t, p) == IF Target[p] > count[t][p] THEN Target[p] - count[t][p] ELSE 0

\* The members of a provider that were made before the host.
OlderMembers(h) == {g \in Members(on[h]) : <<g, h>> \in older}

Over(t, h) == count[t][on[h]] - Target[on[h]]

\* Mutation: a pool that is one over its target is left alone.
ExcessOfTwo(t) ==
    {h \in Warm : Over(t, h) > 1 /\ Cardinality(OlderMembers(h)) < Over(t, h)}

\* The oldest members of the providers that are over their target, by the rows of now.
Excess(t) == {h \in Warm : Cardinality(OlderMembers(h)) < Over(t, h)}

\* sorted(...) of the names of the providers.
Sorted == CHOOSE rank \in Rankings : TRUE

\* The order of the list: provider after provider, the oldest host first.
ShedBefore(g, h) ==
    Sorted[on[g]] < Sorted[on[h]] \/ (on[g] = on[h] /\ <<g, h>> \in older)

List(t) ==
    /\ pc[t] = "list"
    /\ excess' = [excess EXCEPT ![t] = Excess(t)]
    /\ \E rank \in Orders :
          todo' = [todo EXCEPT ![t] = RoundRobin(rank, [p \in Provider |-> Shortage(t, p)])]
    /\ count' = [count EXCEPT ![t] = NoCount]
    /\ pc' = [pc EXCEPT ![t] = "create"]
    /\ failures' = [failures EXCEPT ![t] = 0]
    /\ UNCHANGED <<rows, making>>

\* create_host inserts the row of the next planned host.
Insert(t, h) ==
    /\ pc[t] = "create" /\ todo[t] # <<>>
    /\ state[h] = "free"
    /\ state' = [state EXCEPT ![h] = "creating"]
    /\ on' = [on EXCEPT ![h] = Head(todo[t])]
    /\ older' = older \cup ({g \in Rows : on[g] = Head(todo[t])} \X {h})
    /\ todo' = [todo EXCEPT ![t] = Tail(@)]
    /\ making' = [making EXCEPT ![t] = h]
    /\ pc' = [pc EXCEPT ![t] = "making"]
    /\ UNCHANGED <<returned, count, excess, failures>>

Made(t) ==
    LET h == making[t] IN
    /\ pc[t] = "making" /\ h \in Warm
    /\ state' = [state EXCEPT ![h] = "ready"]
    /\ failures' = [failures EXCEPT ![t] = 0]
    /\ making' = [making EXCEPT ![t] = NoHost]
    /\ pc' = [pc EXCEPT ![t] = "create"]
    /\ UNCHANGED <<older, on, returned, count, excess, todo>>

\* A create failed: too many in a row end the top-up.  Failures are counted only while
\* there is something left to create.
Failed(t, rest) ==
    LET left == IF failures[t] + 1 >= MaxFailures THEN <<>> ELSE rest IN
    /\ todo' = [todo EXCEPT ![t] = left]
    /\ failures' = [failures EXCEPT ![t] = IF left = <<>> THEN 0 ELSE @ + 1]

\* create_host refuses before it inserts: the provider is at its host limit.
Refused(t) ==
    /\ pc[t] = "create" /\ todo[t] # <<>>
    /\ Failed(t, Tail(todo[t]))
    /\ UNCHANGED <<rows, pc, count, excess, making>>

\* The create fails, and its row is in error; or the row was deleted under it.
MakeFails(t) ==
    /\ pc[t] = "making"
    /\ IF making[t] # NoHost THEN Drop(making[t]) ELSE UNCHANGED <<rows, excess, making>>
    /\ Failed(t, todo[t])
    /\ pc' = [pc EXCEPT ![t] = "create"]
    /\ UNCHANGED count

\* All that was planned is done.
Sheds(t) == pc[t] = "create" /\ todo[t] = <<>>

\* delete_host(pool_shed=True) spares a claimed host, refuses one that is still being
\* prepared and ignores one that is gone; its teardown may fail.
Shed(t) ==
    /\ Sheds(t)
    /\ \E h \in excess[t] :
          /\ \A g \in excess[t] \ {h} : ShedBefore(h, g)
          /\ \/ h \in Warm /\ Drop(h)
             \/ excess' = [excess EXCEPT ![t] = @ \ {h}] /\ UNCHANGED <<rows, making>>
    /\ UNCHANGED <<pc, count, todo, failures>>

Finish(t) ==
    /\ Sheds(t) /\ excess[t] = {}
    /\ pc' = [pc EXCEPT ![t] = "idle"]
    /\ UNCHANGED <<rows, count, excess, todo, making, failures>>

\* The process stops; the row it was making keeps its safety TTL.
Die(t) ==
    /\ pc[t] # "idle" /\ t \notin Reliable
    /\ pc' = [pc EXCEPT ![t] = "idle"]
    /\ count' = [count EXCEPT ![t] = NoCount]
    /\ excess' = [excess EXCEPT ![t] = {}]
    /\ todo' = [todo EXCEPT ![t] = <<>>]
    /\ making' = [making EXCEPT ![t] = NoHost]
    /\ failures' = [failures EXCEPT ![t] = 0]
    /\ UNCHANGED rows

-----------------------------------------------------------------------------
(* What callers and the janitor do to members meanwhile.                   *)

Others == <<pc, count, todo, failures>>

Claimed == {h \in Host : state[h] = "claimed"}

\* A warm claim takes the host out of the pool, for a request that is going to lose its
\* idempotency key.  The claim of any other request is a Leave.
Claim(h) ==
    /\ state[h] = "ready" /\ Cardinality(Claimed \cup returned) < MaxReturned
    /\ state' = [state EXCEPT ![h] = "claimed"]
    /\ UNCHANGED <<older, on, returned, excess, making, Others>>

\* _release_idempotency_loser: the host is a member again, whatever a tick has made in
\* its place.
Return(h) ==
    /\ state[h] = "claimed"
    /\ state' = [state EXCEPT ![h] = "ready"]
    /\ returned' = returned \cup {h}
    /\ UNCHANGED <<older, on, excess, making, Others>>

\* It is claimed; or its lease runs out and the janitor reaps it, or a caller deletes it,
\* even under the tick that is making it.
Leave(h) ==
    /\ state[h] # "free"
    /\ Drop(h)
    /\ UNCHANGED Others

-----------------------------------------------------------------------------
Work(t) ==
    \/ Count(t) \/ List(t) \/ Made(t) \/ Refused(t) \/ MakeFails(t)
    \/ Shed(t) \/ Finish(t)
    \/ \E h \in Host : Insert(t, h)

Next ==
    \/ \E t \in Tick : Work(t) \/ Die(t)
    \/ \E h \in Host : Claim(h) \/ Return(h) \/ Leave(h)

Spec == Init /\ [][Next]_vars

\* Ticks in Reliable are started for ever and run to their end; the shuffle puts every
\* underfilled provider first again and again; creates on a provider in Healthy and
\* teardowns succeed again and again.  A row no tick works on any more goes with its
\* lease; a request that loses its key gives the host back or dies, and such requests are
\* finitely many.  Nothing is assumed of the creates of other providers.
Abandoned(h) == state[h] = "creating" /\ \A t \in Tick : making[t] # h

ShedsReady(t) ==
    Shed(t) /\ \E h \in Host : state[h] = "ready" /\ state'[h] = "free"

FairSpec ==
    /\ Spec
    /\ \A t \in Tick : WF_vars(Work(t) \/ Die(t))
    /\ \A t \in Reliable :
          /\ SF_vars(ShedsReady(t))
          /\ \A p \in Healthy :
                /\ SF_vars(List(t) /\ todo'[t] # <<>> /\ Head(todo'[t]) = p)
                /\ SF_vars(\E h \in Host : Insert(t, h) /\ on'[h] = p)
    /\ \A t \in Tick, p \in Healthy : SF_vars(Made(t) /\ on[making[t]] = p)
    /\ \A h \in Host :
          /\ WF_vars(Abandoned(h) /\ Leave(h))
          /\ WF_vars(h \in Claimed /\ (Leave(h) \/ Return(h)))
    /\ <>[][\A h \in Host : ~Claim(h)]_vars

-----------------------------------------------------------------------------
(* What the maintainer promises.                                           *)

\* However the ticks interleave, each tick beyond the first can add no more than one
\* batch to what a provider should have (maintain_pool, pool.py:32-36; the docstring
\* speaks of one batch, which is right for two ticks and not for three).  A host that a
\* request claimed and gave back comes on top: a tick may have replaced it meanwhile.
OvershootIsBounded ==
    \A p \in Provider :
       Cardinality(Members(p) \ returned) <= Target[p] + (Cardinality(Tick) - 1) * Budget

\* Overlapping ticks make at most a batch each too many (maintain_pool).
PoolInv == TypeOK /\ OvershootIsBounded

\* A provider whose creates work has a ready host again and again, although the
\* creates of others keep failing and the budget is smaller than the number of
\* providers in need (the comment of the shuffle, pool.py:96-100).
EveryPoolIsServed ==
    \A p \in Healthy :
       Target[p] > 0 => []<>(\E h \in Host : on[h] = p /\ state[h] = "ready")

\* A pool over its target comes back to it, although the rows it lists may be claimed,
\* shed by another tick or still in the making when their turn comes (pool.py:139-147),
\* and claimed hosts may come back to a pool that is full.
ExcessIsShed ==
    \A p \in Provider : []<>(Cardinality(Members(p)) <= Target[p])

=============================================================================
