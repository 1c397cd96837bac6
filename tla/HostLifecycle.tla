--------------------------- MODULE HostLifecycle ---------------------------
(***************************************************************************)
(* The life of a sandbox host: src/hosts/service.py (create_host,          *)
(* provision, renew_host, delete_host, the warm claim, the release of a    *)
(* host whose request lost its idempotency key), the janitor               *)
(* (hosts/janitor.py) and the shedding half of the pool maintainer         *)
(* (hosts/pool.py), against the database row, the provider's VM, the       *)
(* secrets held for the VM and the tailnet device.                         *)
(*                                                                         *)
(* One provisioning coroutine runs per host.  A Task is one call of        *)
(* delete_host, made by the API, by the janitor or by the maintainer.  A   *)
(* Request is one attempt at a warm claim.  Every database transaction is  *)
(* one step; calls to a provider or to Tailscale are steps between them.   *)
(*                                                                         *)
(* A definition whose comment says "Mutation" is no part of the system: it *)
(* is a slip the properties have to tell from the code.                    *)
(***************************************************************************)
EXTENDS Integers, FiniteSets

CONSTANTS
    Host,            \* host ids; a uuid7 is never used twice
    Task,            \* delete_host calls that may run at the same time
    Request,         \* POST /hosts requests that may try a warm claim
    NoHost,          \* no candidate
    Tailnet,         \* the provider's hosts join the tailnet
    Grace,           \* settings.provisioning_grace_seconds
    ProvisionBound,  \* the longest a provision, or its create call, may last
    DefaultLease,    \* settings.lease_default_ttl
    MaxLifetime,     \* the provider's max_lifetime; 0 for none
    PoolAge,         \* settings.pool_host_max_age_hours
    Terms,           \* how far ahead a caller's explicit expires_at may lie
    MaxTime          \* bound on the clock, for TLC

ASSUME HostsAssumption == NoHost \notin Host
ASSUME TimesAssumption ==
    /\ Grace \in Nat /\ ProvisionBound \in Nat /\ DefaultLease \in Nat
    /\ MaxLifetime \in Nat /\ PoolAge \in Nat /\ MaxTime \in Nat
    /\ Terms \subseteq Nat
ASSUME TailnetAssumption == Tailnet \in BOOLEAN

VARIABLES
    now,      \* the clock all processes read
    row,      \* the hosts table
    ask,      \* the expires_at each create request carried
    prov,     \* where each host's provisioning coroutine is
    call,     \* the create call at the provider
    vm,       \* VMs that exist at the provider
    secret,   \* hosts the proxy or the provider holds secrets for
    device,   \* tailnet devices
    task,     \* delete_host calls in flight
    cand,     \* the candidate each claim has selected
    promise,  \* history: the lease end last returned to a caller
    loser,    \* hosts whose request lost its idempotency key and is to release them
    unheard   \* history: hosts whose create failed before the provider was done

vars == <<now, row, ask, prov, call, vm, secret, device, task, cand, promise, loser, unheard>>

Never     == -1     \* expires_at NULL: a permanent host
Default   == -2     \* the caller named no expires_at
NoPromise == -3
Withdrawn == -4     \* a release has overwritten the lease end that was returned

Preparing == {"provisioning", "creating_network", "creating_vm"}
VMBacked  == {"bootstrapping", "active", "error"}
Renewable == {"bootstrapping", "active"}
Status    == {"unborn", "gone"} \cup Preparing \cup VMBacked

Lease == Nat \cup {Never}
Row == [status: Status, created: Nat, expires: Lease, device: BOOLEAN,
        pool: BOOLEAN, claimed: BOOLEAN]

Kind == {"api", "janitor", "shed"}
TaskPc == {"idle", "picked", "release", "unlink", "secrets", "destroy", "drop"}
Running == {"start", "network", "secured", "creating", "wait", "scan", "stamp", "failed"}
ProvPc == {"none", "done", "dead"} \cup Running

Idle == [pc |-> "idle", host |-> NoHost, kind |-> "api", holds |-> FALSE]
NoCandidate == [host |-> NoHost, ask |-> Default]

Exists(h) == row[h].status \notin {"unborn", "gone"}
Gone(h) == row[h].status = "gone"
Lapsed(h) == row[h].expires # Never /\ row[h].expires < now
Unexpired(h) == row[h].expires = Never \/ row[h].expires > now

\* VMProvider.lease_end: a provider with a lifetime stops the VM at the latest then.
LeaseEnd(created, e) ==
    IF MaxLifetime = 0 THEN e
    ELSE IF e = Never \/ e > created + MaxLifetime THEN created + MaxLifetime
    ELSE e

\* Mutation: the default lease is not filled in.
ResolveUnset(a) == a

\* The lease a caller gets for what it asked for.
Resolve(a) == IF a = Default THEN now + DefaultLease ELSE a

Asks == {Default, Never} \cup {now + d : d \in Terms}

\* Mutation: a short lease replaces the safety TTL.
InitialExpiryAsAsked(created, a) ==
    IF a \notin {Default, Never} THEN a ELSE created + Grace

\* The safety TTL a row is born with.
InitialExpiry(created, a) ==
    IF a \notin {Default, Never} /\ a > created + Grace THEN a ELSE created + Grace

\* No transaction holds the row's FOR UPDATE lock.
Unlocked(h) == \A t \in Task : ~(task[t].holds /\ task[t].host = h)

\* A coroutine runs, or its create call does and no time-out has given it up.
InFlight(h) == prov[h] \in Running \/ (call[h] = "sent" /\ h \notin unheard)

\* A caller was told a lease end, and no release has overwritten it since.
Promised(h) == promise[h] \in Lease

TypeOK ==
    /\ now \in Nat
    /\ row \in [Host -> Row]
    /\ ask \in [Host -> Lease \cup {Default}]
    /\ prov \in [Host -> ProvPc]
    /\ call \in [Host -> {"none", "sent", "ok", "failed"}]
    /\ vm \subseteq Host
    /\ secret \subseteq Host
    /\ device \in [Host -> {"none", "up", "known", "released"}]
    /\ task \in [Task -> [pc: TaskPc, host: Host \cup {NoHost}, kind: Kind, holds: BOOLEAN]]
    /\ cand \in [Request -> [host: Host \cup {NoHost}, ask: Lease \cup {Default}]]
    /\ promise \in [Host -> Lease \cup {NoPromise, Withdrawn}]
    /\ loser \subseteq Host
    /\ unheard \subseteq Host

Unborn == [status |-> "unborn", created |-> 0, expires |-> Never, device |-> FALSE,
           pool |-> FALSE, claimed |-> FALSE]

Init ==
    /\ now = 0
    /\ row = [h \in Host |-> Unborn]
    /\ ask = [h \in Host |-> Default]
    /\ prov = [h \in Host |-> "none"]
    /\ call = [h \in Host |-> "none"]
    /\ vm = {}
    /\ secret = {}
    /\ device = [h \in Host |-> "none"]
    /\ task = [t \in Task |-> Idle]
    /\ cand = [q \in Request |-> NoCandidate]
    /\ promise = [h \in Host |-> NoPromise]
    /\ loser = {}
    /\ unheard = {}

-----------------------------------------------------------------------------
(* Creating and provisioning a host.                                       *)

\* create_host up to the insert's commit.  The maintainer names an expiry.
Create(h, a, pool) ==
    /\ row[h].status = "unborn"
    /\ pool => a \notin {Default, Never}
    /\ row' = [row EXCEPT ![h] = [status |-> "provisioning", created |-> now,
                                  expires |-> InitialExpiry(now, a), device |-> FALSE,
                                  pool |-> pool, claimed |-> FALSE]]
    /\ ask' = [ask EXCEPT ![h] = a]
    /\ prov' = [prov EXCEPT ![h] = "start"]
    /\ UNCHANGED <<now, call, vm, secret, device, task, cand, promise, loser, unheard>>

\* Mutation: the coroutine waits for a row that is gone.
CommitOnlyToRow(h, from, updated, to) ==
    /\ prov[h] = from
    /\ Unlocked(h) /\ Exists(h)
    /\ row' = [row EXCEPT ![h] = updated]
    /\ prov' = [prov EXCEPT ![h] = to]

\* A commit of the coroutine's own session: the UPDATE waits for the row lock,
\* and StaleDataError ends the coroutine when the row is gone.
Commit(h, from, updated, to) ==
    /\ prov[h] = from
    /\ Unlocked(h)
    /\ row' = IF Exists(h) THEN [row EXCEPT ![h] = updated] ELSE row
    /\ prov' = [prov EXCEPT ![h] = IF Exists(h) THEN to ELSE "dead"]

StartNetwork(h) ==
    /\ Commit(h, "start", [row[h] EXCEPT !.status = "creating_network"], "network")
    /\ UNCHANGED <<now, ask, call, vm, secret, device, task, cand, promise, loser, unheard>>

\* put_secrets: the proxy or the provider now holds the host's secrets.
PutSecrets(h) ==
    /\ prov[h] = "network"
    /\ secret' = secret \cup {h}
    /\ prov' = [prov EXCEPT ![h] = "secured"]
    /\ UNCHANGED <<now, row, ask, call, vm, device, task, cand, promise, loser, unheard>>

\* The create call leaves as soon as CREATING_VM is committed.
RequestVM(h) ==
    /\ Commit(h, "secured", [row[h] EXCEPT !.status = "creating_vm"], "creating")
    /\ call' = IF Exists(h) THEN [call EXCEPT ![h] = "sent"] ELSE call
    /\ UNCHANGED <<now, ask, vm, secret, device, task, cand, promise, loser, unheard>>

\* The provider works on its own: it may be done long after the coroutine died or
\* gave up, and a create that fails may leave a half-made VM behind.
ProviderAnswers(h) ==
    /\ call[h] = "sent"
    /\ \/ /\ call' = [call EXCEPT ![h] = "ok"]
          /\ vm' = vm \cup {h}
       \/ /\ call' = [call EXCEPT ![h] = "failed"]
          /\ vm' \in {vm, vm \cup {h}}
    /\ UNCHANGED <<now, row, ask, prov, secret, device, task, cand, promise, loser, unheard>>

RecordVM(h) ==
    /\ call[h] = "ok"
    /\ Commit(h, "creating", [row[h] EXCEPT !.status = "bootstrapping"],
              IF Tailnet THEN "wait" ELSE "scan")
    /\ UNCHANGED <<now, ask, call, vm, secret, device, task, cand, promise, loser, unheard>>

\* The VM's own tailscaled registers; no step of drukbox waits on it but RecordDevice.
DeviceJoins(h) ==
    /\ Tailnet /\ h \in vm /\ device[h] = "none"
    /\ device' = [device EXCEPT ![h] = "up"]
    /\ UNCHANGED <<now, row, ask, prov, call, vm, secret, task, cand, promise, loser, unheard>>

RecordDevice(h) ==
    /\ device[h] = "up"
    /\ Commit(h, "wait", [row[h] EXCEPT !.device = TRUE], "scan")
    /\ device' = IF Exists(h) THEN [device EXCEPT ![h] = "known"] ELSE device
    /\ UNCHANGED <<now, ask, call, vm, secret, task, cand, promise, loser, unheard>>

Activate(h) ==
    /\ Commit(h, "scan", [row[h] EXCEPT !.status = "active"], "stamp")
    /\ UNCHANGED <<now, ask, call, vm, secret, device, task, cand, promise, loser, unheard>>

\* Mutation: the stamp overwrites whatever the row says.
StampMatchesAlways(h) == TRUE

\* The stamp matches only the value the row was born with, so that a renewal
\* which landed while the host was bootstrapping stands.
StampMatches(h) == row[h].expires = InitialExpiry(row[h].created, ask[h])

\* Mutation: the stamp forgets the provider's lifetime.
StampedUnclamped(h) == IF StampMatches(h) THEN Resolve(ask[h]) ELSE row[h].expires

Stamped(h) == IF StampMatches(h) THEN LeaseEnd(row[h].created, Resolve(ask[h]))
              ELSE row[h].expires

\* The request that got host h returns its lease end, or finds that another
\* request recorded the same idempotency key first.
Answer(h, e) ==
    \/ promise' = [promise EXCEPT ![h] = e] /\ UNCHANGED loser
    \/ loser' = loser \cup {h} /\ UNCHANGED promise

\* The lease is stamped and the refreshed row answers the caller.  The
\* maintainer that warms a pool member promises nothing to anyone.
Stamp(h) ==
    /\ Commit(h, "stamp", [row[h] EXCEPT !.expires = Stamped(h)], "done")
    /\ IF Exists(h) /\ ~row[h].pool THEN Answer(h, Stamped(h)) ELSE UNCHANGED <<promise, loser>>
    /\ UNCHANGED <<now, ask, call, vm, secret, device, task, cand, unheard>>

\* A step of provision reports failure: issuing join credentials, storing the
\* secrets (some may be stored), the create call, device discovery, the keyscan.
\* The create call may time out at the client while the provider goes on with it.
StepFails(h) ==
    /\ \/ /\ prov[h] = "network"
          /\ secret' \in {secret, secret \cup {h}}
          /\ UNCHANGED unheard
       \/ /\ prov[h] = "creating"
          /\ unheard' = IF call[h] = "sent" THEN unheard \cup {h} ELSE unheard
          /\ UNCHANGED secret
       \/ /\ prov[h] \in {"wait", "scan"}
          /\ UNCHANGED <<secret, unheard>>
    /\ prov' = [prov EXCEPT ![h] = "failed"]
    /\ UNCHANGED <<now, row, ask, call, vm, device, task, cand, promise, loser>>

\* mark_failed: the host expires at once, whatever its lease was.
MarkFailed(h) ==
    /\ Commit(h, "failed", [row[h] EXCEPT !.status = "error", !.expires = now], "done")
    /\ UNCHANGED <<now, ask, call, vm, secret, device, task, cand, promise, loser, unheard>>

\* The client disconnects or the process stops; a create call goes on without it.
Die(h) ==
    /\ prov[h] \in Running
    /\ prov' = [prov EXCEPT ![h] = "dead"]
    /\ UNCHANGED <<now, row, ask, call, vm, secret, device, task, cand, promise, loser, unheard>>

-----------------------------------------------------------------------------
(* Renewing and claiming.                                                  *)

\* Timestamps are microseconds: a new lease end never equals the in-flight one.
NotTheInitial(h, e) ==
    prov[h] \in Running => e # InitialExpiry(row[h].created, ask[h])

\* renew_host: SELECT FOR UPDATE, the guards and the commit are one transaction.
Renew(h, a) ==
    LET e == LeaseEnd(row[h].created, Resolve(a)) IN
    /\ a # Never
    /\ Unlocked(h)
    /\ row[h].pool => row[h].claimed
    /\ row[h].status \in Renewable
    /\ NotTheInitial(h, e)
    /\ row' = [row EXCEPT ![h].expires = e]
    /\ promise' = [promise EXCEPT ![h] = e]
    /\ UNCHANGED <<now, ask, prov, call, vm, secret, device, task, cand, loser, unheard>>

\* A warm host that the provider stops before the requested end is no match.
Outlasts(h, a) ==
    (MaxLifetime # 0 /\ a \notin {Default, Never}) => row[h].created + MaxLifetime >= a

\* The candidate SELECT of the warm claim takes no lock.
SelectCandidate(q, h, a) ==
    /\ cand[q].host = NoHost
    /\ row[h].pool /\ ~row[h].claimed
    /\ row[h].status = "active"
    /\ Unexpired(h)
    /\ Outlasts(h, a)
    /\ cand' = [cand EXCEPT ![q] = [host |-> h, ask |-> a]]
    /\ UNCHANGED <<now, row, ask, prov, call, vm, secret, device, task, promise, loser, unheard>>

\* The claim's UPDATE waits for the row lock and re-checks claimed_at alone.
Claim(q, h) ==
    LET e == LeaseEnd(row[h].created, Resolve(cand[q].ask)) IN
    /\ cand[q].host = h
    /\ Unlocked(h)
    /\ Exists(h) /\ ~row[h].claimed
    /\ NotTheInitial(h, e)
    /\ row' = [row EXCEPT ![h].claimed = TRUE, ![h].expires = e]
    /\ Answer(h, e)
    /\ cand' = [cand EXCEPT ![q] = NoCandidate]
    /\ UNCHANGED <<now, ask, prov, call, vm, secret, device, task, unheard>>

\* The UPDATE matched no row, or the request died: no host is claimed.
ClaimFails(q, h) ==
    /\ cand[q].host = h
    /\ cand' = [cand EXCEPT ![q] = NoCandidate]
    /\ UNCHANGED <<now, row, ask, prov, call, vm, secret, device, task, promise, loser, unheard>>

\* A claimed pool member goes back to the pool, a fresh host expires at once.
Released(h) ==
    IF row[h].claimed
    THEN [row[h] EXCEPT !.claimed = FALSE, !.expires = LeaseEnd(row[h].created, now + PoolAge)]
    ELSE [row[h] EXCEPT !.expires = now]

\* _release_idempotency_loser reads the row without a lock and writes it whatever
\* it says by then.  The read can be part of the write: nobody else takes a claim off.
Release(h) ==
    /\ h \in loser
    /\ Unlocked(h)
    /\ row' = IF Exists(h) THEN [row EXCEPT ![h] = Released(h)] ELSE row
    /\ promise' = IF Exists(h) /\ Promised(h) THEN [promise EXCEPT ![h] = Withdrawn] ELSE promise
    /\ loser' = loser \ {h}
    /\ UNCHANGED <<now, ask, prov, call, vm, secret, device, task, cand, unheard>>

\* The request dies before it could release the host.
LoserDies(h) ==
    /\ h \in loser
    /\ loser' = loser \ {h}
    /\ UNCHANGED <<now, row, ask, prov, call, vm, secret, device, task, cand, promise, unheard>>

-----------------------------------------------------------------------------
(* delete_host and its three callers.                                      *)

\* Mutation: the janitor leaves hosts that never got a VM alone.
SelectedVMBacked(k, h) ==
    \/ k = "api" /\ Exists(h)
    \/ k = "janitor" /\ row[h].status \in VMBacked /\ Lapsed(h)

\* The janitor lists lapsed rows, the maintainer unclaimed pool members; a
\* caller may name any host.  Neither list holds a lock.
Selected(k, h) ==
    \/ k = "api" /\ Exists(h)
    \/ k = "janitor" /\ Exists(h) /\ Lapsed(h)
    \/ /\ k = "shed" /\ Exists(h)
       /\ row[h].pool /\ ~row[h].claimed
       /\ row[h].status # "error" /\ Unexpired(h)

Select(t, k, h) ==
    /\ task[t].pc = "idle"
    /\ Selected(k, h)
    /\ task' = [task EXCEPT ![t] = [pc |-> "picked", host |-> h, kind |-> k, holds |-> FALSE]]
    /\ UNCHANGED <<now, row, ask, prov, call, vm, secret, device, cand, promise, loser, unheard>>

\* Mutations: one re-check is missing.
SparedUnlessRenewed(k, h) ==
    \/ ~Exists(h)
    \/ k = "shed" /\ row[h].claimed
    \/ k # "janitor" /\ row[h].status \in Preparing
SparedUnlessClaimed(k, h) ==
    \/ ~Exists(h)
    \/ k = "janitor" /\ Unexpired(h)
    \/ k # "janitor" /\ row[h].status \in Preparing
SparedUnlessPreparing(k, h) ==
    \/ ~Exists(h)
    \/ k = "shed" /\ row[h].claimed
    \/ k = "janitor" /\ Unexpired(h)

\* The re-checks under the row lock: claimed since the maintainer picked it,
\* renewed since the janitor picked it, or still provisioning.
Spared(k, h) ==
    \/ ~Exists(h)
    \/ k = "shed" /\ row[h].claimed
    \/ k = "janitor" /\ Unexpired(h)
    \/ k # "janitor" /\ row[h].status \in Preparing

\* Mutation: only a host that became active is thought to have a device.
FirstTeardownOfActive(h) ==
    IF Tailnet /\ row[h].device /\ row[h].status = "active" THEN "release" ELSE "secrets"

\* Every status that passes the guards is torn down at the provider.
FirstTeardown(h) == IF Tailnet /\ row[h].device THEN "release" ELSE "secrets"

At(t, h, pc) == task[t].pc = pc /\ task[t].host = h

Advance(t, pc) == task' = [task EXCEPT ![t].pc = pc]

Begin(t, h) ==
    /\ At(t, h, "picked")
    /\ Unlocked(h)
    /\ task' = [task EXCEPT ![t] =
                  IF Spared(@.kind, h) THEN Idle
                  ELSE [@ EXCEPT !.pc = FirstTeardown(h), !.holds = TRUE]]
    /\ UNCHANGED <<now, row, ask, prov, call, vm, secret, device, cand, promise, loser, unheard>>

\* A device that is already gone counts as released.
ReleaseDevice(t, h) ==
    /\ At(t, h, "release")
    /\ device' = [device EXCEPT ![h] = "released"]
    /\ Advance(t, "unlink")
    /\ UNCHANGED <<now, row, ask, prov, call, vm, secret, cand, promise, loser, unheard>>

\* The cleared device id is committed, and the commit ends the transaction:
\* the row lock goes with it, and the guards are not checked again.
CommitUnlink(t, h) ==
    /\ At(t, h, "unlink")
    /\ row' = [row EXCEPT ![h].device = FALSE]
    /\ task' = [task EXCEPT ![t].pc = "secrets", ![t].holds = FALSE]
    /\ UNCHANGED <<now, ask, prov, call, vm, secret, device, cand, promise, loser, unheard>>

DeleteSecrets(t, h) ==
    /\ At(t, h, "secrets")
    /\ secret' = secret \ {h}
    /\ Advance(t, "destroy")
    /\ UNCHANGED <<now, row, ask, prov, call, vm, device, cand, promise, loser, unheard>>

\* A VM the provider does not know counts as deleted.
DestroyVM(t, h) ==
    /\ At(t, h, "destroy")
    /\ vm' = vm \ {h}
    /\ Advance(t, "drop")
    /\ UNCHANGED <<now, row, ask, prov, call, secret, device, cand, promise, loser, unheard>>

\* DELETE of a row another task has deleted already matches nothing and passes.
DropRow(t, h) ==
    /\ At(t, h, "drop")
    /\ task[t].holds \/ Unlocked(h)
    /\ row' = [row EXCEPT ![h].status = "gone"]
    /\ task' = [task EXCEPT ![t] = Idle]
    /\ UNCHANGED <<now, ask, prov, call, vm, secret, device, cand, promise, loser, unheard>>

\* A failed call (before or after its effect), a crash or a cancelled request:
\* the transaction rolls back and the row stays for a retry.
Abort(t) ==
    /\ task[t].pc # "idle"
    /\ task' = [task EXCEPT ![t] = Idle]
    /\ UNCHANGED <<now, row, ask, prov, call, vm, secret, device, cand, promise, loser, unheard>>

\* ProvisionBound is the operator's obligation: a provision, and the create call
\* it made and still waits for or died with, end within it.
Tick ==
    /\ now < MaxTime
    /\ \A h \in Host : InFlight(h) => now < row[h].created + ProvisionBound
    /\ now' = now + 1
    /\ UNCHANGED <<row, ask, prov, call, vm, secret, device, task, cand, promise, loser, unheard>>

-----------------------------------------------------------------------------
Provision(h) ==
    \/ StartNetwork(h) \/ PutSecrets(h) \/ RequestVM(h) \/ RecordVM(h)
    \/ RecordDevice(h) \/ Activate(h) \/ Stamp(h) \/ StepFails(h) \/ MarkFailed(h)

Teardown(t, h) ==
    \/ Begin(t, h) \/ ReleaseDevice(t, h) \/ CommitUnlink(t, h)
    \/ DeleteSecrets(t, h) \/ DestroyVM(t, h) \/ DropRow(t, h)

HostStep(h) ==
    \/ \E a \in Asks, pool \in BOOLEAN : Create(h, a, pool)
    \/ Provision(h)
    \/ ProviderAnswers(h) \/ DeviceJoins(h) \/ Die(h)
    \/ \E a \in Asks : Renew(h, a)
    \/ Release(h) \/ LoserDies(h)

ClaimStep(q, h) ==
    \/ \E a \in Asks : SelectCandidate(q, h, a)
    \/ Claim(q, h) \/ ClaimFails(q, h)

TaskStep(t) ==
    \/ \E h \in Host : (\E k \in Kind : Select(t, k, h)) \/ Teardown(t, h)
    \/ Abort(t)

Next ==
    \/ \E h \in Host : HostStep(h)
    \/ \E q \in Request, h \in Host : ClaimStep(q, h)
    \/ \E t \in Task : TaskStep(t)
    \/ Tick

Spec == Init /\ [][Next]_vars

(* The janitor runs every minute and its deletes do not fail for ever; every *)
(* provisioning step ends (each wait in provision has a timeout), and so do   *)
(* a provider's create call and a delete that has started.  PostgreSQL hands   *)
(* a row lock to its waiters in order, so a commit is not overtaken for ever. *)
(* Nothing obliges a caller, the maintainer or a crash to act.                *)
JanitorAt(t, pc) == task[t].kind = "janitor" /\ task[t].pc = pc

Fairness ==
    /\ WF_vars(Tick)
    /\ \A h \in Host : SF_vars(Provision(h)) /\ WF_vars(ProviderAnswers(h))
    /\ \A t \in Task :
        /\ WF_vars(Abort(t) \/ \E h \in Host : Teardown(t, h))
        /\ \A h \in Host :
            /\ SF_vars(Select(t, "janitor", h))
            /\ \A pc \in TaskPc \ {"idle"} : SF_vars(JanitorAt(t, pc) /\ Teardown(t, h))

FairSpec == Spec /\ Fairness

-----------------------------------------------------------------------------
(* Safety.                                                                 *)

\* What the database row was the only trace of is gone before the row: no VM
\* and no stored secret survives a deleted host, not even one whose create call
\* was still in flight when its coroutine died (delete_host's order of steps,
\* the safety TTL of create_host, the janitor's re-check).  The exception is a
\* create that the provider finishes after it was reported failed: mark_failed
\* expires that row at once, and its VM may come up when the row is gone.
NothingOutlivesRow ==
    \A h \in Host : Gone(h) => h \notin secret /\ (h \in vm => h \in unheard)

\* A device id that was committed to a row is released at Tailscale before the
\* row goes, however many deletes race and wherever they abort.
KnownDeviceReleased == \A h \in Host : Gone(h) => device[h] # "known"

\* A lease end that renew_host, a warm claim or a create returned to a caller is
\* the one the row keeps, unless provision marks the host failed or the request
\* that made or claimed the host lost its idempotency key and releases it: the TTL
\* stamp that ends create_host never overwrites a renewal, nor does anyone else.
PromiseKept ==
    \A h \in Host : row[h].status \in Renewable /\ Promised(h) => row[h].expires = promise[h]

\* Once create_host has stamped the lease no path lets a usable host's lease that
\* still runs end after the moment its provider stops the VM (every write goes
\* through lease_end, but for the release that ends the lease at once).
LeaseWithinLifetime ==
    \A h \in Host :
        /\ MaxLifetime # 0 /\ prov[h] = "done" /\ row[h].status \in Renewable
        => row[h].expires \in (0..(row[h].created + MaxLifetime)) \cup (0..now)

\* The host's lease, as last returned to a caller, runs.
Held(h) ==
    /\ row[h].status \in Renewable
    /\ Promised(h)
    /\ promise[h] = Never \/ promise[h] > now

RemovedBy(t, h) ==
    /\ task[t].host = h /\ task'[t] # task[t]
    /\ \/ h \in vm /\ h \notin vm'
       \/ Exists(h) /\ row'[h].status = "gone"

\* Neither the janitor nor the maintainer destroys the VM or the row of a host
\* whose lease was promised to a caller and still runs, unless the release of a
\* request that lost its idempotency key has overwritten that lease.
LeaseHonoured ==
    [][\A t \in Task, h \in Host :
        RemovedBy(t, h) /\ task[t].kind # "api" => ~Held(h)]_vars

\* Shedding excess pool members never removes a host that a caller has claimed.
ShedSparesClaimed ==
    [][\A t \in Task, h \in Host :
        RemovedBy(t, h) /\ task[t].kind = "shed" => ~row[h].claimed]_vars

(* Liveness.                                                               *)

\* A lapsed row does not stay: the janitor removes it, or someone renews or
\* claims it, however often a teardown fails half way.
LapsedIsReaped == \A h \in Host : (Exists(h) /\ Lapsed(h)) ~> ~(Exists(h) /\ Lapsed(h))

\* Every create request ends: the coroutine never waits for ever on a row lock
\* or on a row that someone deleted.
CreateEnds == \A h \in Host : prov[h] \in Running ~> prov[h] \notin Running

=============================================================================
