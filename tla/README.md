# A TLA+ model of drukbox

Drukbox hands out sandbox hosts (VMs or containers of a dozen providers) over an
HTTP API. This directory holds TLA+ modules translated from its source, the TLC
configurations that check them, and proofs for TLAPS. Paths are relative to the
repository; the application is under `src/`.

Contents: [inventory](#inventory), [modules](#modules), [runs](#runs-and-bounds),
[fairness](#fairness), [proofs](#proofs), [disagreements](#where-code-and-documents-disagree),
[not modelled](#not-modelled), [plan](#plan).

## Inventory

| Component | State | Operations | Talks to |
|---|---|---|---|
| Host service (`src/hosts/service.py`, `api.py`, `models.py`) | `hosts`, `idempotency_keys` | get-or-create, create, provision, renew, delete, claim | database, provider, tailnet, secrets |
| Janitor (`src/hosts/janitor.py`, `src/janitor/__main__.py`) | none | reap lapsed hosts; also runs the template janitor and the pool | `delete_host` |
| Pool maintainer (`src/hosts/pool.py`) | locals of a tick | count, create, shed | `create_host`, `delete_host` |
| Templates (`src/templates/`) | `templates`, images at the provider | get-or-create, build, delete, reap | provider; leased by `create_host` |
| Secrets exchange (`src/secrets_exchange/`) | `Secrets._refreshable` in memory | authorize, push tick, ordered refresh | issuers, providers, `hosts` |
| Secrets catalogue (`src/host_secrets/`) | none | validation, placeholders | - |
| Secrets proxy (`deploy/proxy/swap.py`) | list of intercepted names, connections | intercept, pin, swap placeholders | secrets exchange |
| Tailnet (`src/networking/`) | token, waiters, poll task | join credentials, wait for a device, release | Tailscale API |
| SSH gateway (`src/gateway/`) | connections, one SFTP process each | bridge, SFTP sessions, idle close | provider processes |
| Providers (`src/providers/`) | caches (security group, base images) | create, delete, templates, processes, proxies | vendor APIs |
| Cloudflare worker (`deploy/cloudflare/worker.js`) | status, alarm and container of a Durable Object | PUT, DELETE, alarm | the Cloudflare provider |
| HTTP proxies (`src/http_proxies/`) | kept by the provider | list, add, remove | provider |
| Service accounts, auth, diagnostics, migrations, settings | small | CRUD, checks | database |

How they interact: requests, janitor and maintainer are separate processes (or
coroutines of one) that share nothing but the database; the database gives row locks
(`FOR UPDATE`), advisory locks, unique indexes and guarded `UPDATE`s, and the code
holds them for as long as a transaction, never across provisioning. Calls to a
provider or to Tailscale take seconds to minutes and stand between transactions. The
secrets exchange, the device waiter and the SFTP backend are coroutines over an
object in memory.

What makes each correct:

- *Host lifecycle.* A lease a caller was told of is kept, unless its request gives the host
  back; nothing the row is the only trace of (VM, secrets, device) outlives it, but for a VM
  that comes after its create timed out; every lapsed row goes in the end.
- *Admission.* Limits hold under any race; one host per idempotency key; one caller
  per host; no lock is held while a host is provisioned.
- *Pool.* Overlapping ticks stay within a bound, no provider starves, excess goes.
- *Templates.* What is offered to hosts has its image, what is used is not reaped,
  no build stays unfinished.
- *Secrets exchange.* A value that the issuer ended is neither served nor left at a
  provider, a provider is never long without a valid one, and none outlives its host.
- *Tailnet.* No waiter without a poller; no provision failed for a token that ran out on
  the way; a release that counts as done has left no device.
- *SSH gateway.* One SFTP process for a connection, closed when idle and never under its
  user; one tunnel for all channels; a session's process reaped however the session ends.
- *Secrets proxy.* A request goes out with every placeholder swapped or not at all, to an
  address that was checked; what is intercepted follows a list that is not too old.
- *Providers.* A delete that is reported done has left no server under the VM's name, also
  after a create that failed half way or was cut off; a failed create can be found.

`PROJECT.json` lists every hazard at its line, with the properties that would notice.

## Modules

Each database transaction is one action, each call to a provider or to Tailscale
another: an action ends where the code commits or awaits something outside, so
everything another actor can do in between is a step of its own. Definitions keep the
source's names where they can. A definition marked "Mutation" is a plausible slip,
kept to show that a property would notice it; no specification uses it.

**`HostLifecycle`** - one host from `create_host` to `delete_host`, by row, VM, stored
secrets, tailnet device and clock. `prov[h]` is the provisioning coroutine
(`Create`, `StartNetwork`, `PutSecrets`, `RequestVM`, `RecordVM`, `RecordDevice`,
`Activate`, `Stamp`; `StepFails` and `MarkFailed` for every `except`; `Die` for a
killed process or a cancelled request). `call[h]` is the provider's create call,
which outlives the coroutine that made it, or its client's time-out (`unheard`: the create is
reported failed, `MarkFailed` expires the row at once, and the VM may still come). `task[t]` is
one `delete_host`, by a caller, the janitor or the maintainer: `Select` without a lock, `Begin`
under it with the `expired_only` and `pool_shed` re-checks, then `ReleaseDevice`, `CommitUnlink`
(the commit that gives up the lock), `DeleteSecrets`, `DestroyVM`, `DropRow`, and
`Abort` at any of them. `SelectCandidate` and `Claim` are `_try_claim_pool_host`,
`Renew` is `renew_host`. A host that was made or claimed is answered or, when another request
has recorded the idempotency key first, in `loser` until `Release`
(`_release_idempotency_loser`, which locks and checks nothing) or until the request dies.
`promise[h]` is history: the lease end last returned, or `Withdrawn` after a release.

**`SandboxPromise`, `HostRefinement`** - what the API promises, with nothing of rows,
locks or sessions: a VM is brought up only for a host that was asked for and is not
over, it is gone before the host is, and while a lease runs only a caller ends the
host, or the request that made it takes it back (`Lapse`). A creation given up before the
provider answered is `adrift` (`Abandon`) and may bring its VM up at any time (`Stray`).
`HostRefinement` gives the mapping; `ImplementsPromise` is the abstract
specification as a property of the detailed one.

**`HostAdmission`** - `get_or_create_host`, one step per statement another request
can overtake: the key's look-up and collection, the account count under its advisory
lock, the warm claim's SELECT and UPDATE, the provider count and the INSERT, the
record of the key, and the release of the loser's host. Of time it keeps only whether
a host or key has expired. It is the one module where accounts, keys and limits
appear; `HostLifecycle` has the times.

**`PoolPlan`** - what the round robin of a tick comes to, with no loop: the hosts that
providers lack, ordered by pass and then by the shuffle (a ranking), cut at the budget.
**`PoolBatch`** - the loop (`pool.py:93-111`) that computes it. **`HostPool`** - overlapping
ticks that take it as their plan: `Count` and `List` are the tick's two reads, `Insert`,
`Made` and `MakeFails` a create, `Shed` one delete, `Die` a killed process. `Leave` is a claim
or a delete by others, also of a host that a tick is making; `Claim` is the claim of a request
that loses its idempotency key and `Return` its release, which makes the host a member again
(`returned`). `older` is the order of a provider's rows by `created_at`; a tick's list of excess
is the set of hosts on it, shed in that order.

**`Templates`** - one record per key, the images at the provider, builds, deletes and
leases. `Post`/`Resolve` are the INSERT and what its loser does, `StartBuild`/`Built`/
`EndBuild` the background task, which reads before and writes after the build and
writes only the columns it changed; `Abandon` is the janitor's guarded UPDATE;
`Select`/`Lock`/`RemoveImage`/`Drop` a delete; `Find`/`Lease` the two ends of a host
create's transaction. Ages are two flags, "past the limit".

**`SecretsExchange`** - one refreshable secret of one host. `rec` are the
`RefreshableSecret` objects, of which `slot` is the one in `Secrets._refreshable` and the
others are those that an order has replaced and a coroutine still uses; `proc` are the
coroutines. Code between two awaits is one step: `Current` and `Leave` are a request,
`Refresh` an order, `Tick` and `Push` the timer; `Fetched` and `FetchFails` go on after
the fetch with whatever the coroutine does next (`Resume`, `Deliver`). The value file is
written without an await, so it is part of that step. A host's provider either holds the
value (the timer and orders push) or asks for it (requests); both are in the initial
states, and so is whatever value a process that stopped has left at the provider, which
is what a restart is. An *epoch* is the time between two early ends of a value by the
issuer; a value has the epoch it was answered in, and is fresh, within `MARGIN` of its
expiry, or over.

**`Tailnet`** - the Tailscale client of one process: `TokenArrives`, `Refused` and the token
cache; `Ask`, `Completes` and `CallFails` are the calls of a provision and a teardown;
`WaitFor`, `Wakes`, `GivesUp` a waiter of `_DeviceWaiter`; `PollerWakes` to `PollerBreaks`
its `_poll` task. A token and a request carry the time they have left and have taken, so the
clock has no bound. The host's own part of a teardown is in `HostLifecycle`.

**`SftpBackend`, `Gateway`** - one caller's connection. `SftpBackend` has the operations that
share the lazily opened process, the idle closer and the cleanup, as coroutines. `Gateway`
adds the forwarding channels over one tunnel (`Request`, `TunnelOpensOrFails`, ...) and the
bridge of a session to a process (`_bridge` with its two pumps). The three meet only at the
end of the connection, so a behaviour is one of them (`part`). `forgot` is history: a stale
failure has unset a newer tunnel.

**`SecretsProxy`** - mitmproxy's hooks in `swap.py`: the list of intercepted names with its
time to live and overlapping calls, the checks and the pinning of a connection's address,
and the swap, which authorizes a request's placeholders one by one.

**`ProviderCalls`, `ProviderVM`** - each provider's create and delete as a sequence of calls
(`AwsCreate`, `HetznerDelete`, ...), with what it puts or drops, what it does when the thing
is not there and what it undoes when a later call fails; `ProviderVM` runs them with failing
calls whose effect took place or comes late, cancelled coroutines, VMs that end by
themselves, and two deletes. A create that failed may be deleted while a call of it that timed
out is still to take effect (`stray`); one whose coroutine ended has its safety TTL before it.
**`CloudflareWorker`** - the Durable Object. **`ManagedGroup`** -
the reconciliation of the AWS security group by creates that overlap. **`Providers`** puts
the three side by side.

**`MC*`** - instances for TLC. **`*Proofs`** - theorems; `PoolProofs` has those of the loop and
of the ticks, `SecretsProofs` those of the exchange and of the proxy.

## Runs and bounds

| Run | Checks | Instance |
|---|---|---|
| `lifecycle_plain` | type, `PromiseKept`, `LeaseWithinLifetime`, `NothingOutlivesRow`, `LeaseHonoured`, `ShedSparesClaimed`, refinement | one host, two deletes, one claim, grace 3 over a provision of 2, clock to 5, lifetime 3, no tailnet |
| `lifecycle_fair` | `KnownDeviceReleased`, `LapsedIsReaped`, `CreateEnds` | one host, one delete, tailnet |
| `lost_renewal` | violation of `LeaseHonoured` | tailnet, two deletes |
| `admission` | `AdmissionInv`, `OneCallerPerHost`, `OneHostPerKey` | two requests, one key, a top-up, one warm host, limits 1 and 2 |
| `pool_batch` | `WithinBudget`, `EvenlySpread`, `LoopIsRoundRobin` | three providers in every order, every deficit to 3, budget 5 |
| `pool` | `PoolInv`, `EveryPoolIsServed`, `ExcessIsShed` | two ticks, two providers, three members, one of which may be claimed and given back, budget 1 |
| `templates` | `TemplatesInv`, `DeletesSpare`, `BuildsEnd` | one key, two records in turn, two builds, two deletes, one create |
| `secrets` | `ExchangeInv`, `OrderIsObeyed`, `OrderReachesProvider`, `HeldIsRenewed` | one request, one order, the timer, two records, two epochs |
| `tailnet` | `TailnetInv`, `WaiterHasPoller`, `WaitsEnd` | two hosts, tokens of three ticks with a buffer of one, requests of at most one tick |
| `gateway` | `SftpInv`, `ConnectionInv`, `IdleCloses`, `BridgeEnds` | three SFTP operations and two processes; four channels and three tunnels; one session with or without a PTY |
| `secrets_proxy` | `ProxyInv`, `DecidedByRecentList` | two connections, two placeholders, three names, a list and a time-out of one tick |
| `providers` | `ProvidersInv`, `ActiveStaysUp`, `GroupServesAlike`, `FailureIsFindable`, `DeletesEnd` | every provider with two deletes; the worker; two creates on a group with any rules over three ranges, two wanted |

A name that ends in `Inv` is a conjunction of the module's type invariant and named parts,
each with a comment of its own; `DeletesSpare`, `WaitsEnd` and `DeletesEnd` are conjunctions
of the two properties they name.

Why these are enough. Host rows do not meet in `HostLifecycle` (every action names one
row), so one host with two deletes and a claim has every interleaving of a caller, the
janitor and the maintainer; the grace is longer than a provision, as `docs/deploy.md`
demands, and the clock runs far enough for a default lease to lapse and for the two
explicit terms to end before and after the grace; the maximum age of a released pool member
is one tick. `lifecycle_fair` has one delete, for liveness: that a recorded device is released
however many deletes race is the theorem `KnownDevicesAreReleased`.
Two requests and a top-up are enough
for every order in which two lock holders and an unlocked insert can meet, and for the
winner and the loser of a key. A limit of one and a warm host puts the
account at its limit with one more to claim. Two ticks overlap in every way a tick can
be overtaken; a budget of one is smaller than the two shortages. `MaxHosts`, `MaxRows`,
`MaxTime`, and the set `Host` and `MaxReturned` of `HostPool` are the only bounds that the code
lacks: they stop creation, a claim that comes back or the clock, never an action that ends
something. One host that comes back is enough for a pool that was filled up meanwhile. Two records are
the one an order replaces and its successor; a second order waits until the first record
is out of use. Two hosts let one register while the poller ends for the other. With a second
process a replacement of a dying one and its predecessor can both live; three tunnels are one
that failed, its successor, and the one opened after the successor was forgotten. A VM does not
meet another one; two deletes are a caller and the janitor. Three creates on the group were
checked once as well (3.6 million states, no error), and the theorem below has any number. Five
values are never reached with two records (at most two each and the
provider's), so `MaxValues` blocks nothing. Two epochs are before and after one early end.

Deadlock is not checked: every actor may have nothing left to do, and time is bounded.
What must not hang is stated as a liveness property or by `LocksEndWithTheCount`.

## Fairness

- `HostLifecycle!FairSpec`: coroutines go on, the janitor's scheduler starts again and
  again (`docs/deploy.md` runs it once a minute), and a teardown step that is tried
  again and again does not fail every time. The last is an assumption on providers: the
  code retries for ever and cannot do more. Nothing is assumed of callers.
- `HostPool!FairSpec`: one process runs its ticks to the end, the other may die in any;
  the shuffle puts each underfilled provider first infinitely often; only the provider
  in `Healthy` is assumed to answer a create, and only again and again. The other's may
  all fail, which is what `EveryPoolIsServed` is about. A request that loses its key gives the
  host back or dies, and only finitely many lose one: with a claimed host that comes back after
  every tick a pool would be over its target at every count.
- `Templates!FairSpec`: time passes, the janitor runs, and a delete does not stop while
  it holds a record. Nothing is assumed of builds.
- `SecretsExchange!FairSpec`: the timer goes on (its client has a time-out), values age,
  waits end, and among pushes that are tried for ever some succeed from the issuer to the
  file. The last is an assumption on the issuer and the disk; nothing is assumed of requests
  or of orders, and each push may fail.
- `Tailnet!FairSpec`: the poll task and woken coroutines go on; of the requests the poller
  makes for ever some get through and are answered (an assumption on the network; each may
  fail). Nothing is assumed of hosts.
- `Gateway!FairSpec`: coroutines go on, a lock that is asked for is had in the end (`asyncio.Lock`
  is first come, first served), the idle timer ends, the read of a caller that is gone ends, in
  order or with the connection's error, and a process without a PTY ends once its input has.
- `Providers!Spec`: a delete runs on and is tried again (the janitor), late effects come in
  the end, and a call that is made for ever succeeds at some time; the worker's PUT
  goes on, alarms ring, and the platform stops an idle container. Nothing is assumed of a
  create before its coroutine ends, nor of a client's DELETE.

## Proofs

TLC shows small instances; these theorems hold for every set of hosts, tasks, ticks, requests,
keys, records, channels, connections and creates, every lease, grace, limit and lifetime, with
no bound on the clock that matters. Each is in the `*Proofs` module of its component.

| Theorem | Says | Assumes |
|---|---|---|
| `TypeCorrect` | `Spec => []TypeOK` (`HostLifecycle`) | - |
| `NoOrphans` | `Spec => []NothingOutlivesRow` | `ProvisionBound < Grace` |
| `PromisesAreKept` | `Spec => []PromiseKept` | - |
| `LeasesEndInTime` | `Spec => []LeaseWithinLifetime` | - |
| `LeasesAreHonoured` | `Spec => LeaseHonoured` | no tailnet |
| `ClaimedAreSpared` | `Spec => ShedSparesClaimed` | no tailnet |
| `KnownDevicesAreReleased` | `Spec => []KnownDeviceReleased` | - |
| `PromiseIsImplemented` | `Spec => ImplementsPromise` (`HostRefinement`) | no tailnet, `ProvisionBound < Grace` |
| `LimitsAreKept` | `Spec => []AdmissionInv` | - |
| `HostsGoToOneCaller` | `Spec => []OneCallerPerHost` | - |
| `KeysGiveOneHost` | `Spec => []OneHostPerKey` | - |
| `BatchIsBounded` | `BatchSpec => []WithinBudget` | - |
| `BatchIsFair` | `BatchSpec => []EvenlySpread` | - |
| `LoopComputesPlan` | `BatchSpec => []LoopIsRoundRobin` | - |
| `OvershootStaysBounded` | `Spec => []PoolInv` (`HostPool`) | - |
| `ImagesAreKept` | `Spec => []TemplatesInv` | no two keys share an image name |
| `DeletesAreCareful` | `Spec => DeletesSpare` | - |
| `ExchangeIsConsistent` | `Spec => []ExchangeInv` | - |
| `OrdersAreObeyed` | `Spec => []OrderIsObeyed` | - |
| `OrdersReachProviders` | `Spec => []OrderReachesProvider` | - |
| `NothingHalfSwapped` | `ProxySpec => []ProxyInv` | - |
| `DecisionsAreRecent` | `ProxySpec => DecidedByRecentList` | - |
| `WaitersHavePollers` | `Spec => []WaiterHasPoller` | - |
| `RefusalsAreReal` | `Spec => []TailnetInv` | `TokenAssumption`: `Latency <= Buffer`, `2 * Latency < Ttl` |
| `OneSftpServer` | `Spec => []SftpInv` | - |
| `ConnectionLeavesNothing` | `Spec => []ConnectionInv` | - |
| `DeletedIsGone` | `Spec => []ProvidersInv` | - |
| `GroupIsServed` | `Spec => []GroupServesAlike` | - |
| `ActiveSandboxesStayUp` | `Spec => []ActiveStaysUp` | - |
| `FailuresAreFindable` | `Spec => FailureIsFindable` | - |

The assumptions the modules state of their constants are evaluated by every run. One of them
says more than a type: `LimitsAssumption` has `Warm <= ProviderLimit`, because the warm hosts a
behaviour starts with were let in by that same limit. A limit that an operator lowers below
the hosts there are is not modelled. `PoolAssumption` and `PlanAssumption` ask that ticks,
providers and members are finitely many, and that there is a provider and a process (without
a target `maintain_pool` returns at once, `pool.py:40`). `ProvisionBound < Grace` is what `docs/deploy.md` asks of
`provisioning_grace_seconds`. That image names are apart is a hypothesis of `ImagesAreKept`
alone: `docker/images.py:13` does give two keys one name (see below), and then the theorem's
conclusion is false for them.

### The argument, per theorem

Hardly a property of the table is inductive as it stands; each proof module names the
invariant it uses.

*Host lifecycle.*
- `NoOrphans` (`RowInv`) ties the row to what can still bring a VM up: a coroutine or a create
  call in flight keeps its row's age under the provision bound, hence its safety expiry ahead,
  hence the janitor away; a teardown past a step has nothing left of what that step removes,
  and nothing in flight that could bring it back, unless its coroutine gave it up (`unheard`).
- `PromisesAreKept` (`PromiseInv`): the row of a coroutine in flight still has the initial expiry
  or a renewal's, and a stamp matches only the first; a host that awaits its release was promised
  to nobody but by a renewal, and the release that overwrites that one withdraws it.
- `LeasesEndInTime` (`LifetimeInv`): a row whose end is not within the lifetime is one that the
  stamp is still to come to and will match: what it replaces was the safety TTL, and whatever
  else replaces that went through `lease_end` or, in a release, is the time it is.
- `LeasesAreHonoured` and `ClaimedAreSpared` (`LeaseInv`): without a tailnet, a delete holds the
  row lock from its check to the row's DELETE, so the row it checked does not change; with a
  tailnet this is false, and the run `lost_renewal` shows the trace.
- `KnownDevicesAreReleased` (`DeviceInv`): a teardown past its unlink sees a row without a device
  id, whichever of the deletes cleared it.
- `PromiseIsImplemented` needs `LeaseInv`, `RowInv` and `BootInv` at once: a create call that
  answered "ok" to a coroutine that still waits has made the VM, and no delete destroys it (so
  recording the VM is a `Deliver`); the row is there until the one delete past the guards drops
  it (so a destroyed VM or row is a host that may end, and a caller's delete is over once). One
  lemma per kind of step maps it to a step of `SandboxPromise` or to none: `HostStepMaps`,
  `ClaimStepMaps`, `TaskStepMaps`, `TickMaps`.

*Admission.*
- `LimitsAreKept` (`CountInv`): whoever is between its count and its insert holds the advisory
  lock it counted under, and the number of live hosts is below the limit; a warm claim that
  lost has dropped the account's lock (`LostClaim`), and the host it inserts is in `late`.
- `HostsGoToOneCaller` (`HandInv`): a host somebody works on, was answered with, or a key names
  is taken (claimed, gone, or never of the pool); it is the only one of its request and of no
  key until the record is written, and from then on only of those who share the key.
- `KeysGiveOneHost` (`KeyInv`): whoever got its host from the record as it is now got the host
  the record names, as long as none was swept; a record ends with its host or by collection.

*Pool.*
- `BatchIsFair` (`Level`): within a pass a provider still to be served has been given one host
  less than those before it.
- `LoopComputesPlan` (`PlanInv`): what has been planned is at every moment what comes first in
  the round robin (`ServedIsAhead`), so the next one has the next place. That a place belongs
  to one member and none is left out is the counting argument of `InOrderLists`: places grow
  along the order, so they are one to one into a set of the same size, and hence onto it.
- `OvershootStaysBounded` (`RoomInv`): of the members that never came back (`returned` are left
  out), the bound on members alone is not inductive, as a create
  adds one whatever the count is by now. Members and what ticks have still to create
  (`Pending`) are together within the bound: a create only moves one from the one to the
  other, a plan is no longer than the count allowed (`PlanIsBounded`), and a count adds what
  fits under the target with the members it saw, or nothing, while each of the other ticks has
  at most a batch (`CellsChange`). `RowsOK` (rows are ordered by age) is what makes the list
  of the excess a sequence. That the invariant holds was tried with TLC first, with a budget of
  two and four members (640,000 states).

*Templates.* `ImagesAreKept` (`ImageInv`): an available record, or one that a finished build is
about to make available, has its image, or the delete of this very record has taken it; a
delete that is past the lock still has it, and a locked record does not build.
`DeletesAreCareful` (`LeaseInv`): the janitor finds neither an unused nor an old failed record
where a create has leased one, so the check under the lock is about the state that the removal
finds.

*Secrets exchange.* The three theorems share one invariant (`IInv`), whose heart is `Since(r, f)`:
what record `r` has, and every fetch that is under way for it, is of epoch `f` or later. It holds
of the record in use for every epoch an order has asked for (`Ordered`), because an order takes a
record that nobody uses and a fetch that began earlier works for the one it replaced; and of the
record each coroutine waits for, up to the epoch it was promised (`Awaited`).
- `OrdersAreObeyed`: a request takes over `Ordered` when it starts to wait, keeps it as `Awaited`,
  and is answered with what its record has.
- `ExchangeIsConsistent` and `OrdersReachProviders` (`ProviderHas`): a write by the record in use
  makes what it calls pushed the value held, which `Ordered` makes recent enough; a write by
  another one is the exception `late`; and a write needs the directory that `delete_secrets` took.
- The model numbers values anew whenever one is dropped. That the numbering is one to one and
  without gaps is a counting argument (`NumbersGrow`, `NumbersHaveNoGaps`: an injection between
  sets of one size is onto), and `Settles` then lets every step be judged before it renumbers.

*Secrets proxy.* `NothingHalfSwapped` (`SwapInv`): what a request holds so far, and the one
credential that is asked for, are approved for its name and no two share a header.
`DecisionsAreRecent` (`ListInv`): a call's answer knows of every row that was there when the
call began, and the list of every one that was there when the call that brought it began.

*Tailnet.* `WaitersHavePollers`: a waiter registers and finds or starts the poller in one step,
and the poller ends only where it has seen that nobody is registered, or has resolved everybody.
`RefusalsAreReal`: a token in use outlasts any request (`UsedInTime`: what is left of it exceeds
its time of use by at least a request's longest time) and a request on its way ends before its
token (`CarriedInTime`).

*Gateway.*
- `OneSftpServer` (`BackendInv`): every process that is not reaped is the stored one, because
  whoever opens one holds the lock and found none stored. The count bounds the users from above
  (a release that is cancelled leaves it too high, never too low), so where it is zero nobody
  uses the process that the timer closes.
- `ConnectionLeavesNothing`: live tunnels are the stored one until a channel has unset a newer one
  (`forgot`), and a session's process lives only between the start of the bridge and its
  clean-up, unless a pump failed. Both exceptions are disagreements 4 and 5 below.

*Providers.*
- `DeletedIsGone` (`VMInv`): once a delete runs or has reported, the create is over, and what is
  on its way can put something only if that create failed, which makes it `stray`
  (`DeletesComeLast`); what a delete has passed without an
  error is gone (`PassedIsGone`). What the call programs of the providers have in common is two
  lemmas (`DeleteCalls`, `CreateCalls`), proved program by program.
- `GroupIsServed`: rules that are wanted and missing, or there and not wanted, are exactly those
  that every create between its read and its call has read; EC2 refuses a batch whole, so the
  first one that is carried out ends this for good, and nothing is cached before (`LetsIn`,
  `LetsNoOtherIn`).
- `ActiveSandboxesStayUp`: the PUT armed the alarm before the script ran, and an alarm that rings
  before the sandbox is active is set again (`PutKeepsUp`).
- `FailuresAreFindable` (`FindInv`): before the first answer nothing is there, and as long as a
  create was not cut off nothing of it is on its way (`NothingYet`). AWS's calls without a
  clean-up fail before there is a key pair or when its instance is there (`AwsInStep`), the others
  drop it; Boat's clean-up drops the sandbox by its id, which needs no name.

### Only model-checked

- Every liveness property: TLAPS has neither fairness nor ENABLED here.
  These are `LapsedIsReaped`, `CreateEnds`, `EveryPoolIsServed`, `ExcessIsShed`, `BuildsEnd`,
  `HeldIsRenewed`, `WaitsEnd`, `IdleCloses`, `BridgeEnds` and `DeletesEnd`. Every other
  property of a passing run is stated by a theorem above.
- With a tailnet, `LeaseHonoured`, `ShedSparesClaimed` and the refinement do not hold.

## Where code and documents disagree

With a run: `lost_renewal` - `delete_host` gives up its row lock when it commits the cleared
device id (`service.py:472`) and checks nothing again. A renewal in between is answered 200
and lost; so is a warm claim to the maintainer's shedding. The janitor's docstring says a
renewal after selection spares the host.

As an exception that a property names, so that the rest of it can be checked:

1. The collection of a stale idempotency record deletes by name (`service.py:341`) and may hit
   the record a retry has just written, so that one key answers with two hosts within a TTL
   (`swept` in `OneHostPerKey`).
2. A warm claim that lost its race commits (`service.py:205`) and drops the account's advisory
   lock before the insert (`late` in `AccountLimitKept`), although `docs/deploy.md:602`
   names the most live hosts an account may have.
3. An order replaces the `RefreshableSecret`, but a timer push whose fetch is under way on the
   old one (`secrets.py:131`) still writes what it brings, after the order's value and over it,
   until that nears its expiry. The order's docstring (`app.py:159`) says no request carries it
   again (`late` in `OrderReachesProvider`; `HeldIsRenewed` says that it is repaired).
4. A channel whose tunnel failed unsets the stored tunnel (`gateway/server.py:87`) although
   another channel may have opened a newer one; that one is shared and closed by nobody
   (`forgot`; `docs/deploy.md:313-314` says one tunnel, closed with the connection).
5. The bridge's clean-up awaits the pumps and forgives only their cancellation
   (`gateway/server.py:165`); a pump that has failed ends it before the process is closed
   (`PumpFailed`; `docs/deploy.md:289-290`).
6. `delete_vm` of AWS looks for the instance first (`aws/provider.py:160`); if it is gone the
   key pair stays, although the comment at 139 leaves it to the janitor
   (`ProvidersInv` asks for keys at Hetzner and Exoscale only).
7. A create that cannot tell its address opens the AWS group to the world. "The next create
   narrows the rule" (`aws/provider.py:207`) fails when another create has cached the group
   meanwhile, and with several creates that do and do not know it the group can be left with
   no rule for SSH (189). `GroupServesAlike` excludes the fallback (`fellBack`).
8. A Boat sandbox is named by a second call; a create that is cut off in between leaves one
   that no delete finds (`cut` in `FailureIsFindable`), while `delete_vm` reports that the VM is
   not there (`boat/api.py:94`). `NothingOutlivesDelete` is about what has the VM's name.
9. A create whose client times out raises a `ProviderError`; `mark_failed` expires the row at
   once (`service.py:555-557`, 642), the grace notwithstanding, the janitor takes a VM that is
   not there yet for gone (478) and drops the row, and the provider may make the VM after that
   (`unheard` in `NothingOutlivesRow`, `stray` in `ProvidersInv`). The comment at
   `service.py:640` makes the janitor the owner of every half-created VM.
10. A request that lost its idempotency key releases its host from a read without a lock
   (`service.py:363-388`) and overwrites whatever lease end the row has (372, 382). A renewal
   that was answered 200 meanwhile is lost, on the tailnet and off it, and the janitor or the
   maintainer then removes the host (`Withdrawn` in `PromiseKept` and `LeaseHonoured`; a
   renewal after the release holds again).
11. The same release returns a claimed host to the pool after a tick has replaced it
   (`service.py:369-376`), so that a single tick can leave more than the target
   (`returned` in `OvershootIsBounded`; the next tick sheds it, `ExcessIsShed`).
12. A caller whose connection breaks off, without a disconnect, makes `stdin.read` raise
   (`gateway/server.py:188`), which `_pump_channel_to_process` does not handle: `send_eof` is not
   called, and a process that neither writes nor ends keeps its session (the pump that failed in
   `BridgeEnds`; `docs/deploy.md:289-290`).

Smaller ones without a run: the name of a template's image leaves out the provider and
the requested base image (`docker/images.py:14-29`) that the record's key has, so two
available templates may share one image and deleting the one takes it from the other
(`ImageOf` need not be injective); three overlapping ticks exceed the target by two batches,
not by the one that `pool.py:33-35` names (`OvershootIsBounded` states the bound that
holds); `delete_ssh_key` of Hetzner and Exoscale may raise inside the `except` clause of a
create, and what escapes is no `ProviderError` (`hetzner/provider.py:85`); an SFTP process that
has died stays stored until the idle close (`gateway/backend.py:116`), and a tunnel that has
ended after it opened for the rest of the connection: only a failure to open unsets it
(`server.py:83-87`), and every later channel is refused; and a renewal of an expired host that the
janitor has not reached may bring a
provider past its limit (the exception in `ProviderLimitKept`).

## Not modelled

- HTTP proxies (`src/http_proxies/`): one row lock around one provider call; the provider keeps
  the state, and there is no step of another actor in between to get wrong.
- The secrets catalogue, authentication, service accounts, diagnostics, migrations, settings,
  request schemas: validation, look-up and wiring without a state of their own, or one row per
  statement.
- Vendor requests beyond their order and outcome (bodies, signatures, pagination), image pulls
  and saves, `refresh_base_image`; the gateway's `validate_public_key` and listener.
- The Durable Object's input gate is taken as the platform documents it: storage operations let
  no other event in. A PTY session whose caller has gone has no end of input to end it;
  `BridgeEnds` is about the others.
- What a release reads and when: it takes no lock, but nobody else takes a claim off, so the
  read is part of the write.
- Database failures other than a failing commit or a dying process; the isolation level
  is PostgreSQL's read committed, and SQLite (single process) is not modelled.
- A renewal to exactly the microsecond of the in-flight safety expiry, which the stamp
  would take for its own (`NotTheInitial` excludes it).
- A device that joins after its row is gone: its auth key is ephemeral and the tailnet
  drops it.
- The texts of errors, labels and names.

## Plan

Done, in this order: `HostLifecycle` with its promise, refinement and proofs; `HostAdmission`;
`PoolBatch` with proofs and `HostPool`; `Templates`; `SecretsExchange`; `Tailnet` with proofs;
`SftpBackend` and `Gateway`; `SecretsProxy`; the providers; then the proofs of the host limits,
the claims and the keys, of the templates, the secrets proxy, the leases' lifetime, the gateway,
the creates and deletes of every provider, the refinement, the secrets exchange, and the loop
and the overlapping ticks of the pool. Every safety property that a passing run checks is a
theorem.

What is left is named under *Only model-checked* and *Not modelled*.
