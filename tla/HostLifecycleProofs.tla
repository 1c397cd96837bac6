------------------------ MODULE HostLifecycleProofs ------------------------
(* What holds of HostLifecycle for every set of hosts, deletes and claims,   *)
(* every lease and every provider lifetime, and that it implements           *)
(* SandboxPromise outside the tailnet, proved with TLAPS.                    *)
EXTENDS HostRefinement, TLAPS

USE HostsAssumption, TimesAssumption, TailnetAssumption

-----------------------------------------------------------------------------
(* The operators on times return times.                                    *)

LEMMA LeaseEndIsLease ==
    ASSUME NEW c \in Nat, NEW e \in Lease
    PROVE  LeaseEnd(c, e) \in Lease
  BY DEF LeaseEnd, Lease, Never

LEMMA AsksAreLeases ==
    ASSUME now \in Nat, NEW a \in Asks
    PROVE  a \in Lease \cup {Default}
  BY DEF Asks, Lease, Never, Default

LEMMA ResolveIsLease ==
    ASSUME now \in Nat, NEW a \in Lease \cup {Default}
    PROVE  Resolve(a) \in Lease
  BY DEF Resolve, Lease, Never, Default

LEMMA InitialExpiryIsTime ==
    ASSUME NEW c \in Nat, NEW a \in Lease \cup {Default}
    PROVE  InitialExpiry(c, a) \in Nat /\ InitialExpiry(c, a) >= c + Grace
  BY DEF InitialExpiry, Lease, Never, Default

\* A commit writes a row or ends the coroutine.
LEMMA CommitType ==
    ASSUME TypeOK, NEW h \in Host, NEW from, NEW updated \in Row, NEW to \in ProvPc,
           Commit(h, from, updated, to)
    PROVE  row' \in [Host -> Row] /\ prov' \in [Host -> ProvPc]
  <1>1. "dead" \in ProvPc
    BY DEF ProvPc
  <1> QED
    BY <1>1 DEF TypeOK, Commit

\* An answer tells the lease end or leaves the host to its release.
LEMMA AnswerType ==
    ASSUME TypeOK, NEW h \in Host, NEW e \in Lease, Answer(h, e)
    PROVE  promise' \in [Host -> Lease \cup {NoPromise, Withdrawn}] /\ loser' \subseteq Host
  BY DEF TypeOK, Answer

\* What a release leaves behind is a row.
LEMMA ReleasedIsRow ==
    ASSUME TypeOK, NEW h \in Host
    PROVE  /\ Released(h) \in Row
           /\ Released(h).status = row[h].status /\ Released(h).created = row[h].created
           /\ Released(h).device = row[h].device /\ Released(h).pool = row[h].pool
           /\ ~Released(h).claimed
  <1>0. row[h] \in Row /\ now \in Nat
    BY DEF TypeOK
  <1> DEFINE back == [row[h] EXCEPT !.claimed = FALSE,
                                    !.expires = LeaseEnd(row[h].created, now + PoolAge)]
             ended == [row[h] EXCEPT !.expires = now]
  <1>1. LeaseEnd(row[h].created, now + PoolAge) \in Lease /\ now \in Lease
    BY <1>0, LeaseEndIsLease DEF Row, Lease
  <1>2. /\ back \in Row
        /\ back.status = row[h].status /\ back.created = row[h].created
        /\ back.device = row[h].device /\ back.pool = row[h].pool /\ ~back.claimed
    BY <1>0, <1>1 DEF Row
  <1>3. /\ ended \in Row
        /\ ended.status = row[h].status /\ ended.created = row[h].created
        /\ ended.device = row[h].device /\ ended.pool = row[h].pool
        /\ ended.claimed = row[h].claimed
    BY <1>0, <1>1 DEF Row
  <1> HIDE DEF back, ended
  <1>4. Released(h) = IF row[h].claimed THEN back ELSE ended
    BY DEF Released, back, ended
  <1> QED
    BY <1>2, <1>3, <1>4

\* A release writes the row as it would have it, or finds none.
LEMMA ReleaseEffect ==
    ASSUME TypeOK, NEW h \in Host, Release(h)
    PROVE  /\ row'[h] = IF Exists(h) THEN Released(h) ELSE row[h]
           /\ \A g \in Host : g # h => row'[g] = row[g] /\ promise'[g] = promise[g]
           /\ promise'[h] = IF Exists(h) /\ Promised(h) THEN Withdrawn ELSE promise[h]
           /\ row'[h].status = row[h].status /\ row'[h].created = row[h].created
           /\ row'[h].device = row[h].device /\ row'[h].pool = row[h].pool
           /\ Unlocked(h)
           /\ UNCHANGED <<now, ask, prov, call, vm, secret, device, task, cand, unheard>>
  <1>1. row'[h] = IF Exists(h) THEN Released(h) ELSE row[h]
    BY DEF Release, TypeOK
  <1>2. /\ \A g \in Host : g # h => row'[g] = row[g] /\ promise'[g] = promise[g]
        /\ promise'[h] = IF Exists(h) /\ Promised(h) THEN Withdrawn ELSE promise[h]
        /\ Unlocked(h)
        /\ UNCHANGED <<now, ask, prov, call, vm, secret, device, task, cand, unheard>>
    BY DEF Release, TypeOK
  <1> QED
    BY <1>1, <1>2, ReleasedIsRow

\* The two values that are no lease end.
LEMMA NoLeaseEnd == NoPromise \notin Lease /\ Withdrawn \notin Lease
  BY DEF NoPromise, Withdrawn, Lease, Never

\* Nobody holds a promise of a host that was released.
LEMMA ReleaseWithdraws ==
    ASSUME TypeOK, NEW h \in Host, Release(h), Exists(h) \/ ~Promised(h)
    PROVE  ~Promised(h)'
  BY ReleaseEffect, NoLeaseEnd DEF Promised

-----------------------------------------------------------------------------
(* Type correctness.                                                       *)

LEMMA ProvisionType ==
    ASSUME TypeOK, NEW h \in Host, Provision(h)
    PROVE  TypeOK'
  <1>0. row[h] \in Row /\ ask[h] \in Lease \cup {Default} /\ now \in Nat
    BY DEF TypeOK
  <1>1. CASE StartNetwork(h)
    <2>1. [row[h] EXCEPT !.status = "creating_network"] \in Row /\ "network" \in ProvPc
      BY <1>0 DEF Row, Status, Preparing, ProvPc, Running
    <2>2. row' \in [Host -> Row] /\ prov' \in [Host -> ProvPc]
      BY <1>1, <2>1, CommitType DEF StartNetwork
    <2> QED
      BY <1>1, <2>2 DEF StartNetwork, TypeOK
  <1>2. CASE PutSecrets(h)
    BY <1>2 DEF PutSecrets, TypeOK, ProvPc, Running
  <1>3. CASE RequestVM(h)
    <2>1. [row[h] EXCEPT !.status = "creating_vm"] \in Row /\ "creating" \in ProvPc
      BY <1>0 DEF Row, Status, Preparing, ProvPc, Running
    <2>2. row' \in [Host -> Row] /\ prov' \in [Host -> ProvPc]
      BY <1>3, <2>1, CommitType DEF RequestVM
    <2> QED
      BY <1>3, <2>2 DEF RequestVM, TypeOK
  <1>4. CASE RecordVM(h)
    <2>1. /\ [row[h] EXCEPT !.status = "bootstrapping"] \in Row
          /\ (IF Tailnet THEN "wait" ELSE "scan") \in ProvPc
      BY <1>0 DEF Row, Status, VMBacked, ProvPc, Running
    <2>2. row' \in [Host -> Row] /\ prov' \in [Host -> ProvPc]
      BY <1>4, <2>1, CommitType DEF RecordVM
    <2> QED
      BY <1>4, <2>2 DEF RecordVM, TypeOK
  <1>5. CASE RecordDevice(h)
    <2>1. [row[h] EXCEPT !.device = TRUE] \in Row /\ "scan" \in ProvPc
      BY <1>0 DEF Row, ProvPc, Running
    <2>2. row' \in [Host -> Row] /\ prov' \in [Host -> ProvPc]
      BY <1>5, <2>1, CommitType DEF RecordDevice
    <2> QED
      BY <1>5, <2>2 DEF RecordDevice, TypeOK
  <1>6. CASE Activate(h)
    <2>1. [row[h] EXCEPT !.status = "active"] \in Row /\ "stamp" \in ProvPc
      BY <1>0 DEF Row, Status, VMBacked, ProvPc, Running
    <2>2. row' \in [Host -> Row] /\ prov' \in [Host -> ProvPc]
      BY <1>6, <2>1, CommitType DEF Activate
    <2> QED
      BY <1>6, <2>2 DEF Activate, TypeOK
  <1>7. CASE Stamp(h)
    <2>1. Stamped(h) \in Lease
      BY <1>0, LeaseEndIsLease, ResolveIsLease DEF Stamped, Row
    <2>2. [row[h] EXCEPT !.expires = Stamped(h)] \in Row /\ "done" \in ProvPc
      BY <1>0, <2>1 DEF Row, ProvPc
    <2>3. row' \in [Host -> Row] /\ prov' \in [Host -> ProvPc]
      BY <1>7, <2>2, CommitType DEF Stamp
    <2>4. promise' \in [Host -> Lease \cup {NoPromise, Withdrawn}] /\ loser' \subseteq Host
      <3>1. Answer(h, Stamped(h)) \/ UNCHANGED <<promise, loser>>
        BY <1>7 DEF Stamp
      <3> QED
        BY <2>1, <3>1, AnswerType DEF TypeOK
    <2> QED
      BY <1>7, <2>3, <2>4 DEF Stamp, TypeOK
  <1>8. CASE StepFails(h)
    BY <1>8 DEF StepFails, TypeOK, ProvPc, Running
  <1>9. CASE MarkFailed(h)
    <2>1. [row[h] EXCEPT !.status = "error", !.expires = now] \in Row /\ "done" \in ProvPc
      BY <1>0 DEF Row, Status, VMBacked, ProvPc, Lease
    <2>2. row' \in [Host -> Row] /\ prov' \in [Host -> ProvPc]
      BY <1>9, <2>1, CommitType DEF MarkFailed
    <2> QED
      BY <1>9, <2>2 DEF MarkFailed, TypeOK
  <1> QED
    BY <1>1, <1>2, <1>3, <1>4, <1>5, <1>6, <1>7, <1>8, <1>9 DEF Provision

LEMMA HostStepType ==
    ASSUME TypeOK, NEW h \in Host, HostStep(h)
    PROVE  TypeOK'
  <1>0. row[h] \in Row /\ now \in Nat
    BY DEF TypeOK
  <1>1. ASSUME NEW a \in Asks, NEW pool \in BOOLEAN, Create(h, a, pool)
        PROVE  TypeOK'
    <2>1. a \in Lease \cup {Default} /\ InitialExpiry(now, a) \in Lease
      BY <1>0, AsksAreLeases, InitialExpiryIsTime DEF Lease
    <2>2. [status |-> "provisioning", created |-> now, expires |-> InitialExpiry(now, a),
           device |-> FALSE, pool |-> pool, claimed |-> FALSE] \in Row
      BY <1>0, <2>1 DEF Row, Status, Preparing
    <2> QED
      BY <1>1, <2>1, <2>2 DEF Create, TypeOK, ProvPc, Running
  <1>2. CASE Provision(h)
    BY <1>2, ProvisionType
  <1>3. CASE ProviderAnswers(h)
    BY <1>3 DEF ProviderAnswers, TypeOK
  <1>4. CASE DeviceJoins(h)
    BY <1>4 DEF DeviceJoins, TypeOK
  <1>5. CASE Die(h)
    BY <1>5 DEF Die, TypeOK, ProvPc
  <1>6. ASSUME NEW a \in Asks, Renew(h, a)
        PROVE  TypeOK'
    <2> DEFINE e == LeaseEnd(row[h].created, Resolve(a))
    <2>1. e \in Lease
      BY <1>0, AsksAreLeases, ResolveIsLease, LeaseEndIsLease DEF Row
    <2>2. row' = [row EXCEPT ![h].expires = e] /\ promise' = [promise EXCEPT ![h] = e]
      BY <1>6 DEF Renew
    <2>3. row' \in [Host -> Row] /\ promise' \in [Host -> Lease \cup {NoPromise, Withdrawn}]
      BY <1>0, <2>1, <2>2 DEF TypeOK, Row
    <2> QED
      BY <1>6, <2>3 DEF Renew, TypeOK
  <1>7. CASE Release(h)
    <2>1. row' \in [Host -> Row]
      BY <1>7, ReleasedIsRow DEF Release, TypeOK
    <2> QED
      BY <1>7, <2>1 DEF Release, TypeOK
  <1>8. CASE LoserDies(h)
    BY <1>8 DEF LoserDies, TypeOK
  <1> QED
    BY <1>1, <1>2, <1>3, <1>4, <1>5, <1>6, <1>7, <1>8 DEF HostStep

LEMMA ClaimStepType ==
    ASSUME TypeOK, NEW q \in Request, NEW h \in Host, ClaimStep(q, h)
    PROVE  TypeOK'
  <1>0. row[h] \in Row /\ now \in Nat /\ cand[q].ask \in Lease \cup {Default}
    BY DEF TypeOK
  <1>1. ASSUME NEW a \in Asks, SelectCandidate(q, h, a)
        PROVE  TypeOK'
    BY <1>0, <1>1, AsksAreLeases DEF SelectCandidate, TypeOK
  <1>2. CASE Claim(q, h)
    <2> DEFINE e == LeaseEnd(row[h].created, Resolve(cand[q].ask))
    <2>1. e \in Lease
      BY <1>0, ResolveIsLease, LeaseEndIsLease DEF Row
    <2>2. row' = [row EXCEPT ![h].claimed = TRUE, ![h].expires = e] /\ Answer(h, e)
      BY <1>2 DEF Claim
    <2>3. row' \in [Host -> Row]
      BY <1>0, <2>1, <2>2 DEF TypeOK, Row
    <2>4. promise' \in [Host -> Lease \cup {NoPromise, Withdrawn}] /\ loser' \subseteq Host
      BY <2>1, <2>2, AnswerType
    <2> QED
      BY <1>2, <2>3, <2>4 DEF Claim, TypeOK, NoCandidate
  <1>3. CASE ClaimFails(q, h)
    BY <1>3 DEF ClaimFails, TypeOK, NoCandidate
  <1> QED
    BY <1>1, <1>2, <1>3 DEF ClaimStep

LEMMA TaskStepType ==
    ASSUME TypeOK, NEW t \in Task, TaskStep(t)
    PROVE  TypeOK'
  <1>0. Idle \in [pc: TaskPc, host: Host \cup {NoHost}, kind: Kind, holds: BOOLEAN]
    BY DEF Idle, TaskPc, Kind
  <1>1. ASSUME NEW h \in Host, NEW k \in Kind, Select(t, k, h)
        PROVE  TypeOK'
    BY <1>1 DEF Select, TypeOK, TaskPc
  <1>2. ASSUME NEW h \in Host, Begin(t, h)
        PROVE  TypeOK'
    BY <1>0, <1>2 DEF Begin, TypeOK, TaskPc, FirstTeardown
  <1>3. ASSUME NEW h \in Host, ReleaseDevice(t, h)
        PROVE  TypeOK'
    BY <1>3 DEF ReleaseDevice, Advance, TypeOK, TaskPc
  <1>4. ASSUME NEW h \in Host, CommitUnlink(t, h)
        PROVE  TypeOK'
    <2>1. [row[h] EXCEPT !.device = FALSE] \in Row
      <3>1. row[h] \in Row
        BY DEF TypeOK
      <3> QED
        BY <3>1 DEF Row
    <2>2. row' \in [Host -> Row]
      <3>1. row' = [row EXCEPT ![h] = [row[h] EXCEPT !.device = FALSE]]
        BY <1>4 DEF CommitUnlink
      <3> QED
        BY <2>1, <3>1 DEF TypeOK
    <2>3. task' \in [Task -> [pc: TaskPc, host: Host \cup {NoHost}, kind: Kind, holds: BOOLEAN]]
      <3>1. [task[t] EXCEPT !.pc = "secrets", !.holds = FALSE]
               \in [pc: TaskPc, host: Host \cup {NoHost}, kind: Kind, holds: BOOLEAN]
        <4>1. task[t] \in [pc: TaskPc, host: Host \cup {NoHost}, kind: Kind, holds: BOOLEAN]
          BY DEF TypeOK
        <4> QED
          BY <4>1 DEF TaskPc
      <3>2. task' = [task EXCEPT ![t] = [task[t] EXCEPT !.pc = "secrets", !.holds = FALSE]]
        BY <1>4 DEF CommitUnlink
      <3> QED
        BY <3>1, <3>2 DEF TypeOK
    <2> QED
      BY <1>4, <2>2, <2>3 DEF CommitUnlink, TypeOK
  <1>5. ASSUME NEW h \in Host, DeleteSecrets(t, h)
        PROVE  TypeOK'
    <2>1. secret' \subseteq Host
      BY <1>5 DEF DeleteSecrets, TypeOK
    <2>2. task' \in [Task -> [pc: TaskPc, host: Host \cup {NoHost}, kind: Kind, holds: BOOLEAN]]
      BY <1>5 DEF DeleteSecrets, Advance, TypeOK, TaskPc
    <2> QED
      BY <1>5, <2>1, <2>2 DEF DeleteSecrets, TypeOK
  <1>6. ASSUME NEW h \in Host, DestroyVM(t, h)
        PROVE  TypeOK'
    <2>1. vm' \subseteq Host
      BY <1>6 DEF DestroyVM, TypeOK
    <2>2. task' \in [Task -> [pc: TaskPc, host: Host \cup {NoHost}, kind: Kind, holds: BOOLEAN]]
      BY <1>6 DEF DestroyVM, Advance, TypeOK, TaskPc
    <2> QED
      BY <1>6, <2>1, <2>2 DEF DestroyVM, TypeOK
  <1>7. ASSUME NEW h \in Host, DropRow(t, h)
        PROVE  TypeOK'
    BY <1>0, <1>7 DEF DropRow, TypeOK, Row, Status
  <1>8. CASE Abort(t)
    BY <1>0, <1>8 DEF Abort, TypeOK
  <1> QED
    BY <1>1, <1>2, <1>3, <1>4, <1>5, <1>6, <1>7, <1>8 DEF TaskStep, Teardown

LEMMA TypeStep == TypeOK /\ [Next]_vars => TypeOK'
  <1> SUFFICES ASSUME TypeOK, [Next]_vars PROVE TypeOK'
    OBVIOUS
  <1>1. ASSUME NEW h \in Host, HostStep(h) PROVE TypeOK'
    BY <1>1, HostStepType
  <1>2. ASSUME NEW q \in Request, NEW h \in Host, ClaimStep(q, h) PROVE TypeOK'
    BY <1>2, ClaimStepType
  <1>3. ASSUME NEW t \in Task, TaskStep(t) PROVE TypeOK'
    BY <1>3, TaskStepType
  <1>4. CASE Tick
    BY <1>4 DEF Tick, TypeOK
  <1>5. CASE UNCHANGED vars
    BY <1>5 DEF vars, TypeOK
  <1> QED
    BY <1>1, <1>2, <1>3, <1>4, <1>5 DEF Next

\* Every variable keeps its type: in particular every expiry a create, a stamp,
\* a renewal or a claim writes is a time or NULL, and every delete and coroutine
\* is at a point of its code.
THEOREM TypeCorrect == Spec => []TypeOK
  <1>1. Init => TypeOK
    BY DEF Init, TypeOK, Unborn, Row, Status, Lease, Never, Default, NoPromise, ProvPc,
           Idle, TaskPc, Kind, NoCandidate
  <1> QED
    BY <1>1, TypeStep, PTL DEF Spec

-----------------------------------------------------------------------------
(* The stage of the coroutine and the status of its row.                   *)

Allowed(p) ==
    CASE p = "none" -> {"unborn"}
      [] p = "start" -> {"provisioning", "gone"}
      [] p \in {"network", "secured"} -> {"creating_network", "gone"}
      [] p = "creating" -> {"creating_vm", "gone"}
      [] p \in {"wait", "scan"} -> {"bootstrapping", "gone"}
      [] p = "stamp" -> {"active", "gone"}
      [] p = "failed" -> {"creating_network", "creating_vm", "bootstrapping", "gone"}
      [] p = "done" -> {"active", "error", "gone"}
      [] p = "dead" -> Status \ {"unborn"}

\* The row is where its coroutine left it, or it is gone; a candidate of a warm
\* claim and a host to be released are active, or gone.
Stages ==
    /\ \A h \in Host : row[h].status \in Allowed(prov[h])
    /\ \A q \in Request : cand[q].host \in Host =>
          row[cand[q].host].status \in {"active", "gone"}
    /\ \A h \in loser : row[h].status \in {"active", "gone"}

\* A delete works on a host that was created.
TaskHosts ==
    \A t \in Task : task[t].pc # "idle" =>
        task[t].host \in Host /\ row[task[t].host].status # "unborn"

\* Nobody is told a lease end before the VM is recorded; a lease end that was told
\* is the row's until a release takes it back, and while the coroutine runs never
\* the one the stamp looks for.
PromiseHost(h) ==
    /\ row[h].status \in {"unborn"} \cup Preparing => ~Promised(h)
    /\ row[h].status \in Renewable /\ Promised(h) =>
        /\ row[h].expires = promise[h]
        /\ prov[h] \in Running => ~StampMatches(h)

Promises == \A h \in Host : PromiseHost(h)

\* An unclaimed pool member is promised to nobody: it never was, or its release
\* took the promise back.
PoolHost(h) == row[h].pool /\ ~row[h].claimed => ~Promised(h)

\* ... and only a pool member is ever the candidate of a claim.
PoolInv ==
    /\ \A h \in Host : PoolHost(h)
    /\ \A q \in Request : cand[q].host \in Host => row[cand[q].host].pool

PromiseInv == TypeOK /\ Stages /\ TaskHosts /\ Promises /\ PoolInv

-----------------------------------------------------------------------------
(* Who may tear a host down, outside the tailnet.                          *)

TearingDown(t) == task[t].pc \in {"release", "unlink", "secrets", "destroy", "drop"}

\* A delete that passed its guards still holds the row lock it checked them under.
LockTask(t) ==
    /\ TearingDown(t) =>
        /\ task[t].holds
        /\ task[t].pc \notin {"release", "unlink"}
        /\ task[t].kind = "janitor" => ~Unexpired(task[t].host)
        /\ task[t].kind = "shed" => ~row[task[t].host].claimed
    /\ ~TearingDown(t) => ~task[t].holds
    /\ task[t].pc # "idle" /\ task[t].kind = "shed" => row[task[t].host].pool
    /\ \A u \in Task \ {t} :
        task[t].holds /\ task[u].holds => task[t].host # task[u].host

LockInv == \A t \in Task : LockTask(t)

LeaseInv == PromiseInv /\ LockInv

-----------------------------------------------------------------------------
(* What survives a row.                                                    *)

\* The coroutine, or the create call it made and has not given up, may still give
\* the host a secret or a VM.
Early(h) ==
    \/ call[h] = "sent" /\ h \notin unheard
    \/ prov[h] \in {"start", "network", "secured", "creating"}

EarlyHost(h) ==
    /\ Early(h) => row[h].status \in Preparing
    /\ call[h] = "sent" /\ h \notin unheard => prov[h] \in {"creating", "dead"}
    /\ h \in unheard => prov[h] \in {"failed", "done", "dead"}

OrphanHost(h) ==
    /\ EarlyHost(h)
    /\ Early(h) => now <= row[h].created + ProvisionBound
    /\ row[h].status \in Preparing =>
          row[h].expires \in Nat /\ row[h].expires >= row[h].created + Grace

OrphanTask(t) ==
    TearingDown(t) =>
        /\ ~Early(task[t].host)
        /\ task[t].pc \in {"destroy", "drop"} => task[t].host \notin secret
        /\ task[t].pc = "drop" => task[t].host \notin vm \ unheard

OrphanInv == (\A h \in Host : OrphanHost(h)) /\ (\A t \in Task : OrphanTask(t))

RowInv == TypeOK /\ Stages /\ TaskHosts /\ OrphanInv /\ NothingOutlivesRow

\* A recorded device is named by its row, and only on the tailnet.
DeviceHost(h) ==
    /\ device[h] = "known" => row[h].device /\ Exists(h)
    /\ ~Tailnet => device[h] \notin {"up", "known"}

\* A delete that skips the release, or is past it, can never meet a recorded device.
DeviceTask(t) ==
    /\ task[t].pc = "unlink" => device[task[t].host] = "released"
    /\ task[t].pc \in {"secrets", "destroy", "drop"} =>
        \/ device[task[t].host] = "released"
        \/ task[t].holds /\ device[task[t].host] # "known"

DeviceInv ==
    /\ TypeOK /\ Stages /\ TaskHosts
    /\ \A h \in Host : DeviceHost(h)
    /\ \A t \in Task : DeviceTask(t)

-----------------------------------------------------------------------------
(* Steps of one host leave the others alone.                               *)

LEMMA CommitEffect ==
    ASSUME TypeOK, NEW h \in Host, NEW from, NEW updated, NEW to,
           Commit(h, from, updated, to)
    PROVE  /\ prov[h] = from
           /\ Exists(h) => row'[h] = updated /\ prov'[h] = to
           /\ ~Exists(h) => row' = row /\ prov'[h] = "dead"
           /\ \A g \in Host : g # h => row'[g] = row[g] /\ prov'[g] = prov[g]
           /\ \A t \in Task : task[t].holds => task[t].host # h
  BY DEF TypeOK, Commit, Unlocked

\* What Stages says survives a step that changes one row and one coroutine.
LEMMA StagesKept ==
    ASSUME TypeOK, TypeOK', Stages, NEW h \in Host,
           \A g \in Host \ {h} : row'[g] = row[g] /\ prov'[g] = prov[g],
           row'[h].status \in Allowed(prov'[h]),
           row[h].status \in {"active", "gone"} => row'[h].status \in {"active", "gone"},
           cand' = cand,
           \A g \in loser' : g \in loser \/ (g = h /\ row'[h].status \in {"active", "gone"})
    PROVE  Stages'
  BY DEF Stages, TypeOK

LEMMA CommitStages ==
    ASSUME TypeOK, TypeOK', Stages, NEW h \in Host,
           NEW from \in Running, NEW updated \in Row, NEW to \in ProvPc,
           Commit(h, from, updated, to), cand' = cand, loser' = loser,
           updated.status \in Allowed(to),
           row[h].status = "active" => updated.status = "active"
    PROVE  Stages'
  <1>1. \A g \in Host \ {h} : row'[g] = row[g] /\ prov'[g] = prov[g]
    BY CommitEffect
  <1>2. row[h].status \in Allowed(from) /\ row[h].status # "unborn" /\ row[h].status \in Status
    <2>1. prov[h] = from
      BY CommitEffect
    <2>2. row[h].status \in Allowed(from) /\ row[h] \in Row
      BY <2>1 DEF Stages, TypeOK
    <2>3. "unborn" \notin Allowed(from)
      BY DEF Allowed, Running
    <2> QED
      BY <2>2, <2>3 DEF Row
  <1>3. CASE Exists(h)
    BY <1>1, <1>3, CommitEffect, StagesKept DEF Exists
  <1>4. CASE ~Exists(h)
    <2>1. row'[h].status \in Allowed(prov'[h])
      BY <1>2, <1>4, CommitEffect DEF Allowed
    <2> QED
      BY <1>1, <1>4, <2>1, CommitEffect, StagesKept
  <1> QED
    BY <1>3, <1>4

LEMMA StagesStep ==
    TypeOK /\ TypeOK' /\ Stages /\ TaskHosts /\ [Next]_vars => Stages'
  <1> SUFFICES ASSUME TypeOK, TypeOK', Stages, TaskHosts, [Next]_vars PROVE Stages'
    OBVIOUS
  <1>0. ASSUME NEW h \in Host
        PROVE  row[h] \in Row /\ row[h].status \in Allowed(prov[h])
    BY DEF Stages, TypeOK
  <1>1. ASSUME NEW h \in Host, NEW a \in Asks, NEW pool \in BOOLEAN, Create(h, a, pool)
        PROVE  Stages'
    BY <1>1 DEF Create, Stages, Allowed, TypeOK
  <1>2. ASSUME NEW h \in Host, StartNetwork(h) PROVE Stages'
    <2>1. [row[h] EXCEPT !.status = "creating_network"] \in Row
      BY <1>0 DEF Row, Status, Preparing
    <2>2. row[h].status # "active"
      BY <1>0, <1>2, CommitEffect DEF StartNetwork, Allowed
    <2> QED
      BY <1>0, <1>2, <2>1, <2>2, CommitStages
      DEF StartNetwork, Allowed, Running, ProvPc, Row
  <1>3. ASSUME NEW h \in Host, PutSecrets(h) PROVE Stages'
    BY <1>3 DEF PutSecrets, Stages, Allowed, TypeOK
  <1>4. ASSUME NEW h \in Host, RequestVM(h) PROVE Stages'
    <2>1. [row[h] EXCEPT !.status = "creating_vm"] \in Row
      BY <1>0 DEF Row, Status, Preparing
    <2>2. row[h].status # "active"
      BY <1>0, <1>4, CommitEffect DEF RequestVM, Allowed
    <2> QED
      BY <1>0, <1>4, <2>1, <2>2, CommitStages DEF RequestVM, Allowed, Running, ProvPc, Row
  <1>5. ASSUME NEW h \in Host, RecordVM(h) PROVE Stages'
    <2>1. [row[h] EXCEPT !.status = "bootstrapping"] \in Row
      BY <1>0 DEF Row, Status, VMBacked
    <2>2. row[h].status # "active"
      BY <1>0, <1>5, CommitEffect DEF RecordVM, Allowed
    <2>3. (IF Tailnet THEN "wait" ELSE "scan") \in {"wait", "scan"}
      OBVIOUS
    <2> QED
      BY <1>0, <1>5, <2>1, <2>2, <2>3, CommitStages DEF RecordVM, Allowed, Running, ProvPc, Row
  <1>6. ASSUME NEW h \in Host, RecordDevice(h) PROVE Stages'
    <2>1. [row[h] EXCEPT !.device = TRUE] \in Row
      BY <1>0 DEF Row
    <2>2. row[h].status # "active" /\ (Exists(h) => row[h].status = "bootstrapping")
      BY <1>0, <1>6, CommitEffect DEF RecordDevice, Allowed, Exists
    <2>3. [row[h] EXCEPT !.device = TRUE].status = row[h].status
      BY <1>0 DEF Row
    <2>4. \A g \in Host \ {h} : row'[g] = row[g] /\ prov'[g] = prov[g]
      BY <1>6, CommitEffect DEF RecordDevice
    <2>5. row'[h].status = row[h].status /\ ((prov'[h] = "scan" /\ Exists(h)) \/ prov'[h] = "dead")
      <3>1. CASE Exists(h)
        <4>1. row'[h] = [row[h] EXCEPT !.device = TRUE] /\ prov'[h] = "scan"
          BY <1>6, <3>1, CommitEffect DEF RecordDevice
        <4> QED
          BY <2>3, <3>1, <4>1
      <3>2. CASE ~Exists(h)
        BY <1>6, <3>2, CommitEffect DEF RecordDevice
      <3> QED
        BY <3>1, <3>2
    <2>6. row'[h].status \in Allowed(prov'[h])
      BY <1>0, <1>6, <2>2, <2>5, CommitEffect DEF RecordDevice, Allowed, Row
    <2> QED
      BY <1>6, <2>4, <2>5, <2>6, StagesKept DEF RecordDevice
  <1>7. ASSUME NEW h \in Host, Activate(h) PROVE Stages'
    <2>1. [row[h] EXCEPT !.status = "active"] \in Row
      BY <1>0 DEF Row, Status, VMBacked
    <2> QED
      BY <1>0, <1>7, <2>1, CommitStages DEF Activate, Allowed, Running, ProvPc, Row
  <1>8. ASSUME NEW h \in Host, Stamp(h) PROVE Stages'
    <2>1. [row[h] EXCEPT !.expires = Stamped(h)].status = row[h].status
      BY <1>0 DEF Row
    <2>2. \A g \in Host \ {h} : row'[g] = row[g] /\ prov'[g] = prov[g]
      BY <1>8, CommitEffect DEF Stamp
    <2>3. row'[h].status = row[h].status /\ prov'[h] \in {"done", "dead"}
      <3>1. CASE Exists(h)
        <4>1. row'[h] = [row[h] EXCEPT !.expires = Stamped(h)] /\ prov'[h] = "done"
          BY <1>8, <3>1, CommitEffect DEF Stamp
        <4> QED
          BY <2>1, <4>1
      <3>2. CASE ~Exists(h)
        BY <1>8, <3>2, CommitEffect DEF Stamp
      <3> QED
        BY <3>1, <3>2
    <2>4. row'[h].status \in Allowed(prov'[h])
      BY <1>0, <1>8, <2>3, CommitEffect DEF Stamp, Allowed, Row
    <2>5. \A g \in loser' : g \in loser \/ (g = h /\ row'[h].status \in {"active", "gone"})
      <3>1. prov[h] = "stamp" /\ (loser' = loser \/ loser' = loser \cup {h})
        BY <1>8, CommitEffect DEF Stamp, Answer
      <3> QED
        BY <1>0, <2>3, <3>1 DEF Allowed
    <2> QED
      BY <1>8, <2>2, <2>3, <2>4, <2>5, StagesKept DEF Stamp
  <1>9. ASSUME NEW h \in Host, StepFails(h) PROVE Stages'
    BY <1>9 DEF StepFails, Stages, Allowed, TypeOK
  <1>10. ASSUME NEW h \in Host, MarkFailed(h) PROVE Stages'
    <2>1. [row[h] EXCEPT !.status = "error", !.expires = now] \in Row
      BY <1>0 DEF Row, Status, VMBacked, TypeOK, Lease
    <2>2. row[h].status # "active"
      BY <1>0, <1>10, CommitEffect DEF MarkFailed, Allowed
    <2> QED
      BY <1>0, <1>10, <2>1, <2>2, CommitStages DEF MarkFailed, Allowed, Running, ProvPc, Row
  <1>11. ASSUME NEW h \in Host, ProviderAnswers(h) \/ DeviceJoins(h) PROVE Stages'
    BY <1>11 DEF ProviderAnswers, DeviceJoins, Stages
  <1>12. ASSUME NEW h \in Host, Die(h) PROVE Stages'
    <2>1. /\ prov'[h] = "dead" /\ UNCHANGED <<row, cand, loser>>
          /\ \A g \in Host \ {h} : prov'[g] = prov[g]
      BY <1>12 DEF Die, TypeOK
    <2>2. row[h].status \in Status \ {"unborn"}
      BY <1>0, <1>12 DEF Die, Running, Allowed, Row
    <2> QED
      BY <2>1, <2>2, StagesKept DEF Allowed
  <1>13. ASSUME NEW h \in Host, NEW a \in Asks, Renew(h, a) PROVE Stages'
    <2>1. row'[h].status = row[h].status /\ \A g \in Host \ {h} : row'[g] = row[g]
      BY <1>0, <1>13 DEF Renew, TypeOK, Row
    <2> QED
      BY <1>0, <1>13, <2>1, StagesKept DEF Renew
  <1>14. ASSUME NEW q \in Request, NEW h \in Host, NEW a \in Asks, SelectCandidate(q, h, a)
         PROVE  Stages'
    BY <1>14 DEF SelectCandidate, Stages, TypeOK
  <1>15. ASSUME NEW q \in Request, NEW h \in Host, Claim(q, h) PROVE Stages'
    <2>1. /\ \A g \in Host : row'[g].status = row[g].status
          /\ prov' = prov
      BY <1>0, <1>15 DEF Claim, TypeOK, Row
    <2>2. \A p \in Request : cand'[p].host \in Host => cand'[p].host = cand[p].host
      BY <1>15 DEF Claim, TypeOK, NoCandidate
    <2>3. \A g \in loser' : g \in loser \/ (g = h /\ row[h].status = "active")
      <3>1. Exists(h) /\ cand[q].host = h /\ (loser' = loser \/ loser' = loser \cup {h})
        BY <1>15 DEF Claim, Answer
      <3>2. row[h].status \in {"active", "gone"}
        BY <3>1 DEF Stages
      <3> QED
        BY <3>1, <3>2 DEF Exists
    <2>4. \A g \in loser' : row[g].status \in {"active", "gone"}
      BY <2>3 DEF Stages
    <2>5. loser' \subseteq Host
      BY DEF TypeOK
    <2> QED
      BY <2>1, <2>2, <2>4, <2>5 DEF Stages
  <1>16. ASSUME NEW q \in Request, NEW h \in Host, ClaimFails(q, h) PROVE Stages'
    BY <1>16 DEF ClaimFails, NoCandidate, Stages, TypeOK
  <1>17. ASSUME NEW t \in Task, NEW h \in Host, CommitUnlink(t, h) PROVE Stages'
    <2>1. row'[h].status = row[h].status /\ \A g \in Host \ {h} : row'[g] = row[g]
      BY <1>0, <1>17 DEF CommitUnlink, TypeOK, Row
    <2> QED
      BY <1>0, <1>17, <2>1, StagesKept DEF CommitUnlink
  <1>18. ASSUME NEW t \in Task, NEW h \in Host, DropRow(t, h)
         PROVE  Stages'
    <2>0. row[h].status # "unborn"
      BY <1>18 DEF DropRow, At, TaskHosts
    <2>1. row'[h].status = "gone" /\ \A g \in Host \ {h} : row'[g] = row[g]
      BY <1>0, <1>18 DEF DropRow, TypeOK, Row
    <2>2. "gone" \in Allowed(prov[h])
      BY <1>0, <2>0 DEF Allowed, Status, TypeOK, ProvPc, Running
    <2> QED
      BY <1>18, <2>1, <2>2, StagesKept DEF DropRow
  <1>19. CASE UNCHANGED <<row, prov, cand>> /\ loser' \subseteq loser
    BY <1>19 DEF Stages
  <1>23. ASSUME NEW h \in Host, Release(h) PROVE Stages'
    BY <1>0, <1>23, ReleaseEffect, StagesKept DEF Release
  <1>20. ASSUME NEW h \in Host, HostStep(h) PROVE Stages'
    BY <1>20, <1>1, <1>2, <1>3, <1>4, <1>5, <1>6, <1>7, <1>8, <1>9, <1>10, <1>11, <1>12, <1>13,
       <1>19, <1>23
    DEF HostStep, Provision, LoserDies
  <1>21. ASSUME NEW t \in Task, TaskStep(t) PROVE Stages'
    BY <1>21, <1>17, <1>18, <1>19
    DEF TaskStep, Teardown, Select, Begin, ReleaseDevice, DeleteSecrets, DestroyVM, Abort
  <1>22. CASE Tick \/ UNCHANGED vars
    BY <1>22, <1>19 DEF Tick, vars
  <1> QED
    BY <1>14, <1>15, <1>16, <1>20, <1>21, <1>22 DEF Next, ClaimStep

\* How a step may move a row: created once, gone for good and only by a delete
\* that is about to drop it; before a VM is recorded nothing touches its expiry.
RowMove(h) ==
    /\ row'[h].status = "unborn" => row[h].status = "unborn"
    /\ row[h].status = "gone" => row'[h].status = "gone"
    /\ row'[h].status = "gone" => Gone(h) \/ \E t \in Task : At(t, h, "drop")
    /\ row'[h].status \in Preparing =>
        \/ /\ row[h].status \in Preparing
           /\ row'[h].expires = row[h].expires /\ row'[h].created = row[h].created
        \/ /\ row[h].status = "unborn" /\ row'[h].created = now /\ now' = now
           /\ row'[h].expires \in Nat /\ row'[h].expires >= now + Grace

LEMMA RowMoveUnlessTouched ==
    ASSUME NEW h \in Host, row'[h] = row[h]
    PROVE  RowMove(h)
  BY DEF RowMove, Gone

LEMMA RowMoves ==
    ASSUME TypeOK, TypeOK', Stages, TaskHosts, [Next]_vars, NEW g \in Host
    PROVE  RowMove(g)
  <1>0. ASSUME NEW h \in Host
        PROVE  row[h] \in Row /\ row[h].status \in Allowed(prov[h]) /\ now \in Nat
    BY DEF Stages, TypeOK
  <1>1. ASSUME NEW h \in Host, NEW from \in Running, NEW updated \in Row, NEW to,
               Commit(h, from, updated, to),
               updated.status \notin {"unborn", "gone"},
               updated.status \in Preparing => /\ row[h].status \in Preparing
                                               /\ updated.expires = row[h].expires
                                               /\ updated.created = row[h].created
        PROVE  RowMove(g)
    <2>1. CASE g # h \/ ~Exists(h)
      BY <1>1, <2>1, CommitEffect, RowMoveUnlessTouched
    <2>2. CASE g = h /\ Exists(h)
      <3>1. row'[g] = updated
        BY <1>1, <2>2, CommitEffect
      <3> QED
        BY <1>1, <2>2, <3>1 DEF RowMove, Exists
    <2> QED
      BY <2>1, <2>2
  <1>2. ASSUME NEW h \in Host, NEW a \in Asks, NEW pool \in BOOLEAN, Create(h, a, pool)
        PROVE  RowMove(g)
    <2>1. CASE g # h
      BY <1>2, <2>1, RowMoveUnlessTouched DEF Create, TypeOK
    <2>2. CASE g = h
      <3>1. InitialExpiry(now, a) \in Nat /\ InitialExpiry(now, a) >= now + Grace
        BY <1>0, AsksAreLeases, InitialExpiryIsTime
      <3> QED
        BY <1>2, <2>2, <3>1 DEF Create, TypeOK, RowMove, Preparing
    <2> QED
      BY <2>1, <2>2
  <1>3. ASSUME NEW h \in Host, Provision(h)
        PROVE  RowMove(g)
    <2>1. CASE StartNetwork(h)
      <3>1. [row[h] EXCEPT !.status = "creating_network"] \in Row
        BY <1>0 DEF Row, Status, Preparing
      <3>2. row[h].status \in {"provisioning", "gone"}
        BY <1>0, <2>1, CommitEffect DEF StartNetwork, Allowed
      <3>3. CASE row[h].status = "provisioning"
        BY <1>0, <1>1, <2>1, <3>1, <3>3 DEF StartNetwork, Running, Preparing, Row
      <3>4. CASE row[h].status = "gone"
        BY <2>1, <3>4, RowMoveUnlessTouched DEF StartNetwork, Commit, Exists
      <3> QED
        BY <3>2, <3>3, <3>4
    <2>2. CASE RequestVM(h)
      <3>1. [row[h] EXCEPT !.status = "creating_vm"] \in Row
        BY <1>0 DEF Row, Status, Preparing
      <3>2. row[h].status \in {"creating_network", "gone"}
        BY <1>0, <2>2, CommitEffect DEF RequestVM, Allowed
      <3>3. CASE row[h].status = "creating_network"
        BY <1>0, <1>1, <2>2, <3>1, <3>3 DEF RequestVM, Running, Preparing, Row
      <3>4. CASE row[h].status = "gone"
        BY <2>2, <3>4, RowMoveUnlessTouched DEF RequestVM, Commit, Exists
      <3> QED
        BY <3>2, <3>3, <3>4
    <2>3. CASE RecordVM(h)
      <3>1. [row[h] EXCEPT !.status = "bootstrapping"] \in Row
        BY <1>0 DEF Row, Status, VMBacked
      <3> QED
        BY <1>0, <1>1, <2>3, <3>1 DEF RecordVM, Running, Preparing, Row
    <2>4. CASE RecordDevice(h)
      <3>1. [row[h] EXCEPT !.device = TRUE] \in Row
        BY <1>0 DEF Row
      <3>2. row[h].status \in {"bootstrapping", "gone"}
        BY <1>0, <2>4, CommitEffect DEF RecordDevice, Allowed
      <3>3. [row[h] EXCEPT !.device = TRUE].status = row[h].status
        BY <1>0 DEF Row
      <3>4. CASE row[h].status = "bootstrapping"
        BY <1>1, <2>4, <3>1, <3>3, <3>4 DEF RecordDevice, Running, Preparing
      <3>5. CASE row[h].status = "gone"
        BY <2>4, <3>5, RowMoveUnlessTouched DEF RecordDevice, Commit, Exists
      <3> QED
        BY <3>2, <3>4, <3>5
    <2>5. CASE Activate(h)
      <3>1. [row[h] EXCEPT !.status = "active"] \in Row
        BY <1>0 DEF Row, Status, VMBacked
      <3> QED
        BY <1>0, <1>1, <2>5, <3>1 DEF Activate, Running, Preparing, Row
    <2>6. CASE Stamp(h)
      <3>1. Stamped(h) \in Lease
        BY <1>0, LeaseEndIsLease, ResolveIsLease DEF Stamped, Row, TypeOK
      <3>2. [row[h] EXCEPT !.expires = Stamped(h)] \in Row
        BY <1>0, <3>1 DEF Row
      <3>3. row[h].status \in {"active", "gone"}
        BY <1>0, <2>6, CommitEffect DEF Stamp, Allowed
      <3>4. [row[h] EXCEPT !.expires = Stamped(h)].status = row[h].status
        BY <1>0 DEF Row
      <3>5. CASE row[h].status = "active"
        BY <1>1, <2>6, <3>2, <3>4, <3>5 DEF Stamp, Running, Preparing
      <3>6. CASE row[h].status = "gone"
        BY <2>6, <3>6, RowMoveUnlessTouched DEF Stamp, Commit, Exists
      <3> QED
        BY <3>3, <3>5, <3>6
    <2>7. CASE MarkFailed(h)
      <3>1. [row[h] EXCEPT !.status = "error", !.expires = now] \in Row
        BY <1>0 DEF Row, Status, VMBacked, TypeOK, Lease
      <3> QED
        BY <1>0, <1>1, <2>7, <3>1 DEF MarkFailed, Running, Preparing, Row
    <2>8. CASE PutSecrets(h) \/ StepFails(h)
      BY <2>8, RowMoveUnlessTouched DEF PutSecrets, StepFails
    <2> QED
      BY <1>3, <2>1, <2>2, <2>3, <2>4, <2>5, <2>6, <2>7, <2>8 DEF Provision
  <1>4. ASSUME NEW h \in Host, NEW a \in Asks, Renew(h, a)
        PROVE  RowMove(g)
    <2>1. CASE g # h
      BY <1>4, <2>1, RowMoveUnlessTouched DEF Renew, TypeOK
    <2>2. CASE g = h
      <3>1. row'[g].status = row[g].status /\ row[g].status \in Renewable
        BY <1>0, <1>4, <2>2 DEF Renew, Row, TypeOK
      <3> QED
        BY <3>1 DEF RowMove, Renewable, Preparing
    <2> QED
      BY <2>1, <2>2
  <1>5. ASSUME NEW q \in Request, NEW h \in Host, Claim(q, h)
        PROVE  RowMove(g)
    <2>1. CASE g # h
      BY <1>5, <2>1, RowMoveUnlessTouched DEF Claim, TypeOK
    <2>2. CASE g = h
      <3>1. row'[g].status = row[g].status /\ row[g].status \in {"active", "gone"}
        BY <1>0, <1>5, <2>2 DEF Claim, Row, TypeOK, Stages
      <3> QED
        BY <1>5, <2>2, <3>1 DEF RowMove, Preparing, Gone, Claim, Exists
    <2> QED
      BY <2>1, <2>2
  <1>6. ASSUME NEW t \in Task, NEW h \in Host, CommitUnlink(t, h)
        PROVE  RowMove(g)
    <2>1. CASE g # h
      BY <1>6, <2>1, RowMoveUnlessTouched DEF CommitUnlink, TypeOK
    <2>2. CASE g = h
      <3>1. /\ row'[g].status = row[g].status /\ row'[g].expires = row[g].expires
            /\ row'[g].created = row[g].created
        BY <1>0, <1>6, <2>2 DEF CommitUnlink, Row, TypeOK
      <3> QED
        BY <3>1 DEF RowMove, Gone
    <2> QED
      BY <2>1, <2>2
  <1>7. ASSUME NEW t \in Task, NEW h \in Host, DropRow(t, h)
        PROVE  RowMove(g)
    <2>1. CASE g # h
      BY <1>7, <2>1, RowMoveUnlessTouched DEF DropRow, TypeOK
    <2>2. CASE g = h
      <3>1. row'[g].status = "gone" /\ At(t, g, "drop")
        BY <1>0, <1>7, <2>2 DEF DropRow, Row, TypeOK
      <3> QED
        BY <3>1 DEF RowMove, Preparing
    <2> QED
      BY <2>1, <2>2
  <1>8. CASE UNCHANGED row
    BY <1>8, RowMoveUnlessTouched
  <1>12. ASSUME NEW h \in Host, Release(h)
        PROVE  RowMove(g)
    <2>1. CASE g # h
      BY <1>12, <2>1, RowMoveUnlessTouched, ReleaseEffect
    <2>2. CASE g = h
      <3>1. row'[g].status = row[g].status /\ row[g].status \in {"active", "gone"}
        BY <1>12, <2>2, ReleaseEffect DEF Release, Stages
      <3> QED
        BY <3>1 DEF RowMove, Preparing, Gone
    <2> QED
      BY <2>1, <2>2
  <1>9. ASSUME NEW h \in Host, HostStep(h) PROVE RowMove(g)
    BY <1>9, <1>2, <1>3, <1>4, <1>8, <1>12
    DEF HostStep, ProviderAnswers, DeviceJoins, Die, LoserDies
  <1>10. ASSUME NEW q \in Request, NEW h \in Host, ClaimStep(q, h) PROVE RowMove(g)
    BY <1>10, <1>5, <1>8 DEF ClaimStep, SelectCandidate, ClaimFails
  <1>11. ASSUME NEW t \in Task, TaskStep(t) PROVE RowMove(g)
    BY <1>11, <1>6, <1>7, <1>8
    DEF TaskStep, Teardown, Select, Begin, ReleaseDevice, DeleteSecrets, DestroyVM, Abort
  <1> QED
    BY <1>8, <1>9, <1>10, <1>11 DEF Next, Tick, vars

\* Which tasks a step may move: one, and a task that starts or goes on is on the
\* host it was on.
LEMMA TaskMoves ==
    ASSUME TypeOK, [Next]_vars, NEW t \in Task, task'[t].pc # "idle"
    PROVE  \/ task'[t] = task[t]
           \/ \E h \in Host : task'[t].host = h /\ Exists(h) /\ task'[t].pc = "picked"
           \/ task[t].pc # "idle" /\ task'[t].host = task[t].host
  <1>1. ASSUME NEW u \in Task, NEW h \in Host, NEW k \in Kind, Select(u, k, h)
        PROVE  \/ task'[t] = task[t]
               \/ task'[t].host = h /\ Exists(h) /\ task'[t].pc = "picked"
    BY <1>1 DEF Select, Selected, TypeOK
  <1>2. ASSUME NEW u \in Task, NEW h \in Host, Teardown(u, h)
        PROVE  task'[t] = task[t] \/ (task[t].pc # "idle" /\ task'[t].host = task[t].host)
    <2>1. task[u].pc # "idle" /\ \A v \in Task \ {u} : task'[v] = task[v]
      BY <1>2 DEF Teardown, Begin, ReleaseDevice, CommitUnlink, DeleteSecrets, DestroyVM, DropRow,
                  At, Advance, TypeOK
    <2>2. task'[u] = Idle \/ task'[u].host = task[u].host
      <3>1. CASE Begin(u, h)
        BY <3>1 DEF Begin, TypeOK
      <3>2. CASE DropRow(u, h)
        BY <3>2 DEF DropRow, TypeOK
      <3>3. CASE CommitUnlink(u, h)
        BY <3>3 DEF CommitUnlink, TypeOK
      <3>4. CASE ReleaseDevice(u, h) \/ DeleteSecrets(u, h) \/ DestroyVM(u, h)
        BY <3>4 DEF ReleaseDevice, DeleteSecrets, DestroyVM, Advance, TypeOK
      <3> QED
        BY <1>2, <3>1, <3>2, <3>3, <3>4 DEF Teardown
    <2> QED
      BY <2>1, <2>2 DEF Idle
  <1>3. ASSUME NEW u \in Task, Abort(u)
        PROVE  task'[t] = task[t]
    BY <1>3 DEF Abort, Idle, TypeOK
  <1>4. CASE UNCHANGED task
    BY <1>4
  <1> QED
    BY <1>1, <1>2, <1>3, <1>4
    DEF Next, HostStep, Provision, StartNetwork, PutSecrets, RequestVM, RecordVM, RecordDevice,
        Activate, Stamp, StepFails, MarkFailed, Create, ProviderAnswers, DeviceJoins, Die,
        Renew, Release, LoserDies,
        ClaimStep, SelectCandidate, Claim, ClaimFails, TaskStep, Tick, vars

LEMMA TaskHostsStep ==
    TypeOK /\ TypeOK' /\ Stages /\ TaskHosts /\ [Next]_vars => TaskHosts'
  <1> SUFFICES ASSUME TypeOK, TypeOK', Stages, TaskHosts, [Next]_vars,
                      NEW t \in Task, task'[t].pc # "idle"
               PROVE  task'[t].host \in Host /\ row'[task'[t].host].status # "unborn"
    BY DEF TaskHosts
  <1>1. task'[t].host \in Host /\ row[task'[t].host].status # "unborn"
    BY TaskMoves DEF TaskHosts, Exists
  <1> QED
    BY <1>1, RowMoves DEF RowMove

\* Only a coroutine, or its create call, gives a host a secret or a VM, and none
\* of this begins but with the row.
LEMMA EarlyMoves ==
    ASSUME TypeOK, [Next]_vars, NEW g \in Host
    PROVE  /\ Early(g)' => Early(g) \/ (row[g].status = "unborn" /\ call[g]' = call[g])
           /\ g \in secret' => g \in secret \/ Early(g)
           /\ g \in vm' => g \in vm \/ Early(g) \/ g \in unheard
           /\ unheard \subseteq unheard'
  <1> USE DEF Early
  <1>1. ASSUME NEW h \in Host, HostStep(h)
        PROVE  /\ Early(g)' => Early(g) \/ (row[g].status = "unborn" /\ call[g]' = call[g])
               /\ g \in secret' => g \in secret \/ Early(g)
               /\ g \in vm' => g \in vm \/ Early(g) \/ g \in unheard
               /\ unheard \subseteq unheard'
    <2>1. ASSUME NEW a \in Asks, NEW pool \in BOOLEAN, Create(h, a, pool)
          PROVE  /\ Early(g)' => Early(g) \/ (row[g].status = "unborn" /\ call[g]' = call[g])
                 /\ UNCHANGED <<secret, vm, unheard>>
      BY <2>1 DEF Create, TypeOK
    <2>2. ASSUME StartNetwork(h) \/ RecordVM(h) \/ RecordDevice(h) \/ Activate(h) \/ Stamp(h)
                   \/ MarkFailed(h)
          PROVE  (Early(g)' => Early(g)) /\ UNCHANGED <<secret, vm, unheard>>
      BY <2>2
      DEF StartNetwork, RecordVM, RecordDevice, Activate, Stamp, MarkFailed, Commit, TypeOK
    <2>3. ASSUME PutSecrets(h) \/ StepFails(h)
          PROVE  /\ Early(g)' => Early(g)
                 /\ g \in secret' => g \in secret \/ Early(g)
                 /\ vm' = vm /\ unheard \subseteq unheard'
      BY <2>3 DEF PutSecrets, StepFails, TypeOK
    <2>4. ASSUME RequestVM(h)
          PROVE  (Early(g)' => Early(g)) /\ UNCHANGED <<secret, vm, unheard>>
      BY <2>4 DEF RequestVM, Commit, TypeOK
    <2>5. ASSUME ProviderAnswers(h)
          PROVE  /\ Early(g)' => Early(g)
                 /\ g \in vm' => g \in vm \/ Early(g) \/ g \in unheard
                 /\ UNCHANGED <<secret, unheard>>
      BY <2>5 DEF ProviderAnswers, TypeOK
    <2>6. ASSUME NEW a \in Asks, DeviceJoins(h) \/ Die(h) \/ Renew(h,
    a) \/ Release(h) \/ LoserDies(h)
          PROVE  (Early(g)' => Early(g)) /\ UNCHANGED <<secret, vm, unheard>>
      BY <2>6 DEF DeviceJoins, Die, Renew, Release, LoserDies, TypeOK
    <2>7. Asks # {}
      BY DEF Asks
    <2> QED
      BY <1>1, <2>1, <2>2, <2>3, <2>4, <2>5, <2>6, <2>7 DEF HostStep, Provision
  <1>2. ASSUME NEW t \in Task, TaskStep(t)
        PROVE  /\ UNCHANGED <<prov, call, unheard>>
               /\ secret' \subseteq secret /\ vm' \subseteq vm
    BY <1>2 DEF TaskStep, Select, Teardown, Begin, ReleaseDevice, CommitUnlink, DeleteSecrets,
                DestroyVM, DropRow, Abort
  <1>3. ASSUME NEW q \in Request, NEW h \in Host, ClaimStep(q, h)
        PROVE  UNCHANGED <<prov, call, secret, vm, unheard>>
    BY <1>3 DEF ClaimStep, SelectCandidate, Claim, ClaimFails
  <1>4. CASE Tick \/ UNCHANGED vars
    BY <1>4 DEF Tick, vars
  <1> QED
    BY <1>1, <1>2, <1>3, <1>4 DEF Next

\* While a coroutine or its create call is early, the row stays in preparation.
LEMMA EarlyStaysPreparing ==
    ASSUME TypeOK, TypeOK', Stages, TaskHosts, OrphanInv, [Next]_vars, NEW g \in Host
    PROVE  EarlyHost(g)'
  <1>0. /\ row[g] \in Row /\ row[g].status \in Allowed(prov[g])
        /\ EarlyHost(g)
    BY DEF TypeOK, Stages, OrphanInv, OrphanHost
  <1>1. ASSUME UNCHANGED <<prov, call, unheard>>, row'[g].status = row[g].status
        PROVE  EarlyHost(g)'
    BY <1>0, <1>1 DEF Early, EarlyHost
  <1>2. ASSUME NEW h \in Host, HostStep(h), g # h
        PROVE  /\ row'[g] = row[g] /\ prov'[g] = prov[g] /\ call'[g] = call[g]
               /\ (g \in unheard' <=> g \in unheard)
    <2>1. ASSUME NEW a \in Asks, NEW pool \in BOOLEAN, Create(h, a, pool)
          PROVE  /\ row'[g] = row[g] /\ prov'[g] = prov[g] /\ call'[g] = call[g]
                 /\ (g \in unheard' <=> g \in unheard)
      BY <1>2, <2>1 DEF Create, TypeOK
    <2>2. CASE Provision(h)
      BY <1>2, <2>2, CommitEffect
      DEF Provision, StartNetwork, PutSecrets, RequestVM, RecordVM, RecordDevice, Activate, Stamp,
          StepFails, MarkFailed, TypeOK
    <2>3. ASSUME NEW a \in Asks, ProviderAnswers(h) \/ DeviceJoins(h) \/ Die(h) \/ Renew(h,
    a) \/ Release(h) \/ LoserDies(h)
          PROVE  /\ row'[g] = row[g] /\ prov'[g] = prov[g] /\ call'[g] = call[g]
                 /\ (g \in unheard' <=> g \in unheard)
      BY <1>2, <2>3 DEF ProviderAnswers, DeviceJoins, Die, Renew, Release, LoserDies, TypeOK
    <2>4. Asks # {}
      BY DEF Asks
    <2> QED
      BY <1>2, <2>1, <2>2, <2>3, <2>4 DEF HostStep
  <1>3. ASSUME HostStep(g)
        PROVE  EarlyHost(g)'
    <2>1. ASSUME NEW a \in Asks, NEW pool \in BOOLEAN, Create(g, a, pool)
          PROVE  EarlyHost(g)'
      <3>1. row'[g].status \in Preparing /\ prov[g] = "none" /\ prov'[g] = "start"
        <4>1. row[g].status = "unborn" /\ prov[g] \in ProvPc
          BY <2>1 DEF Create, TypeOK
        <4>2. prov[g] = "none"
          BY <1>0, <4>1 DEF Allowed, ProvPc, Running
        <4> QED
          BY <2>1, <4>2 DEF Create, TypeOK, Preparing
      <3> QED
        BY <1>0, <2>1, <3>1 DEF Create, EarlyHost
    <2>2. CASE StartNetwork(g)
      BY <1>0, <2>2, CommitEffect DEF StartNetwork, Early, EarlyHost, Preparing, Row, Exists
    <2>3. CASE PutSecrets(g) \/ StepFails(g)
      BY <1>0, <2>3 DEF PutSecrets, StepFails, Early, EarlyHost, TypeOK
    <2>4. CASE RequestVM(g)
      <3>1. Exists(g)
        BY <1>0, <2>4, CommitEffect DEF RequestVM, Early, EarlyHost, Exists, Preparing
      <3>2. row'[g].status = "creating_vm" /\ prov'[g] = "creating"
        BY <1>0, <2>4, <3>1, CommitEffect DEF RequestVM, Row
      <3>3. g \notin unheard'
        BY <1>0, <2>4, CommitEffect DEF RequestVM, EarlyHost
      <3> QED
        BY <3>2, <3>3 DEF Preparing, EarlyHost
    <2>5. CASE RecordVM(g)
      <3>1. call'[g] = "ok" /\ prov'[g] \in {"wait", "scan", "dead"} /\ g \notin unheard'
        BY <1>0, <2>5 DEF RecordVM, Commit, EarlyHost, TypeOK
      <3> QED
        BY <3>1 DEF Early, EarlyHost
    <2>6. CASE RecordDevice(g) \/ Activate(g) \/ Stamp(g) \/ MarkFailed(g)
      <3>1. prov[g] \in {"wait", "scan", "stamp", "failed"} /\ UNCHANGED <<call, unheard>>
        BY <2>6 DEF RecordDevice, Activate, Stamp, MarkFailed, Commit
      <3>2. /\ prov'[g] \in {"scan", "stamp", "done", "dead"}
            /\ prov[g] = "failed" => prov'[g] \in {"done", "dead"}
        BY <2>6 DEF RecordDevice, Activate, Stamp, MarkFailed, Commit, TypeOK
      <3> QED
        BY <1>0, <3>1, <3>2 DEF Early, EarlyHost
    <2>7. CASE ProviderAnswers(g)
      BY <1>0, <2>7 DEF ProviderAnswers, Early, EarlyHost, TypeOK
    <2>8. CASE Die(g)
      BY <1>0, <2>8 DEF Die, Early, EarlyHost, TypeOK
    <2>9. CASE DeviceJoins(g)
      BY <1>1, <2>9 DEF DeviceJoins
    <2>10. ASSUME NEW a \in Asks, Renew(g, a)
          PROVE  UNCHANGED <<prov, call, unheard>> /\ row'[g].status = row[g].status
      BY <1>0, <2>10 DEF Renew, TypeOK, Row
    <2>11. CASE Release(g)
      BY <1>1, <2>11, ReleaseEffect
    <2>12. CASE LoserDies(g)
      BY <1>1, <2>12 DEF LoserDies
    <2> QED
      BY <1>1, <1>3, <2>1, <2>2, <2>3, <2>4, <2>5, <2>6, <2>7, <2>8, <2>9, <2>10,
         <2>11, <2>12
      DEF HostStep, Provision
  <1>4. ASSUME NEW q \in Request, NEW h \in Host, ClaimStep(q, h)
        PROVE  UNCHANGED <<prov, call, unheard>> /\ row'[g].status = row[g].status
    <2>1. CASE Claim(q, h)
      BY <1>0, <2>1 DEF Claim, TypeOK, Row
    <2>2. CASE UNCHANGED <<row, prov, call, unheard>>
      BY <2>2
    <2> QED
      BY <1>4, <2>1, <2>2 DEF ClaimStep, SelectCandidate, ClaimFails
  <1>5. ASSUME NEW t \in Task, NEW h \in Host, DropRow(t, h)
        PROVE  EarlyHost(g)'
    <2>1. CASE g # h
      BY <1>1, <1>5, <2>1 DEF DropRow, TypeOK
    <2>2. CASE g = h
      <3>1. ~Early(g)
        BY <1>5, <2>2 DEF DropRow, At, OrphanInv, OrphanTask, TearingDown
      <3> QED
        BY <1>0, <1>5, <3>1 DEF DropRow, Early, EarlyHost
    <2> QED
      BY <2>1, <2>2
  <1>6. ASSUME NEW t \in Task, NEW h \in Host, CommitUnlink(t, h)
        PROVE  UNCHANGED <<prov, call, unheard>> /\ row'[g].status = row[g].status
    BY <1>0, <1>6 DEF CommitUnlink, TypeOK, Row
  <1>7. CASE UNCHANGED <<row, prov, call, unheard>>
    BY <1>1, <1>7
  <1>8. ASSUME NEW h \in Host, HostStep(h)
        PROVE  EarlyHost(g)'
    <2>1. CASE g = h
      BY <1>3, <1>8, <2>1
    <2>2. CASE g # h
      BY <1>0, <1>2, <1>8, <2>2 DEF Early, EarlyHost
    <2> QED
      BY <2>1, <2>2
  <1>9. ASSUME NEW t \in Task, TaskStep(t)
        PROVE  EarlyHost(g)'
    BY <1>9, <1>1, <1>5, <1>6, <1>7
    DEF TaskStep, Select, Teardown, Begin, ReleaseDevice, DeleteSecrets, DestroyVM, Abort
  <1> QED
    BY <1>1, <1>4, <1>7, <1>8, <1>9 DEF Next, Tick, vars

\* The clock stands still for an early coroutine when its bound is reached.
LEMMA ClockMoves ==
    ASSUME TypeOK, [Next]_vars, NEW g \in Host
    PROVE  \/ now' = now
           \/ now' = now + 1 /\ (InFlight(g) => now < row[g].created + ProvisionBound)
  BY DEF Next, HostStep, Provision, StartNetwork, PutSecrets, RequestVM, RecordVM, RecordDevice,
         Activate, Stamp, StepFails, MarkFailed, Create, ProviderAnswers, DeviceJoins, Die,
         Renew, Release, LoserDies,
         ClaimStep, SelectCandidate, Claim, ClaimFails, TaskStep, Select, Teardown, Begin,
         ReleaseDevice, CommitUnlink, DeleteSecrets, DestroyVM, DropRow, Abort, Tick, vars

LEMMA OrphanHostStep ==
    ASSUME TypeOK, TypeOK', Stages, TaskHosts, OrphanInv, [Next]_vars, NEW g \in Host
    PROVE  OrphanHost(g)'
  <1>0. /\ row[g] \in Row /\ row'[g] \in Row /\ now \in Nat /\ now' \in Nat
        /\ OrphanHost(g)
    BY DEF TypeOK, OrphanInv
  <1>1. RowMove(g)
    BY RowMoves
  <1>2. EarlyHost(g)'
    BY EarlyStaysPreparing
  <1>3. ASSUME row'[g].status \in Preparing
        PROVE  row'[g].expires \in Nat /\ row'[g].expires >= row'[g].created + Grace
    BY <1>0, <1>1, <1>3 DEF RowMove, OrphanHost
  <1>4. ASSUME Early(g)'
        PROVE  now' <= row'[g].created + ProvisionBound
    <2>1. CASE row[g].status = "unborn"
      BY <1>0, <1>1, <1>2, <1>4, <2>1 DEF RowMove, Row, Preparing, EarlyHost
    <2>2. CASE row[g].status # "unborn"
      <3>1. Early(g)
        BY <1>4, <2>2, EarlyMoves
      <3>2. now <= row[g].created + ProvisionBound /\ row'[g].created = row[g].created
        BY <1>0, <1>1, <1>2, <1>4, <2>2, <3>1 DEF RowMove, OrphanHost, EarlyHost
      <3>3. InFlight(g)
        BY <3>1 DEF Early, InFlight, Running
      <3> QED
        BY <1>0, <3>2, <3>3, ClockMoves DEF Row
    <2> QED
      BY <2>1, <2>2
  <1> QED
    BY <1>2, <1>3, <1>4 DEF OrphanHost

\* A delete passes its guards only on a host that nothing will give a secret or a
\* VM any more: the safety TTL of an early host is never over.
LEMMA OrphanTaskStep ==
    ASSUME ProvisionBound < Grace,
           TypeOK, TypeOK', Stages, TaskHosts, OrphanInv, [Next]_vars, NEW t \in Task
    PROVE  OrphanTask(t)'
  <1> SUFFICES ASSUME TearingDown(t)' PROVE OrphanTask(t)'
    BY DEF OrphanTask
  <1>a. /\ task[t].pc # "idle" /\ task'[t].host = task[t].host
        /\ task[t].host \in Host /\ row[task[t].host].status # "unborn"
    <2>1. task'[t].pc \notin {"idle", "picked"}
      BY DEF TearingDown
    <2> QED
      BY <2>1, TaskMoves DEF TaskHosts, TypeOK
  <1>b. PICK g \in Host : g = task[t].host
    BY <1>a
  <1>0. /\ task[t].pc # "idle" /\ g = task[t].host /\ g = task'[t].host
        /\ row[g].status # "unborn" /\ now \in Nat /\ row[g] \in Row
    BY <1>a, <1>b DEF TypeOK
  <1>1. ~Early(g) /\ (task'[t].pc \in {"destroy", "drop"} => g \notin secret')
        /\ (task'[t].pc = "drop" => g \notin vm' \ unheard')
    <2>1. CASE task'[t] = task[t]
      BY <1>0, <2>1, EarlyMoves DEF OrphanInv, OrphanTask, TearingDown
    <2>2. ASSUME NEW h \in Host, Begin(t, h), task'[t] # Idle
          PROVE  ~Early(g) /\ task'[t].pc \notin {"destroy", "drop"}
      <3>1. h = g /\ ~Spared(task[t].kind, g) /\ task'[t].pc \in {"release", "secrets"}
        BY <1>0, <2>2 DEF Begin, At, TypeOK, FirstTeardown
      <3>2. CASE row[g].status \in Preparing
        <4>1. row[g].expires # Never /\ ~(row[g].expires > now)
          BY <3>1, <3>2 DEF Spared, Unexpired
        <4>2. OrphanHost(g)
          BY <1>0 DEF OrphanInv
        <4> QED
          BY <1>0, <3>1, <3>2, <4>1, <4>2 DEF OrphanHost, Row
      <3>3. CASE row[g].status \notin Preparing
        BY <1>0, <3>1, <3>3 DEF OrphanInv, OrphanHost, EarlyHost
      <3> QED
        BY <3>2, <3>3
    <2>3. ASSUME NEW h \in Host, ReleaseDevice(t, h) \/ CommitUnlink(t, h)
          PROVE  ~Early(g) /\ task'[t].pc \notin {"destroy", "drop"}
      BY <1>0, <2>3 DEF ReleaseDevice, CommitUnlink, At, Advance, TypeOK, OrphanInv, OrphanTask,
                        TearingDown
    <2>4. ASSUME NEW h \in Host, DeleteSecrets(t, h)
          PROVE  ~Early(g) /\ task'[t].pc = "destroy" /\ g \notin secret'
      BY <1>0, <2>4 DEF DeleteSecrets, At, Advance, TypeOK, OrphanInv, OrphanTask, TearingDown
    <2>5. ASSUME NEW h \in Host, DestroyVM(t, h)
          PROVE  ~Early(g) /\ task'[t].pc = "drop" /\ g \notin secret' /\ g \notin vm'
      BY <1>0, <2>5 DEF DestroyVM, At, Advance, TypeOK, OrphanInv, OrphanTask, TearingDown
    <2>6. ASSUME NEW h \in Host, DropRow(t, h)
          PROVE  task'[t] = Idle
      BY <2>6 DEF DropRow, TypeOK
    <2>7. ASSUME NEW h \in Host, NEW k \in Kind, Select(t, k, h)
          PROVE  FALSE
      BY <1>0, <2>7 DEF Select
    <2>8. CASE Abort(t)
      BY <2>8 DEF Abort, TypeOK, Idle, TearingDown
    <2>9. ASSUME NEW u \in Task \ {t}, TaskStep(u)
          PROVE  task'[t] = task[t]
      BY <2>9 DEF TaskStep, Select, Teardown, Begin, ReleaseDevice, CommitUnlink, DeleteSecrets,
                  DestroyVM, DropRow, Abort, Advance, At, TypeOK
    <2>10. CASE TaskStep(t)
      BY <2>2, <2>3, <2>4, <2>5, <2>6, <2>7, <2>8, <2>10 DEF TaskStep, Teardown, Idle, TearingDown
    <2>11. CASE UNCHANGED task
      BY <2>1, <2>11
    <2> QED
      BY <2>1, <2>9, <2>10, <2>11
      DEF Next, HostStep, Provision, StartNetwork, PutSecrets, RequestVM, RecordVM, RecordDevice,
          Activate, Stamp, StepFails, MarkFailed, Create, ProviderAnswers, DeviceJoins, Die,
          Renew, Release, LoserDies,
          ClaimStep, SelectCandidate, Claim, ClaimFails, Tick, vars
  <1>2. ~Early(g)'
    BY <1>0, <1>1, EarlyMoves
  <1> QED
    BY <1>0, <1>1, <1>2 DEF OrphanTask

LEMMA RowInvariant ==
    ASSUME ProvisionBound < Grace PROVE Spec => []RowInv
  <1>1. Init => RowInv
    <2>1. Init => TypeOK
      BY DEF Init, TypeOK, Unborn, Row, Status, Lease, Never, Default, NoPromise, ProvPc,
             Idle, TaskPc, Kind, NoCandidate
    <2>2. Init => Stages /\ TaskHosts
      BY DEF Init, Stages, TaskHosts, Allowed, Unborn, NoCandidate, Idle
    <2>3. Init => OrphanInv /\ NothingOutlivesRow
      BY DEF Init, OrphanInv, OrphanHost, EarlyHost, OrphanTask, Early, TearingDown, Unborn,
             Idle, Preparing,
             NothingOutlivesRow, Gone
    <2> QED
      BY <2>1, <2>2, <2>3 DEF RowInv
  <1>2. RowInv /\ [Next]_vars => RowInv'
    <2> SUFFICES ASSUME RowInv, [Next]_vars PROVE RowInv'
      OBVIOUS
    <2> USE DEF RowInv
    <2>1. TypeOK'
      BY TypeStep
    <2>2. Stages' /\ TaskHosts'
      BY <2>1, StagesStep, TaskHostsStep
    <2>3. OrphanInv'
      BY <2>1, OrphanHostStep, OrphanTaskStep DEF OrphanInv
    <2>4. ASSUME NEW g \in Host, Gone(g)'
          PROVE  g \notin secret' /\ (g \in vm' => g \in unheard')
      <3>1. CASE Gone(g)
        <4>1. ~Early(g)
          BY <3>1 DEF OrphanInv, OrphanHost, EarlyHost, Gone, Preparing
        <4> QED
          BY <3>1, <4>1, EarlyMoves DEF NothingOutlivesRow
      <3>2. CASE ~Gone(g)
        <4>1. PICK t \in Task : At(t, g, "drop")
          BY <2>1, <2>4, <3>2, RowMoves DEF RowMove, Gone
        <4>2. ~Early(g) /\ g \notin secret /\ g \notin vm \ unheard
          BY <4>1 DEF At, OrphanInv, OrphanTask, TearingDown
        <4> QED
          BY <4>2, EarlyMoves
      <3> QED
        BY <3>1, <3>2
    <2> QED
      BY <2>1, <2>2, <2>3, <2>4 DEF NothingOutlivesRow
  <1> QED
    BY <1>1, <1>2, PTL DEF Spec

\* No stored secret outlives its row, and no VM but one whose create was reported
\* failed before the provider was done with it (mark_failed expires that row at
\* once): for any number of hosts, deletes and claims, on any provider, whatever
\* lease is asked for, as long as a provision and a create call it died with are
\* over before the provisioning grace is.
THEOREM NoOrphans ==
    ASSUME ProvisionBound < Grace
    PROVE  Spec => []NothingOutlivesRow
  <1>1. RowInv => NothingOutlivesRow
    BY DEF RowInv
  <1> QED
    BY <1>1, RowInvariant, PTL

-----------------------------------------------------------------------------
(* A promised lease end stands.                                            *)

LEMMA PromiseUntouched ==
    ASSUME NEW g \in Host, PromiseHost(g),
           row'[g].status = row[g].status, row'[g].expires = row[g].expires,
           row'[g].created = row[g].created, ask'[g] = ask[g], promise'[g] = promise[g],
           prov'[g] \in Running => prov[g] \in Running
    PROVE  PromiseHost(g)'
  BY DEF PromiseHost, Promised, StampMatches

\* A step of another host's coroutine or caller.
LEMMA OtherHost ==
    ASSUME TypeOK, NEW h \in Host, HostStep(h), NEW g \in Host, g # h
    PROVE  /\ row'[g] = row[g] /\ prov'[g] = prov[g] /\ ask'[g] = ask[g]
           /\ promise'[g] = promise[g]
  <1>1. ASSUME NEW a \in Asks, NEW pool \in BOOLEAN, Create(h, a, pool)
        PROVE  /\ row'[g] = row[g] /\ prov'[g] = prov[g] /\ ask'[g] = ask[g]
               /\ promise'[g] = promise[g]
    BY <1>1 DEF Create, TypeOK
  <1>2. CASE Provision(h)
    BY <1>2, CommitEffect
    DEF Provision, StartNetwork, PutSecrets, RequestVM, RecordVM, RecordDevice, Activate, Stamp,
        Answer, StepFails, MarkFailed, TypeOK
  <1>3. ASSUME NEW a \in Asks, ProviderAnswers(h) \/ DeviceJoins(h) \/ Die(h) \/ Renew(h,
  a) \/ Release(h) \/ LoserDies(h)
        PROVE  /\ row'[g] = row[g] /\ prov'[g] = prov[g] /\ ask'[g] = ask[g]
               /\ promise'[g] = promise[g]
    BY <1>3 DEF ProviderAnswers, DeviceJoins, Die, Renew, Release, LoserDies, TypeOK
  <1>4. Asks # {}
    BY DEF Asks
  <1> QED
    BY <1>1, <1>2, <1>3, <1>4 DEF HostStep

LEMMA PromiseStep ==
    ASSUME TypeOK, TypeOK', Stages, TaskHosts, Promises, PoolInv, [Next]_vars, NEW g \in Host
    PROVE  PromiseHost(g)'
  <1>0. /\ PromiseHost(g) /\ row[g] \in Row /\ row[g].status \in Allowed(prov[g])
        /\ row'[g] \in Row
    BY DEF Promises, TypeOK, Stages
  <1>1. ASSUME NEW a \in Asks, NEW pool \in BOOLEAN, Create(g, a, pool)
        PROVE  PromiseHost(g)'
    BY <1>0, <1>1 DEF Create, TypeOK, PromiseHost, Promised, Preparing, Renewable
  <1>2. CASE StartNetwork(g) \/ RequestVM(g)
    <2>1. \/ row' = row
          \/ row[g].status \in Preparing /\ row'[g].status \in Preparing
      <3>1. row[g].status \in Preparing \cup {"gone"}
        BY <1>0, <1>2, CommitEffect DEF StartNetwork, RequestVM, Allowed, Preparing
      <3>2. CASE ~Exists(g)
        BY <1>2, <3>2, CommitEffect DEF StartNetwork, RequestVM
      <3>3. CASE Exists(g)
        BY <1>0, <1>2, <3>1, <3>3, CommitEffect
        DEF StartNetwork, RequestVM, Exists, Preparing, Row
      <3> QED
        BY <3>2, <3>3
    <2>2. promise' = promise /\ ask' = ask /\ (prov'[g] \in Running => prov[g] \in Running)
      BY <1>2, CommitEffect DEF StartNetwork, RequestVM, Running
    <2>3. CASE row' = row
      BY <1>0, <2>2, <2>3, PromiseUntouched
    <2>4. CASE row[g].status \in Preparing /\ row'[g].status \in Preparing
      BY <1>0, <2>2, <2>4 DEF PromiseHost, Promised, Preparing, Renewable
    <2> QED
      BY <2>1, <2>3, <2>4
  <1>3. CASE RecordVM(g)
    <2>1. row[g].status \in {"creating_vm", "gone"}
      BY <1>0, <1>3, CommitEffect DEF RecordVM, Allowed
    <2>2. CASE row[g].status = "creating_vm"
      <3>1. ~Promised(g)'
        BY <1>0, <1>3, <2>2 DEF RecordVM, PromiseHost, Promised, Preparing
      <3> QED
        BY <3>1 DEF PromiseHost
    <2>3. CASE row[g].status = "gone"
      <3>1. row'[g].status = "gone"
        BY <1>3, <2>3 DEF RecordVM, Commit, Exists
      <3> QED
        BY <3>1 DEF PromiseHost, Preparing, Renewable
    <2> QED
      BY <2>1, <2>2, <2>3
  <1>4. CASE RecordDevice(g)
    <2>1. /\ row'[g].status = row[g].status /\ row'[g].expires = row[g].expires
          /\ row'[g].created = row[g].created
      <3>1. CASE Exists(g)
        <4>1. row'[g] = [row[g] EXCEPT !.device = TRUE]
          BY <1>4, <3>1, CommitEffect DEF RecordDevice
        <4> QED
          BY <1>0, <4>1 DEF Row
      <3>2. CASE ~Exists(g)
        BY <1>4, <3>2, CommitEffect DEF RecordDevice
      <3> QED
        BY <3>1, <3>2
    <2>2. promise' = promise /\ ask' = ask /\ (prov'[g] \in Running => prov[g] \in Running)
      BY <1>4, CommitEffect DEF RecordDevice, Running
    <2> QED
      BY <1>0, <2>1, <2>2, PromiseUntouched
  <1>5. CASE Activate(g)
    <2>0. promise' = promise /\ ask' = ask /\ (prov'[g] \in Running => prov[g] \in Running)
      BY <1>5, CommitEffect DEF Activate, Running
    <2>1. row[g].status \in {"bootstrapping", "gone"}
      BY <1>0, <1>5, CommitEffect DEF Activate, Allowed
    <2>2. CASE row[g].status = "bootstrapping"
      <3>1. /\ row'[g].expires = row[g].expires /\ row'[g].created = row[g].created
            /\ row'[g].status = "active"
        BY <1>0, <1>5, <2>2, CommitEffect DEF Activate, Exists, Row
      <3> QED
        BY <1>0, <2>0, <2>2, <3>1 DEF PromiseHost, Promised, Preparing, Renewable, StampMatches
    <2>3. CASE row[g].status = "gone"
      <3>1. row' = row
        BY <1>5, <2>3 DEF Activate, Commit, Exists
      <3> QED
        BY <1>0, <2>0, <3>1, PromiseUntouched
    <2> QED
      BY <2>1, <2>2, <2>3
  <1>6. CASE Stamp(g)
    <2>0. ask' = ask /\ prov'[g] \notin Running
      BY <1>6, CommitEffect DEF Stamp, Running
    <2>1. row[g].status \in {"active", "gone"}
      BY <1>0, <1>6, CommitEffect DEF Stamp, Allowed
    <2>2. CASE row[g].status = "active"
      <3>1. row'[g] = [row[g] EXCEPT !.expires = Stamped(g)]
        BY <1>6, <2>2, CommitEffect DEF Stamp, Exists
      <3>2. row'[g].expires = Stamped(g) /\ row'[g].status = "active"
        BY <1>0, <2>2, <3>1 DEF Row
      <3>3. promise'[g] \in {Stamped(g), promise[g]}
        BY <1>6 DEF Stamp, Answer, TypeOK
      <3>4. Promised(g) => row[g].expires = promise[g] /\ ~StampMatches(g)
        BY <1>0, <1>6, <2>2 DEF PromiseHost, Renewable, Stamp, Commit, Running
      <3>5. Promised(g) => Stamped(g) = promise[g]
        BY <3>4 DEF Stamped
      <3> QED
        BY <2>0, <3>2, <3>3, <3>5 DEF PromiseHost, Promised, Preparing
    <2>3. CASE row[g].status = "gone"
      <3>1. row' = row
        BY <1>6, <2>3 DEF Stamp, Commit, Exists
      <3> QED
        BY <2>3, <3>1 DEF PromiseHost, Preparing, Renewable
    <2> QED
      BY <2>1, <2>2, <2>3
  <1>7. CASE MarkFailed(g)
    <2>1. row[g].status # "unborn"
      BY <1>0, <1>7, CommitEffect DEF MarkFailed, Allowed
    <2>2. row'[g].status \in {"error", "gone"}
      <3>1. CASE Exists(g)
        <4>1. row'[g] = [row[g] EXCEPT !.status = "error", !.expires = now]
          BY <1>7, <3>1, CommitEffect DEF MarkFailed
        <4> QED
          BY <1>0, <4>1 DEF Row
      <3>2. CASE ~Exists(g)
        BY <1>7, <2>1, <3>2, CommitEffect DEF MarkFailed, Exists
      <3> QED
        BY <3>1, <3>2
    <2> QED
      BY <2>2 DEF PromiseHost, Preparing, Renewable
  <1>8. CASE PutSecrets(g) \/ StepFails(g) \/ Die(g) \/ ProviderAnswers(g) \/ DeviceJoins(g)
    <2>1. /\ row' = row /\ ask' = ask /\ promise' = promise
          /\ prov'[g] \in Running => prov[g] \in Running
      BY <1>8 DEF PutSecrets, StepFails, Die, ProviderAnswers, DeviceJoins, TypeOK, Running
    <2> QED
      BY <1>0, <2>1, PromiseUntouched
  <1>9. ASSUME NEW a \in Asks, Renew(g, a)
        PROVE  PromiseHost(g)'
    <2> DEFINE e == LeaseEnd(row[g].created, Resolve(a))
    <2>1. /\ row'[g].expires = e /\ promise'[g] = e /\ row'[g].created = row[g].created
          /\ row'[g].status = row[g].status /\ row[g].status \in Renewable
          /\ ask' = ask /\ prov' = prov /\ NotTheInitial(g, e)
      BY <1>0, <1>9 DEF Renew, TypeOK, Row
    <2> QED
      BY <2>1 DEF PromiseHost, NotTheInitial, StampMatches, Renewable, Preparing
  <1>10. ASSUME NEW q \in Request, Claim(q, g)
         PROVE  PromiseHost(g)'
    <2> DEFINE e == LeaseEnd(row[g].created, Resolve(cand[q].ask))
    <2>1. /\ row'[g].expires = e /\ row'[g].created = row[g].created
          /\ row'[g].status = row[g].status
          /\ ask' = ask /\ prov' = prov /\ NotTheInitial(g, e)
      BY <1>0, <1>10 DEF Claim, TypeOK, Row
    <2>2. row[g].status \in {"active", "gone"}
      BY <1>10 DEF Claim, Stages
    <2>3. CASE promise'[g] = e
      BY <2>1, <2>2, <2>3 DEF PromiseHost, NotTheInitial, StampMatches, Preparing
    <2>4. CASE promise'[g] = promise[g] /\ ~Promised(g)
      BY <2>1, <2>2, <2>4 DEF PromiseHost, Promised, Preparing
    <2>5. promise'[g] \in {e, promise[g]}
      BY <1>10 DEF Claim, Answer, TypeOK
    <2>6. ~Promised(g)
      BY <1>10 DEF Claim, PoolInv, PoolHost
    <2> QED
      BY <2>3, <2>4, <2>5, <2>6
  <1>11. ASSUME NEW q \in Request, NEW h \in Host, Claim(q, h), g # h
         PROVE  PromiseHost(g)'
    BY <1>0, <1>11, PromiseUntouched DEF Claim, Answer, TypeOK
  <1>12. ASSUME NEW t \in Task, NEW h \in Host, CommitUnlink(t, h)
         PROVE  PromiseHost(g)'
    <2>1. /\ row'[g].status = row[g].status /\ row'[g].expires = row[g].expires
          /\ row'[g].created = row[g].created
      BY <1>0, <1>12 DEF CommitUnlink, TypeOK, Row
    <2> QED
      BY <1>0, <1>12, <2>1, PromiseUntouched DEF CommitUnlink
  <1>13. ASSUME NEW t \in Task, NEW h \in Host, DropRow(t, h)
         PROVE  PromiseHost(g)'
    <2>1. CASE g = h
      <3>1. row'[g].status = "gone"
        BY <1>0, <1>13, <2>1 DEF DropRow, TypeOK, Row
      <3> QED
        BY <3>1 DEF PromiseHost, Preparing, Renewable
    <2>2. CASE g # h
      BY <1>0, <1>13, <2>2, PromiseUntouched DEF DropRow, TypeOK
    <2> QED
      BY <2>1, <2>2
  <1>18. CASE Release(g)
    <2>1. CASE Exists(g)
      BY <2>1, <1>18, ReleaseWithdraws DEF PromiseHost, Promised
    <2>2. CASE ~Exists(g)
      BY <1>0, <1>18, <2>2, ReleaseEffect, PromiseUntouched
    <2> QED
      BY <2>1, <2>2
  <1>14. CASE UNCHANGED <<row, ask, prov, promise>>
    BY <1>0, <1>14, PromiseUntouched
  <1>15. ASSUME NEW h \in Host, HostStep(h)
         PROVE  PromiseHost(g)'
    <2>1. CASE g = h
      BY <1>1, <1>2, <1>3, <1>4, <1>5, <1>6, <1>7, <1>8, <1>9, <1>14, <1>15, <1>18, <2>1
      DEF HostStep, Provision, LoserDies
    <2>2. CASE g # h
      BY <1>0, <1>15, <2>2, OtherHost, PromiseUntouched
    <2> QED
      BY <2>1, <2>2
  <1>16. ASSUME NEW q \in Request, NEW h \in Host, ClaimStep(q, h)
         PROVE  PromiseHost(g)'
    BY <1>10, <1>11, <1>14, <1>16 DEF ClaimStep, SelectCandidate, ClaimFails
  <1>17. ASSUME NEW t \in Task, TaskStep(t)
         PROVE  PromiseHost(g)'
    BY <1>12, <1>13, <1>14, <1>17
    DEF TaskStep, Select, Teardown, Begin, ReleaseDevice, DeleteSecrets, DestroyVM, Abort
  <1> QED
    BY <1>14, <1>15, <1>16, <1>17 DEF Next, Tick, vars

\* A row keeps who it is for: its pool mark for good, its claim until a release.
LEMMA RowOwner ==
    ASSUME TypeOK, [Next]_vars, NEW g \in Host, row[g].status # "unborn"
    PROVE  /\ row'[g].pool = row[g].pool
           /\ row[g].claimed => row'[g].claimed \/ Release(g)
           /\ ~row[g].claimed /\ row'[g].claimed => \E q \in Request : Claim(q, g)
  <1> DEFINE Same(r) == r.pool = row[g].pool /\ r.claimed = row[g].claimed
  <1>0. row[g] \in Row /\ row[g].pool \in BOOLEAN /\ row[g].claimed \in BOOLEAN
    BY DEF TypeOK, Row
  <1>1. ASSUME NEW h \in Host, HostStep(h)
        PROVE  Same(row'[g]) \/ (Release(g) /\ row'[g].pool = row[g].pool /\ ~row'[g].claimed)
    <2>1. CASE g # h
      BY <1>1, <2>1, OtherHost
    <2>2. CASE g = h
      <3>1. ASSUME NEW from, NEW updated, NEW to, Commit(g, from, updated, to), Same(updated)
            PROVE  Same(row'[g])
        BY <3>1, CommitEffect
      <3>2. CASE Provision(g)
        <4>1. /\ Same([row[g] EXCEPT !.status = "creating_network"])
              /\ Same([row[g] EXCEPT !.status = "creating_vm"])
              /\ Same([row[g] EXCEPT !.status = "bootstrapping"])
              /\ Same([row[g] EXCEPT !.status = "active"])
          BY <1>0 DEF Row
        <4>2. Same([row[g] EXCEPT !.device = TRUE])
          BY <1>0 DEF Row
        <4>3. Same([row[g] EXCEPT !.expires = Stamped(g)])
          BY <1>0 DEF Row
        <4>4. Same([row[g] EXCEPT !.status = "error", !.expires = now])
          BY <1>0 DEF Row
        <4> HIDE DEF Same
        <4>5. CASE StartNetwork(g) \/ RequestVM(g) \/ RecordVM(g) \/ Activate(g)
          BY <3>1, <4>1, <4>5 DEF StartNetwork, RequestVM, RecordVM, Activate
        <4>6. CASE RecordDevice(g) \/ Stamp(g) \/ MarkFailed(g)
          BY <3>1, <4>2, <4>3, <4>4, <4>6 DEF RecordDevice, Stamp, MarkFailed
        <4>7. CASE PutSecrets(g) \/ StepFails(g)
          BY <4>7 DEF PutSecrets, StepFails, Same
        <4> QED
          BY <3>2, <4>5, <4>6, <4>7 DEF Provision
      <3>3. CASE ProviderAnswers(g) \/ DeviceJoins(g) \/ Die(g) \/ LoserDies(g)
        BY <3>3 DEF ProviderAnswers, DeviceJoins, Die, LoserDies
      <3>4. ASSUME NEW a \in Asks, Renew(g, a)
            PROVE  Same(row'[g])
        BY <1>0, <3>4 DEF Renew, TypeOK, Row
      <3>5. ASSUME NEW a \in Asks, NEW pool \in BOOLEAN, Create(g, a, pool)
            PROVE  FALSE
        BY <3>5 DEF Create
      <3>6. CASE Release(g)
        <4>1. row'[g].pool = row[g].pool /\ row'[g].claimed \in {row[g].claimed, FALSE}
          <5>1. row'[g].pool = row[g].pool
            BY <3>6, ReleaseEffect
          <5>2. CASE Exists(g)
            <6>1. row'[g] = Released(g)
              BY <3>6, <5>2, ReleaseEffect
            <6>2. Released(g) \in Row /\ ~Released(g).claimed
              BY ReleasedIsRow
            <6> QED
              BY <5>1, <6>1, <6>2 DEF Row
          <5>3. CASE ~Exists(g)
            BY <3>6, <5>1, <5>3, ReleaseEffect
          <5> QED
            BY <5>2, <5>3
        <4> QED
          BY <1>0, <3>6, <4>1
      <3> QED
        BY <1>1, <2>2, <3>2, <3>3, <3>4, <3>5, <3>6 DEF HostStep
    <2> QED
      BY <2>1, <2>2
  <1>2. ASSUME NEW q \in Request, NEW h \in Host, ClaimStep(q, h)
        PROVE  Same(row'[g]) \/ (Claim(q, g) /\ row'[g].pool = row[g].pool /\ row'[g].claimed)
    <2>1. CASE Claim(q, h)
      BY <1>0, <2>1 DEF Claim, TypeOK, Row
    <2> QED
      BY <1>2, <2>1 DEF ClaimStep, SelectCandidate, ClaimFails
  <1>3. ASSUME NEW t \in Task, TaskStep(t)
        PROVE  Same(row'[g])
    <2>1. ASSUME NEW h \in Host, CommitUnlink(t, h)
          PROVE  Same(row'[g])
      BY <1>0, <2>1 DEF CommitUnlink, TypeOK, Row
    <2>2. ASSUME NEW h \in Host, DropRow(t, h)
          PROVE  Same(row'[g])
      BY <1>0, <2>2 DEF DropRow, TypeOK, Row
    <2>3. CASE UNCHANGED row
      BY <2>3
    <2> HIDE DEF Same
    <2> QED
      BY <1>3, <2>1, <2>2, <2>3
      DEF TaskStep, Select, Teardown, Begin, ReleaseDevice, DeleteSecrets, DestroyVM, Abort
  <1>4. CASE UNCHANGED row
    BY <1>4
  <1> HIDE DEF Same
  <1>5. \/ Same(row'[g])
        \/ Release(g) /\ row'[g].pool = row[g].pool /\ ~row'[g].claimed
        \/ \E q \in Request : Claim(q, g) /\ row'[g].pool = row[g].pool /\ row'[g].claimed
    <2>1. CASE \E q \in Request, h \in Host : ClaimStep(q, h)
      BY <1>2, <2>1
    <2>2. CASE UNCHANGED row
      BY <1>4, <2>2 DEF Same
    <2>3. CASE \E h \in Host : HostStep(h)
      BY <1>1, <2>3
    <2>4. CASE \E t \in Task : TaskStep(t)
      BY <1>3, <2>4
    <2> QED
      BY <2>1, <2>2, <2>3, <2>4 DEF Next, Tick, vars
  <1> QED
    BY <1>0, <1>5 DEF Same

\* A pool member that nobody claimed is promised to nobody, whatever was released.
LEMMA PoolStep ==
    ASSUME TypeOK, TypeOK', Stages, TaskHosts, Promises, PoolInv, [Next]_vars, NEW g \in Host
    PROVE  PoolHost(g)'
  <1>0. PoolHost(g) /\ PromiseHost(g) /\ row[g] \in Row
    BY DEF PoolInv, Promises, TypeOK
  <1>1. SUFFICES ASSUME row'[g].pool, ~row'[g].claimed PROVE ~Promised(g)'
    BY DEF PoolHost
  <1>2. CASE Release(g)
    <2>1. CASE Exists(g)
      BY <1>2, <2>1, ReleaseWithdraws
    <2>2. CASE ~Exists(g)
      BY <1>0, <1>1, <1>2, <2>2, ReleaseEffect DEF PoolHost, Promised
    <2> QED
      BY <2>1, <2>2
  <1>3. CASE ~Release(g)
    <2>1. ~Promised(g)
      <3>1. CASE row[g].status = "unborn"
        BY <1>0, <3>1 DEF PromiseHost
      <3>2. CASE row[g].status # "unborn"
        BY <1>0, <1>1, <1>3, <3>2, RowOwner DEF PoolHost
      <3> QED
        BY <3>1, <3>2
    <2>2. ASSUME NEW h \in Host, HostStep(h)
          PROVE  promise'[g] = promise[g]
      <3>1. CASE h # g
        BY <2>2, <3>1, OtherHost
      <3>2. ASSUME NEW a \in Asks, h = g, Renew(h, a)
            PROVE  FALSE
        <4>1. row[g].status # "unborn" /\ (row[g].pool => row[g].claimed)
          BY <3>2 DEF Renew, Renewable
        <4> QED
          BY <1>1, <1>3, <4>1, RowOwner
      <3>3. CASE h = g /\ Stamp(h)
        <4>1. CASE Exists(g)
          <5>1. row[g].pool
            BY <1>1, <4>1, RowOwner DEF Exists
          <5> QED
            BY <3>3, <5>1 DEF Stamp
        <4>2. CASE ~Exists(g)
          BY <3>3, <4>2 DEF Stamp
        <4> QED
          BY <4>1, <4>2
      <3> QED
        BY <1>3, <2>2, <3>1, <3>2, <3>3
        DEF HostStep, Create, Provision, StartNetwork, PutSecrets, RequestVM, RecordVM,
            RecordDevice, Activate, StepFails, MarkFailed, ProviderAnswers, DeviceJoins, Die,
            LoserDies
    <2>3. ASSUME NEW q \in Request, NEW h \in Host, Claim(q, h)
          PROVE  promise'[g] = promise[g]
      <3>1. CASE h # g
        BY <2>3, <3>1 DEF Claim, Answer, TypeOK
      <3>2. CASE h = g
        <4>1. row'[g].claimed = TRUE
          BY <1>0, <2>3, <3>2 DEF Claim, TypeOK, Row
        <4> QED
          BY <1>1, <4>1
      <3> QED
        BY <3>1, <3>2
    <2>4. promise'[g] = promise[g]
      BY <2>2, <2>3
      DEF Next, ClaimStep, SelectCandidate, ClaimFails, TaskStep, Select, Teardown, Begin,
          ReleaseDevice, CommitUnlink, DeleteSecrets, DestroyVM, DropRow, Abort, Tick, vars
    <2> QED
      BY <2>1, <2>4 DEF Promised
  <1> QED
    BY <1>2, <1>3

\* A candidate is a pool member for good.
LEMMA CandidateStep ==
    ASSUME TypeOK, TypeOK', Stages, PoolInv, [Next]_vars,
           NEW q \in Request, cand'[q].host \in Host
    PROVE  row'[cand'[q].host].pool
  <1>1. CASE cand'[q] = cand[q]
    <2>1. cand[q].host \in Host /\ row[cand[q].host].pool
          /\ row[cand[q].host].status # "unborn"
      BY <1>1 DEF PoolInv, Stages
    <2> QED
      BY <1>1, <2>1, RowOwner
  <1>2. CASE cand'[q] # cand[q]
    <2>1. ASSUME NEW p \in Request, NEW h \in Host, NEW a \in Asks, SelectCandidate(p, h, a)
          PROVE  cand'[q].host = h /\ row[h].pool /\ row' = row
      BY <1>2, <2>1 DEF SelectCandidate, TypeOK
    <2>2. ASSUME NEW p \in Request, NEW h \in Host, Claim(p, h) \/ ClaimFails(p, h)
          PROVE  cand'[q] = NoCandidate
      BY <1>2, <2>2 DEF Claim, ClaimFails, TypeOK
    <2>3. NoCandidate.host \notin Host
      BY DEF NoCandidate
    <2> QED
      BY <1>2, <2>1, <2>2, <2>3
      DEF Next, HostStep, Provision, StartNetwork, PutSecrets, RequestVM, RecordVM, RecordDevice,
          Activate, Stamp, StepFails, MarkFailed, Create, ProviderAnswers, DeviceJoins, Die,
          Renew, Release, LoserDies, ClaimStep, TaskStep, Select, Teardown, Begin,
          ReleaseDevice, CommitUnlink, DeleteSecrets, DestroyVM, DropRow, Abort, Tick, vars
  <1> QED
    BY <1>1, <1>2

LEMMA PromiseInvInit == Init => PromiseInv
  <1>1. Init => TypeOK
    BY DEF Init, TypeOK, Unborn, Row, Status, Lease, Never, Default, NoPromise, ProvPc,
           Idle, TaskPc, Kind, NoCandidate
  <1>2. Init => Stages /\ TaskHosts
    BY DEF Init, Stages, TaskHosts, Allowed, Unborn, NoCandidate, Idle
  <1>3. Init => Promises
    BY NoLeaseEnd DEF Init, Promises, PromiseHost, Promised, Unborn, Renewable
  <1>4. Init => PoolInv
    BY DEF Init, PoolInv, PoolHost, Unborn, NoCandidate
  <1> QED
    BY <1>1, <1>2, <1>3, <1>4 DEF PromiseInv

LEMMA PromiseInvStep == PromiseInv /\ [Next]_vars => PromiseInv'
  <1> SUFFICES ASSUME PromiseInv, [Next]_vars PROVE PromiseInv'
    OBVIOUS
  <1> USE DEF PromiseInv
  <1>1. TypeOK'
    BY TypeStep
  <1>2. Stages' /\ TaskHosts'
    BY <1>1, StagesStep, TaskHostsStep
  <1>3. Promises'
    BY <1>1, PromiseStep DEF Promises
  <1>4. PoolInv'
    BY <1>1, PoolStep, CandidateStep DEF PoolInv
  <1> QED
    BY <1>1, <1>2, <1>3, <1>4

\* The lease end that a renewal, a warm claim or a create returned is the row's for
\* as long as the host is usable, unless the request that lost its idempotency key
\* releases the host (_release_idempotency_loser overwrites whatever it finds): in
\* particular the TTL stamp of create_host spares every renewal, on every provider
\* and for every interleaving.
THEOREM PromisesAreKept == Spec => []PromiseKept
  <1>1. PromiseInv => PromiseKept
    BY DEF PromiseInv, Promises, PromiseHost, PromiseKept
  <1> QED
    BY <1>1, PromiseInvInit, PromiseInvStep, PTL DEF Spec

-----------------------------------------------------------------------------
(* Outside the tailnet the row lock is held from the guards to the end.    *)

\* Nothing but the delete that holds a row's lock writes the row.
LEMMA LockedRow ==
    ASSUME TypeOK, TaskHosts, LockInv, [Next]_vars,
           NEW t \in Task, task[t].holds, NEW g \in Host, task[t].host = g,
           row[g].status # "unborn"
    PROVE  row'[g] = row[g] \/ task'[t] = Idle
  <1>1. ~Unlocked(g)
    BY DEF Unlocked
  <1>2. ASSUME NEW h \in Host, HostStep(h)
        PROVE  row'[g] = row[g]
    <2>1. CASE g # h
      BY <1>2, <2>1, OtherHost
    <2>2. CASE g = h
      <3>1. CASE Provision(g)
        BY <1>1, <3>1
        DEF Provision, StartNetwork, PutSecrets, RequestVM, RecordVM, RecordDevice, Activate,
            Stamp, StepFails, MarkFailed, Commit
      <3>2. ASSUME NEW a \in Asks, Renew(g, a)
            PROVE  FALSE
        BY <1>1, <3>2 DEF Renew
      <3>3. ~Release(g)
        BY <1>1 DEF Release
      <3> QED
        BY <1>2, <2>2, <3>1, <3>2, <3>3
        DEF HostStep, Create, ProviderAnswers, DeviceJoins, Die, LoserDies
    <2> QED
      BY <2>1, <2>2
  <1>3. ASSUME NEW q \in Request, NEW h \in Host, ClaimStep(q, h)
        PROVE  row'[g] = row[g]
    BY <1>1, <1>3 DEF ClaimStep, SelectCandidate, Claim, ClaimFails, TypeOK
  <1>4. ASSUME NEW u \in Task, TaskStep(u)
        PROVE  row'[g] = row[g] \/ task'[t] = Idle
    <2>1. ASSUME NEW h \in Host, DropRow(u, h)
          PROVE  row'[g] = row[g] \/ task'[t] = Idle
      <3>1. CASE h = g
        BY <1>1, <2>1, <3>1 DEF DropRow, At, LockInv, LockTask, TypeOK
      <3>2. CASE h # g
        BY <2>1, <3>2 DEF DropRow, TypeOK
      <3> QED
        BY <3>1, <3>2
    <2>2. ASSUME NEW h \in Host, CommitUnlink(u, h)
          PROVE  FALSE
      BY <2>2 DEF CommitUnlink, At, LockInv, LockTask, TearingDown
    <2> QED
      BY <1>4, <2>1, <2>2
      DEF TaskStep, Select, Teardown, Begin, ReleaseDevice, DeleteSecrets, DestroyVM, Abort
  <1> QED
    BY <1>2, <1>3, <1>4 DEF Next, Tick, vars

\* The clock never goes back.
LEMMA Later ==
    ASSUME TypeOK, [Next]_vars PROVE now' \in Nat /\ now' >= now
  <1>1. now' = now \/ now' = now + 1
    BY DEF Next, HostStep, Provision, StartNetwork, PutSecrets, RequestVM, RecordVM,
         RecordDevice, Activate, Stamp, StepFails, MarkFailed, Create, ProviderAnswers,
         DeviceJoins,
         Die, Renew, Release, LoserDies, ClaimStep, SelectCandidate, Claim, ClaimFails,
         TaskStep, Select, Teardown,
         Begin, ReleaseDevice, CommitUnlink, DeleteSecrets, DestroyVM, DropRow, Abort, Tick, vars
  <1> QED
    BY <1>1 DEF TypeOK

\* How one delete moves when there is no device to release.
TaskMove(t) ==
    \/ task'[t] = task[t]
    \/ task'[t] = Idle
    \/ \E h \in Host, k \in Kind :
         /\ task'[t] = [pc |-> "picked", host |-> h, kind |-> k, holds |-> FALSE]
         /\ task[t].pc = "idle" /\ Selected(k, h)
    \/ /\ task[t].pc = "picked" /\ task'[t].pc = "secrets" /\ task'[t].holds
       /\ task'[t].host = task[t].host /\ task'[t].kind = task[t].kind
       /\ Unlocked(task[t].host) /\ ~Spared(task[t].kind, task[t].host) /\ row' = row
    \/ /\ task[t].pc \in {"secrets", "destroy"} /\ task'[t].pc \in {"destroy", "drop"}
       /\ task'[t].host = task[t].host /\ task'[t].kind = task[t].kind
       /\ task'[t].holds = task[t].holds

LEMMA TaskMoveStep ==
    ASSUME ~Tailnet, TypeOK, LockInv, [Next]_vars, NEW t \in Task
    PROVE  TaskMove(t) /\ (task'[t] # task[t] => \A u \in Task \ {t} : task'[u] = task[u])
  <1>1. ASSUME NEW u \in Task, TaskStep(u)
        PROVE  \A v \in Task \ {u} : task'[v] = task[v]
    BY <1>1 DEF TaskStep, Select, Teardown, Begin, ReleaseDevice, CommitUnlink, DeleteSecrets,
                DestroyVM, DropRow, Abort, Advance, TypeOK
  <1>2. ASSUME TaskStep(t)
        PROVE  TaskMove(t)
    <2>1. ASSUME NEW h \in Host, NEW k \in Kind, Select(t, k, h)
          PROVE  TaskMove(t)
      BY <2>1 DEF Select, TypeOK, TaskMove
    <2>2. ASSUME NEW h \in Host, Begin(t, h)
          PROVE  TaskMove(t)
      <3>1. task[t].host = h /\ task[t].pc = "picked" /\ Unlocked(h) /\ row' = row
        BY <2>2 DEF Begin, At
      <3>2. CASE Spared(task[t].kind, h)
        BY <2>2, <3>2 DEF Begin, TypeOK, TaskMove
      <3>3. CASE ~Spared(task[t].kind, h)
        <4>1. task'[t] = [task[t] EXCEPT !.pc = "secrets", !.holds = TRUE]
          BY <2>2, <3>3 DEF Begin, TypeOK, FirstTeardown
        <4>2. /\ task'[t].pc = "secrets" /\ task'[t].host = h /\ task'[t].kind = task[t].kind
              /\ task'[t].holds
          BY <3>1, <4>1 DEF TypeOK
        <4> QED
          BY <3>1, <3>3, <4>2 DEF TaskMove
      <3> QED
        BY <3>2, <3>3
    <2>3. ASSUME NEW h \in Host, ReleaseDevice(t, h) \/ CommitUnlink(t, h)
          PROVE  FALSE
      BY <2>3 DEF ReleaseDevice, CommitUnlink, At, LockInv, LockTask, TearingDown
    <2>4. ASSUME NEW h \in Host, DeleteSecrets(t, h) \/ DestroyVM(t, h)
          PROVE  TaskMove(t)
      BY <2>4 DEF DeleteSecrets, DestroyVM, At, Advance, TypeOK, TaskMove
    <2>5. ASSUME NEW h \in Host, DropRow(t, h)
          PROVE  TaskMove(t)
      BY <2>5 DEF DropRow, TypeOK, TaskMove
    <2>6. CASE Abort(t)
      BY <2>6 DEF Abort, TypeOK, TaskMove
    <2> QED
      BY <1>2, <2>1, <2>2, <2>3, <2>4, <2>5, <2>6 DEF TaskStep, Teardown
  <1>3. CASE task' = task
    BY <1>3 DEF TaskMove
  <1>4. ASSUME NEW u \in Task, TaskStep(u)
        PROVE  TaskMove(t) /\ (task'[t] # task[t] => \A v \in Task \ {t} : task'[v] = task[v])
    <2>1. CASE u = t
      BY <1>1, <1>2, <1>4, <2>1
    <2>2. CASE u # t
      BY <1>1, <1>4, <2>2 DEF TaskMove
    <2> QED
      BY <2>1, <2>2
  <1> QED
    BY <1>3, <1>4
    DEF Next, HostStep, Provision, StartNetwork, PutSecrets, RequestVM, RecordVM, RecordDevice,
        Activate, Stamp, StepFails, MarkFailed, Create, ProviderAnswers, DeviceJoins, Die,
        Renew, Release, LoserDies,
        ClaimStep, SelectCandidate, Claim, ClaimFails, Tick, vars

\* A row lock has one holder.
LEMMA OneHolder ==
    ASSUME ~Tailnet, TypeOK, LockInv, [Next]_vars, NEW t \in Task, NEW u \in Task \ {t},
           task'[t].holds, task'[u].holds
    PROVE  task'[t].host # task'[u].host
  <1>1. \A v \in Task : TaskMove(v) /\ (task'[v] # task[v] =>
                           \A w \in Task \ {v} : task'[w] = task[w])
    BY TaskMoveStep
  <1> DEFINE Kept(v) == task[v].holds /\ task'[v].host = task[v].host
             Taken(v) == /\ Unlocked(task[v].host) /\ task'[v].host = task[v].host
                         /\ task'[v] # task[v]
  <1>2. \A v \in Task : task'[v] # Idle /\ task'[v].holds => Kept(v) \/ Taken(v)
    <2> SUFFICES ASSUME NEW v \in Task, task'[v] # Idle, task'[v].holds
                 PROVE  Kept(v) \/ Taken(v)
      OBVIOUS
    <2>1. TaskMove(v)
      BY <1>1
    <2>2. CASE task'[v] = task[v]
      BY <2>2
    <2>3. CASE task[v].pc = "picked" /\ task'[v].pc = "secrets"
      BY <2>1, <2>3 DEF TaskMove
    <2>4. CASE task[v].pc \in {"secrets", "destroy"} /\ task'[v].pc \in {"destroy", "drop"}
      BY <2>1, <2>4 DEF TaskMove
    <2>5. ASSUME NEW h \in Host, NEW k \in Kind,
                 task'[v] = [pc |-> "picked", host |-> h, kind |-> k, holds |-> FALSE]
          PROVE  FALSE
      BY <2>5
    <2> QED
      BY <2>1, <2>2, <2>3, <2>4, <2>5 DEF TaskMove
  <1>3. task'[t] # Idle /\ task'[u] # Idle
    BY DEF Idle
  <1>4. CASE task[t].holds /\ task[u].holds
    <2>1. task[t].host # task[u].host
      BY <1>4 DEF LockInv, LockTask
    <2> QED
      BY <1>2, <1>3, <2>1
  <1>5. CASE ~task[t].holds
    <2>1. Unlocked(task[t].host) /\ task'[t].host = task[t].host /\ task'[u] = task[u]
      BY <1>1, <1>2, <1>3, <1>5
    <2> QED
      BY <2>1 DEF Unlocked
  <1>6. CASE ~task[u].holds
    <2>1. Unlocked(task[u].host) /\ task'[u].host = task[u].host /\ task'[t] = task[t]
      BY <1>1, <1>2, <1>3, <1>6
    <2> QED
      BY <2>1 DEF Unlocked
  <1> QED
    BY <1>4, <1>5, <1>6

LEMMA LockStep ==
    ASSUME ~Tailnet, TypeOK, TypeOK', TaskHosts, LockInv, [Next]_vars, NEW t \in Task
    PROVE  LockTask(t)'
  <1>1. TaskMove(t)
    BY TaskMoveStep
  <1>2. now \in Nat /\ now' \in Nat /\ now' >= now
    BY Later DEF TypeOK
  <1>3. LockTask(t) /\ task[t] \in [pc: TaskPc, host: Host \cup {NoHost}, kind: Kind,
  holds: BOOLEAN]
    BY DEF LockInv, TypeOK
  <1>4. \A u \in Task \ {t} : task'[t].holds /\ task'[u].holds => task'[t].host # task'[u].host
    BY OneHolder
  <1>5. task[t].pc # "idle" => task[t].host \in Host /\ row[task[t].host].status # "unborn"
    BY DEF TaskHosts
  <1>6. \A h \in Host : row[h] \in Row /\ (~Unexpired(h) /\ row'[h] = row[h] => ~Unexpired(h)')
    <2> SUFFICES ASSUME NEW h \in Host
                 PROVE  row[h] \in Row /\ (~Unexpired(h) /\ row'[h] = row[h] => ~Unexpired(h)')
      OBVIOUS
    <2>1. row[h] \in Row /\ (row[h].expires \in Nat \/ row[h].expires = Never)
      BY DEF TypeOK, Row, Lease
    <2>2. ASSUME ~Unexpired(h), row'[h] = row[h]
          PROVE  ~Unexpired(h)'
      <3>1. row[h].expires # Never /\ ~(row[h].expires > now)
        BY <2>2 DEF Unexpired
      <3>2. ~(row[h].expires > now')
        BY <1>2, <2>1, <3>1
      <3> QED
        BY <2>2, <3>1, <3>2 DEF Unexpired
    <2> QED
      BY <2>1, <2>2
  <1>7. CASE task'[t] = Idle
    BY <1>7 DEF LockTask, TearingDown, Idle
  <1>8. CASE task'[t] = task[t]
    <2>1. CASE task[t].pc = "idle"
      BY <1>3, <1>4, <1>8, <2>1 DEF LockTask, TearingDown
    <2>2. CASE task[t].pc # "idle"
      <3> DEFINE g == task[t].host
      <3>1. g \in Host /\ row[g].status # "unborn" /\ row'[g].pool = row[g].pool
        BY <1>5, <2>2, RowOwner
      <3>2. CASE TearingDown(t)
        <4>1. row'[g] = row[g] \/ task'[t] = Idle
          BY <1>3, <3>1, <3>2, LockedRow DEF LockTask
        <4>2. row'[g] = row[g]
          BY <1>8, <2>2, <4>1 DEF Idle
        <4> QED
          BY <1>3, <1>4, <1>6, <1>8, <3>1, <3>2, <4>2 DEF LockTask, TearingDown
      <3>3. CASE ~TearingDown(t)
        BY <1>3, <1>4, <1>8, <3>1, <3>3 DEF LockTask, TearingDown
      <3> QED
        BY <3>2, <3>3
    <2> QED
      BY <2>1, <2>2
  <1>9. CASE \E h \in Host, k \in Kind :
                /\ task'[t] = [pc |-> "picked", host |-> h, kind |-> k, holds |-> FALSE]
                /\ task[t].pc = "idle" /\ Selected(k, h)
    <2>1. PICK h \in Host, k \in Kind :
              /\ task'[t] = [pc |-> "picked", host |-> h, kind |-> k, holds |-> FALSE]
              /\ Selected(k, h)
      BY <1>9
    <2>2. k = "shed" => row'[h].pool
      BY <2>1, RowOwner DEF Selected, Exists
    <2> QED
      BY <2>1, <2>2 DEF LockTask, TearingDown
  <1>10. CASE /\ task[t].pc = "picked" /\ task'[t].pc = "secrets" /\ task'[t].holds
              /\ task'[t].host = task[t].host /\ task'[t].kind = task[t].kind
              /\ Unlocked(task[t].host) /\ ~Spared(task[t].kind, task[t].host) /\ row' = row
    <2>1. /\ task[t].kind = "janitor" => ~Unexpired(task[t].host)
          /\ task[t].kind = "shed" => ~row[task[t].host].claimed
      BY <1>10 DEF Spared
    <2>2. task[t].kind = "janitor" => ~Unexpired(task[t].host)'
      BY <1>5, <1>6, <1>10, <2>1
    <2> QED
      BY <1>3, <1>4, <1>10, <2>1, <2>2 DEF LockTask, TearingDown, Unexpired
  <1>11. CASE /\ task[t].pc \in {"secrets", "destroy"} /\ task'[t].pc \in {"destroy", "drop"}
              /\ task'[t].host = task[t].host /\ task'[t].kind = task[t].kind
              /\ task'[t].holds = task[t].holds
    <2> DEFINE g == task[t].host
    <2>1. TearingDown(t) /\ task[t].holds /\ g \in Host /\ row[g].status # "unborn"
      BY <1>3, <1>5, <1>11 DEF LockTask, TearingDown
    <2>2. task'[t] # Idle
      BY <1>11 DEF Idle
    <2>3. row'[g] = row[g]
      BY <2>1, <2>2, LockedRow
    <2>4. ASSUME task[t].kind = "janitor"
          PROVE  ~(row'[g].expires = Never \/ row'[g].expires > now')
      <3>1. ~Unexpired(g)
        BY <1>3, <2>1, <2>4 DEF LockTask
      <3>2. row[g].expires \in Nat \/ row[g].expires = Never
        BY <2>1 DEF TypeOK, Row, Lease
      <3> QED
        BY <1>2, <2>3, <3>1, <3>2 DEF Unexpired
    <2> QED
      BY <1>3, <1>4, <1>11, <2>1, <2>3, <2>4 DEF LockTask, TearingDown, Unexpired
  <1> QED
    BY <1>1, <1>7, <1>8, <1>9, <1>10, <1>11 DEF TaskMove

LEMMA LeaseInvariant ==
    ASSUME ~Tailnet PROVE Spec => []LeaseInv
  <1>1. Init => LeaseInv
    BY PromiseInvInit
    DEF Init, LeaseInv, LockInv, LockTask, TearingDown, PoolInv, PoolHost, Idle, Unborn
  <1>2. LeaseInv /\ [Next]_vars => LeaseInv'
    <2> SUFFICES ASSUME LeaseInv, [Next]_vars PROVE LeaseInv'
      OBVIOUS
    <2>1. PromiseInv'
      BY PromiseInvStep DEF LeaseInv
    <2>2. LockInv'
      BY <2>1, LockStep DEF LeaseInv, PromiseInv, LockInv
    <2> QED
      BY <2>1, <2>2 DEF LeaseInv
  <1> QED
    BY <1>1, <1>2, PTL DEF Spec

\* What removes a VM or a row is a delete past its guards.
LEMMA RemoverTearsDown ==
    ASSUME TypeOK, Next, NEW t \in Task, NEW h \in Host, RemovedBy(t, h)
    PROVE  TearingDown(t)
  <1>1. CASE \E u \in Task : TaskStep(u)
    <2>1. PICK u \in Task : TaskStep(u)
      BY <1>1
    <2>2. u = t
      BY <2>1 DEF RemovedBy, TaskStep, Select, Teardown, Begin, ReleaseDevice, CommitUnlink,
                  DeleteSecrets, DestroyVM, DropRow, Abort, Advance, TypeOK
    <2>3. CASE \E g \in Host : DestroyVM(t, g) \/ DropRow(t, g) \/ CommitUnlink(t, g)
      BY <2>3 DEF DestroyVM, DropRow, CommitUnlink, At, TearingDown
    <2>4. CASE UNCHANGED <<vm, row>>
      BY <2>4 DEF RemovedBy, Exists
    <2> QED
      BY <2>1, <2>2, <2>3, <2>4
      DEF TaskStep, Select, Teardown, Begin, ReleaseDevice, DeleteSecrets, Abort
  <1>2. CASE UNCHANGED task
    BY <1>2 DEF RemovedBy
  <1> QED
    BY <1>1, <1>2
    DEF Next, HostStep, Provision, StartNetwork, PutSecrets, RequestVM, RecordVM, RecordDevice,
        Activate, Stamp, StepFails, MarkFailed, Create, ProviderAnswers, DeviceJoins, Die,
        Renew, Release, LoserDies,
        ClaimStep, SelectCandidate, Claim, ClaimFails, Tick

\* On a provider whose hosts do not join the tailnet, no delete of the janitor or
\* of the maintainer destroys a host whose promised lease runs and was not taken
\* back by the release of a request that lost its idempotency key: delete_host
\* keeps the lock it checked its guards under until the row is gone.
THEOREM LeasesAreHonoured ==
    ASSUME ~Tailnet PROVE Spec => LeaseHonoured
  <1>1. LeaseInv /\ [Next]_vars =>
          [\A t \in Task, h \in Host :
              RemovedBy(t, h) /\ task[t].kind # "api" => ~Held(h)]_vars
    <2> SUFFICES ASSUME LeaseInv, Next, NEW t \in Task, NEW h \in Host,
                        RemovedBy(t, h), task[t].kind # "api", Held(h)
                 PROVE  FALSE
      OBVIOUS
    <2>1. TearingDown(t) /\ task[t].host = h
      BY RemoverTearsDown DEF LeaseInv, PromiseInv, RemovedBy
    <2>2. row[h].expires = promise[h]
      BY DEF LeaseInv, PromiseInv, Promises, PromiseHost, Held
    <2>3. CASE task[t].kind = "janitor"
      BY <2>1, <2>2, <2>3 DEF LeaseInv, LockInv, LockTask, Unexpired, Held
    <2>4. CASE task[t].kind = "shed"
      <3>1. row[h].pool /\ ~row[h].claimed
        BY <2>1, <2>4 DEF LeaseInv, LockInv, LockTask, TearingDown
      <3> QED
        BY <3>1 DEF LeaseInv, PromiseInv, PoolInv, PoolHost, Held
    <2> QED
      BY <2>3, <2>4 DEF LeaseInv, PromiseInv, TypeOK, Kind
  <1> QED
    BY <1>1, LeaseInvariant, PTL DEF Spec, LeaseHonoured

\* Nor does shedding ever destroy a pool member that a caller has claimed.
THEOREM ClaimedAreSpared ==
    ASSUME ~Tailnet PROVE Spec => ShedSparesClaimed
  <1>1. LeaseInv /\ [Next]_vars =>
          [\A t \in Task, h \in Host :
              RemovedBy(t, h) /\ task[t].kind = "shed" => ~row[h].claimed]_vars
    <2> SUFFICES ASSUME LeaseInv, Next, NEW t \in Task, NEW h \in Host,
                        RemovedBy(t, h), task[t].kind = "shed", row[h].claimed
                 PROVE  FALSE
      OBVIOUS
    <2>1. TearingDown(t) /\ task[t].host = h
      BY RemoverTearsDown DEF LeaseInv, PromiseInv, RemovedBy
    <2> QED
      BY <2>1 DEF LeaseInv, LockInv, LockTask
  <1> QED
    BY <1>1, LeaseInvariant, PTL DEF Spec, ShedSparesClaimed

-----------------------------------------------------------------------------
(* A recorded device is released before its row goes.                      *)

\* How a step changes a device.
LEMMA DeviceMoves ==
    ASSUME TypeOK, [Next]_vars, NEW g \in Host
    PROVE  \/ device'[g] = device[g]
           \/ Tailnet /\ device[g] = "none" /\ device'[g] = "up"
           \/ /\ device[g] = "up" /\ device'[g] = "known" /\ Unlocked(g) /\ task' = task
              /\ row'[g] = [row[g] EXCEPT !.device = TRUE] /\ Exists(g)
           \/ device'[g] = "released"
  <1>1. ASSUME NEW h \in Host, RecordDevice(h)
        PROVE  \/ device'[g] = device[g]
               \/ /\ device[g] = "up" /\ device'[g] = "known" /\ Unlocked(g) /\ task' = task
                  /\ row'[g] = [row[g] EXCEPT !.device = TRUE] /\ Exists(g)
    <2>1. CASE g = h /\ Exists(h)
      BY <1>1, <2>1, CommitEffect DEF RecordDevice, Commit, TypeOK
    <2>2. CASE ~(g = h /\ Exists(h))
      BY <1>1, <2>2 DEF RecordDevice, TypeOK
    <2> QED
      BY <2>1, <2>2
  <1>2. ASSUME NEW h \in Host, DeviceJoins(h)
        PROVE  device'[g] = device[g] \/ (Tailnet /\ device[g] = "none" /\ device'[g] = "up")
    BY <1>2 DEF DeviceJoins, TypeOK
  <1>3. ASSUME NEW t \in Task, NEW h \in Host, ReleaseDevice(t, h)
        PROVE  device'[g] \in {device[g], "released"}
    BY <1>3 DEF ReleaseDevice, TypeOK
  <1>4. CASE UNCHANGED device
    BY <1>4
  <1> QED
    BY <1>1, <1>2, <1>3, <1>4
    DEF Next, HostStep, Provision, StartNetwork, PutSecrets, RequestVM, RecordVM, Activate, Stamp,
        StepFails, MarkFailed, Create, ProviderAnswers, Die, Renew, Release, LoserDies,
        ClaimStep, SelectCandidate,
        Claim, ClaimFails, TaskStep, Select, Teardown, Begin, CommitUnlink, DeleteSecrets,
        DestroyVM, DropRow, Abort, Tick, vars

\* Only the two commits of a delete clear the device of an existing row, or end it.
LEMMA DeviceStays ==
    ASSUME TypeOK, Stages, [Next]_vars, NEW g \in Host, row[g].device, Exists(g)
    PROVE  \/ row'[g].device /\ row'[g].status \notin {"unborn", "gone"}
           \/ \E t \in Task : CommitUnlink(t, g) \/ DropRow(t, g)
  <1> DEFINE Stays == row'[g].device /\ row'[g].status \notin {"unborn", "gone"}
  <1>0. row[g] \in Row /\ row[g].status \notin {"unborn", "gone"}
    BY DEF TypeOK, Exists
  <1>1. ASSUME NEW h \in Host, HostStep(h)
        PROVE  Stays
    <2>1. CASE g # h
      BY <1>0, <1>1, <2>1, OtherHost
    <2>2. CASE g = h
      <3>1. CASE StartNetwork(g)
        BY <1>0, <3>1, CommitEffect DEF StartNetwork, Row
      <3>2. CASE RequestVM(g)
        BY <1>0, <3>2, CommitEffect DEF RequestVM, Row
      <3>3. CASE RecordVM(g)
        BY <1>0, <3>3, CommitEffect DEF RecordVM, Row
      <3>4. CASE RecordDevice(g)
        BY <1>0, <3>4, CommitEffect DEF RecordDevice, Row
      <3>5. CASE Activate(g)
        BY <1>0, <3>5, CommitEffect DEF Activate, Row
      <3>6. CASE Stamp(g)
        <4>1. row'[g] = [row[g] EXCEPT !.expires = Stamped(g)]
          BY <3>6, CommitEffect DEF Stamp
        <4> HIDE DEF Stays
        <4>2. row'[g].device = row[g].device /\ row'[g].status = row[g].status
          BY <1>0, <4>1 DEF Row
        <4> QED
          BY <1>0, <4>2 DEF Stays
      <3>7. CASE MarkFailed(g)
        <4>1. row'[g] = [row[g] EXCEPT !.status = "error", !.expires = now]
          BY <3>7, CommitEffect DEF MarkFailed
        <4>2. row'[g].device = row[g].device /\ row'[g].status = "error"
          BY <1>0, <4>1 DEF Row
        <4> QED
          BY <4>2
      <3>8. ASSUME NEW a \in Asks, Renew(g, a)
            PROVE  Stays
        <4>1. row'[g].device = row[g].device /\ row'[g].status = row[g].status
          BY <1>0, <3>8 DEF Renew, TypeOK, Row
        <4> QED
          BY <1>0, <4>1
      <3>9. CASE UNCHANGED row
        BY <1>0, <3>9
      <3>10. CASE Release(g)
        BY <1>0, <3>10, ReleaseEffect
      <3> HIDE DEF Stays
      <3> QED
        BY <1>0, <1>1, <2>2, <3>1, <3>2, <3>3, <3>4, <3>5, <3>6, <3>7, <3>8, <3>9, <3>10
        DEF HostStep, Provision, PutSecrets, StepFails, ProviderAnswers, DeviceJoins, Die, Create,
            LoserDies
    <2> QED
      BY <2>1, <2>2
  <1>2. ASSUME NEW q \in Request, NEW h \in Host, ClaimStep(q, h)
        PROVE  Stays
    <2>1. CASE Claim(q, h)
      <3>1. row'[g].device = row[g].device /\ row'[g].status = row[g].status
        BY <1>0, <2>1 DEF Claim, TypeOK, Row
      <3> QED
        BY <1>0, <3>1
    <2>2. CASE UNCHANGED row
      BY <1>0, <2>2
    <2> QED
      BY <1>2, <2>1, <2>2 DEF ClaimStep, SelectCandidate, ClaimFails
  <1>3. ASSUME NEW t \in Task, TaskStep(t)
        PROVE  Stays \/ CommitUnlink(t, g) \/ DropRow(t, g)
    <2>1. ASSUME NEW h \in Host, h # g, CommitUnlink(t, h) \/ DropRow(t, h)
          PROVE  Stays
      BY <1>0, <2>1 DEF CommitUnlink, DropRow, TypeOK
    <2>2. CASE UNCHANGED row
      BY <1>0, <2>2
    <2> HIDE DEF Stays
    <2> QED
      BY <1>3, <2>1, <2>2
      DEF TaskStep, Select, Teardown, Begin, ReleaseDevice, DeleteSecrets, DestroyVM, Abort
  <1>4. CASE UNCHANGED row
    BY <1>0, <1>4
  <1> HIDE DEF Stays
  <1>5. Stays \/ \E t \in Task : CommitUnlink(t, g) \/ DropRow(t, g)
    <2>1. CASE \E h \in Host : HostStep(h)
      BY <1>1, <2>1
    <2>2. CASE \E q \in Request, h \in Host : ClaimStep(q, h)
      BY <1>2, <2>2
    <2>3. CASE \E t \in Task : TaskStep(t)
      BY <1>3, <2>3
    <2>4. CASE UNCHANGED row
      BY <1>4, <2>4 DEF Stays
    <2> QED
      BY <2>1, <2>2, <2>3, <2>4 DEF Next, Tick, vars
  <1> QED
    BY <1>5 DEF Stays

LEMMA DeviceHostStep ==
    ASSUME DeviceInv, [Next]_vars, NEW g \in Host
    PROVE  DeviceHost(g)'
  <1>0. TypeOK /\ Stages /\ DeviceHost(g) /\ row[g] \in Row
    BY DEF DeviceInv, TypeOK
  <1>1. CASE device'[g] = device[g]
    <2>1. ASSUME device[g] = "known"
          PROVE  row'[g].device /\ row'[g].status \notin {"unborn", "gone"}
      <3>1. ASSUME NEW t \in Task, CommitUnlink(t, g) \/ DropRow(t, g)
            PROVE  FALSE
        BY <2>1, <3>1 DEF CommitUnlink, DropRow, At, DeviceInv, DeviceTask
      <3> QED
        BY <1>0, <2>1, <3>1, DeviceStays DEF DeviceHost
    <2> QED
      BY <1>0, <1>1, <2>1 DEF DeviceHost, Exists
  <1>2. CASE device[g] = "up" /\ device'[g] = "known"
             /\ row'[g] = [row[g] EXCEPT !.device = TRUE] /\ Exists(g)
    <2>1. row'[g].device = TRUE /\ row'[g].status = row[g].status
      BY <1>0, <1>2 DEF Row
    <2> QED
      BY <1>0, <1>2, <2>1 DEF DeviceHost, Exists
  <1>3. CASE device'[g] = "released"
    BY <1>3 DEF DeviceHost
  <1>4. CASE Tailnet /\ device'[g] = "up"
    BY <1>4 DEF DeviceHost
  <1> QED
    BY <1>0, <1>1, <1>2, <1>3, <1>4, DeviceMoves

LEMMA DeviceTaskStep ==
    ASSUME DeviceInv, [Next]_vars, NEW t \in Task
    PROVE  DeviceTask(t)'
  <1>0. /\ TypeOK /\ Stages /\ TaskHosts /\ DeviceTask(t)
        /\ task[t] \in [pc: TaskPc, host: Host \cup {NoHost}, kind: Kind, holds: BOOLEAN]
    BY DEF DeviceInv, TypeOK
  <1>1. CASE task'[t] = task[t]
    <2> SUFFICES ASSUME task[t].pc \in {"unlink", "secrets", "destroy", "drop"}
                 PROVE  DeviceTask(t)'
      BY <1>1 DEF DeviceTask
    <2>1. PICK g \in Host : g = task[t].host
      BY <1>0 DEF TaskHosts
    <2>2. CASE device[g] = "released"
      <3>1. device'[g] = "released"
        BY <1>0, <2>2, DeviceMoves
      <3> QED
        BY <1>1, <2>1, <3>1 DEF DeviceTask
    <2>3. CASE device[g] # "released"
      <3>1. task[t].holds /\ device[g] # "known" /\ task[t].pc # "unlink"
        BY <1>0, <2>1, <2>3 DEF DeviceTask
      <3>2. ~Unlocked(g)
        BY <2>1, <3>1 DEF Unlocked
      <3>3. device'[g] # "known"
        BY <1>0, <3>1, <3>2, DeviceMoves
      <3> QED
        BY <1>1, <2>1, <3>1, <3>3 DEF DeviceTask
    <2> QED
      BY <2>2, <2>3
  <1>2. ASSUME NEW h \in Host, Begin(t, h)
        PROVE  DeviceTask(t)'
    <2>1. task[t].host = h /\ device' = device
      BY <1>2 DEF Begin, At
    <2>2. CASE Spared(task[t].kind, h)
      BY <1>0, <1>2, <2>2 DEF Begin, TypeOK, Idle, DeviceTask
    <2>3. CASE ~Spared(task[t].kind, h)
      <3>1. task'[t] = [task[t] EXCEPT !.pc = FirstTeardown(h), !.holds = TRUE]
        BY <1>0, <1>2, <2>3 DEF Begin, TypeOK
      <3>2. task'[t].pc = FirstTeardown(h) /\ task'[t].holds = TRUE /\ task'[t].host = h
        BY <1>0, <2>1, <3>1
      <3>3. CASE Tailnet /\ row[h].device
        BY <3>2, <3>3 DEF FirstTeardown, DeviceTask
      <3>4. CASE ~(Tailnet /\ row[h].device)
        <4>1. DeviceHost(h)
          BY DEF DeviceInv
        <4>2. device'[h] # "known"
          BY <2>1, <3>4, <4>1 DEF DeviceHost
        <4> QED
          BY <3>2, <3>4, <4>2 DEF FirstTeardown, DeviceTask
      <3> QED
        BY <3>3, <3>4
    <2> QED
      BY <2>2, <2>3
  <1>3. ASSUME NEW h \in Host, ReleaseDevice(t, h)
        PROVE  DeviceTask(t)'
    <2>1. task'[t].pc = "unlink" /\ task'[t].host = h /\ device'[h] = "released"
      BY <1>0, <1>3 DEF ReleaseDevice, At, Advance, TypeOK
    <2> QED
      BY <2>1 DEF DeviceTask
  <1>4. ASSUME NEW h \in Host, CommitUnlink(t, h)
        PROVE  DeviceTask(t)'
    <2>1. task'[t].pc = "secrets" /\ task'[t].host = h /\ device'[h] = "released"
      BY <1>0, <1>4 DEF CommitUnlink, At, TypeOK, DeviceTask
    <2> QED
      BY <2>1 DEF DeviceTask
  <1>5. ASSUME NEW h \in Host, DeleteSecrets(t, h) \/ DestroyVM(t, h)
        PROVE  DeviceTask(t)'
    <2>1. /\ task[t].pc \in {"secrets", "destroy"} /\ task'[t].pc \in {"destroy", "drop"}
          /\ task'[t].host = task[t].host /\ task'[t].holds = task[t].holds /\ device' = device
      BY <1>0, <1>5 DEF DeleteSecrets, DestroyVM, At, Advance, TypeOK
    <2> QED
      BY <1>0, <2>1 DEF DeviceTask
  <1>6. CASE task'[t].pc \in {"idle", "picked"}
    BY <1>6 DEF DeviceTask
  <1>7. ASSUME NEW u \in Task, TaskStep(u)
        PROVE  DeviceTask(t)'
    <2>1. CASE u # t
      <3>1. task'[t] = task[t]
        BY <1>0, <1>7, <2>1 DEF TaskStep, Select, Teardown, Begin, ReleaseDevice, CommitUnlink,
             DeleteSecrets, DestroyVM, DropRow, Abort, Advance, TypeOK
      <3> QED
        BY <1>1, <3>1
    <2>2. CASE u = t
      <3>1. ASSUME NEW h \in Host, NEW k \in Kind, Select(t, k, h)
            PROVE  task'[t].pc \in {"idle", "picked"}
        BY <1>0, <3>1 DEF Select, TypeOK
      <3>2. ASSUME NEW h \in Host, DropRow(t, h)
            PROVE  task'[t].pc \in {"idle", "picked"}
        BY <1>0, <3>2 DEF DropRow, TypeOK, Idle
      <3>3. CASE Abort(t)
        BY <1>0, <1>6, <3>3 DEF Abort, TypeOK, Idle
      <3>4. ASSUME NEW h \in Host, Teardown(t, h)
            PROVE  DeviceTask(t)'
        BY <1>2, <1>3, <1>4, <1>5, <1>6, <3>2, <3>4 DEF Teardown
      <3> QED
        BY <1>6, <1>7, <2>2, <3>1, <3>3, <3>4 DEF TaskStep
    <2> QED
      BY <2>1, <2>2
  <1>8. CASE task' = task
    BY <1>1, <1>8
  <1> QED
    BY <1>7, <1>8
    DEF Next, HostStep, Provision, StartNetwork, PutSecrets, RequestVM, RecordVM, RecordDevice,
        Activate, Stamp, StepFails, MarkFailed, Create, ProviderAnswers, DeviceJoins, Die,
        Renew, Release, LoserDies,
        ClaimStep, SelectCandidate, Claim, ClaimFails, Tick, vars

\* A tailnet device whose id was recorded never outlives its row: any number of
\* deletes may race, abort at any step, and lose the row lock half way.
THEOREM KnownDevicesAreReleased == Spec => []KnownDeviceReleased
  <1>1. Init => DeviceInv
    BY PromiseInvInit
    DEF PromiseInv, Init, DeviceInv, DeviceHost, DeviceTask, Idle
  <1>2. DeviceInv /\ [Next]_vars => DeviceInv'
    <2> SUFFICES ASSUME DeviceInv, [Next]_vars PROVE DeviceInv'
      OBVIOUS
    <2>1. TypeOK' /\ Stages' /\ TaskHosts'
      BY TypeStep, StagesStep, TaskHostsStep DEF DeviceInv
    <2> QED
      BY <2>1, DeviceHostStep, DeviceTaskStep DEF DeviceInv
  <1>3. DeviceInv => KnownDeviceReleased
    BY DEF DeviceInv, DeviceHost, KnownDeviceReleased, Gone, Exists
  <1> QED
    BY <1>1, <1>2, <1>3, PTL DEF Spec

-----------------------------------------------------------------------------
(* A lease that runs ends before its provider stops the VM.                *)

Within(h) == row[h].expires \in (0..(row[h].created + MaxLifetime)) \cup (0..now)

\* A row that is not stamped yet may hold the safety TTL, which no lifetime clamps;
\* whatever replaces it is clamped, so that the stamp has nothing else to find.
LifetimeHost(h) ==
    MaxLifetime # 0 /\ row[h].status \in Preparing \cup Renewable =>
        Within(h) \/ (StampMatches(h) /\ prov[h] # "done")

LifetimeInv == PromiseInv /\ \A h \in Host : LifetimeHost(h)

\* What lease_end returns, a provider with a lifetime lets run.
LEMMA LeaseEndIsWithin ==
    ASSUME NEW c \in Nat, NEW e \in Lease, MaxLifetime # 0
    PROVE  LeaseEnd(c, e) \in 0..(c + MaxLifetime)
  BY DEF LeaseEnd, Lease, Never

\* A step that leaves the lease end alone, and stamps nothing.
LEMMA LifetimeUntouched ==
    ASSUME NEW g \in Host, LifetimeHost(g), now \in Nat, now' \in Nat, now' >= now,
           row'[g].status \in Preparing \cup Renewable => row[g].status \in Preparing \cup Renewable,
           row'[g].expires = row[g].expires, row'[g].created = row[g].created,
           ask'[g] = ask[g], prov'[g] = "done" => prov[g] = "done"
    PROVE  LifetimeHost(g)'
  <1>1. Within(g) => Within(g)'
    <2>1. (0..now) \subseteq (0..now')
      OBVIOUS
    <2> QED
      BY <2>1 DEF Within
  <1> QED
    BY <1>1 DEF LifetimeHost, StampMatches

\* A renewal, a warm claim and the stamp go through lease_end (renew_host, claim_warm_host,
\* create_host); provision's other commits leave the lease end alone.
LEMMA LifetimeStep ==
    ASSUME LifetimeInv, [Next]_vars, NEW g \in Host
    PROVE  LifetimeHost(g)'
  <1>0. /\ LifetimeHost(g) /\ row[g] \in Row /\ row[g].status \in Allowed(prov[g])
        /\ row[g].created \in Nat /\ TypeOK /\ Stages /\ TaskHosts
        /\ now \in Nat /\ now' \in Nat /\ now' >= now /\ ask[g] \in Lease \cup {Default}
    BY Later DEF LifetimeInv, PromiseInv, TypeOK, Stages, Row
  <1>1. ASSUME NEW a \in Asks, NEW pool \in BOOLEAN, Create(g, a, pool)
        PROVE  LifetimeHost(g)'
    <2>1. /\ row'[g].created = now /\ row'[g].expires = InitialExpiry(now, a)
          /\ ask'[g] = a /\ prov'[g] = "start"
      BY <1>0, <1>1 DEF Create, TypeOK
    <2> QED
      BY <2>1 DEF LifetimeHost, StampMatches
  <1>2. CASE StartNetwork(g) \/ RequestVM(g) \/ RecordVM(g) \/ RecordDevice(g) \/ Activate(g)
    <2>1. CASE Exists(g)
      <3>1. /\ \/ \E s \in Status : row'[g] = [row[g] EXCEPT !.status = s]
               \/ row'[g] = [row[g] EXCEPT !.device = TRUE]
            /\ prov'[g] # "done" /\ ask' = ask
        <4>1. CASE StartNetwork(g)
          BY <1>0, <2>1, <4>1, CommitEffect DEF StartNetwork, Status, Preparing
        <4>2. CASE RequestVM(g)
          <5>1. row'[g] = [row[g] EXCEPT !.status = "creating_vm"] /\ prov'[g] = "creating"
            BY <1>0, <2>1, <4>2, CommitEffect DEF RequestVM
          <5>2. "creating_vm" \in Status /\ ask' = ask
            BY <4>2 DEF Status, Preparing, RequestVM
          <5> QED
            BY <5>1, <5>2
        <4>3. CASE RecordVM(g)
          <5>1. row'[g] = [row[g] EXCEPT !.status = "bootstrapping"]
                /\ prov'[g] = IF Tailnet THEN "wait" ELSE "scan"
            BY <1>0, <2>1, <4>3, CommitEffect DEF RecordVM
          <5>2. "bootstrapping" \in Status /\ ask' = ask
            BY <4>3 DEF Status, VMBacked, RecordVM
          <5>3. prov'[g] # "done"
            BY <5>1
          <5> QED
            BY <5>1, <5>2, <5>3
        <4>4. CASE RecordDevice(g)
          BY <1>0, <2>1, <4>4, CommitEffect DEF RecordDevice
        <4>5. CASE Activate(g)
          BY <1>0, <2>1, <4>5, CommitEffect DEF Activate, Status, VMBacked
        <4> QED
          BY <1>2, <4>1, <4>2, <4>3, <4>4, <4>5
      <3>3. row'[g].expires = row[g].expires /\ row'[g].created = row[g].created
        BY <1>0, <3>1 DEF Row
      <3>2. row[g].status \in Preparing \cup Renewable
        <4>1. prov[g] \in {"start", "secured", "creating", "wait", "scan"}
          BY <1>0, <1>2, CommitEffect
          DEF StartNetwork, RequestVM, RecordVM, RecordDevice, Activate
        <4> QED
          BY <1>0, <2>1, <4>1 DEF Allowed, Preparing, Renewable, Exists
      <3> QED
        BY <1>0, <3>1, <3>2, <3>3, LifetimeUntouched
    <2>2. CASE ~Exists(g)
      <3>1. row' = row /\ prov'[g] # "done" /\ ask' = ask
        BY <1>0, <1>2, <2>2, CommitEffect
        DEF StartNetwork, RequestVM, RecordVM, RecordDevice, Activate
      <3> QED
        BY <1>0, <3>1, LifetimeUntouched
    <2> QED
      BY <2>1, <2>2
  <1>3. CASE Stamp(g)
    <2>1. CASE Exists(g)
      <3>1. row'[g] = [row[g] EXCEPT !.expires = Stamped(g)] /\ prov[g] = "stamp"
        BY <1>0, <1>3, <2>1, CommitEffect DEF Stamp
      <3>2. row'[g].expires = Stamped(g) /\ row'[g].created = row[g].created
            /\ row'[g].status = row[g].status
        BY <1>0, <3>1 DEF Row
      <3>3. row[g].status = "active"
        BY <1>0, <2>1, <3>1 DEF Allowed, Exists
      <3>4. CASE MaxLifetime # 0
        <4>1. CASE StampMatches(g)
          <5>1. Stamped(g) \in 0..(row[g].created + MaxLifetime)
            BY <1>0, <3>4, <4>1, ResolveIsLease, LeaseEndIsWithin DEF Stamped
          <5> QED
            BY <3>2, <5>1 DEF LifetimeHost, Within
        <4>2. CASE ~StampMatches(g)
          <5>1. Within(g) /\ Stamped(g) = row[g].expires
            BY <1>0, <3>3, <3>4, <4>2 DEF LifetimeHost, Renewable, Stamped
          <5>2. now' = now
            BY <1>3 DEF Stamp
          <5> QED
            BY <3>2, <5>1, <5>2 DEF LifetimeHost, Within
        <4> QED
          BY <4>1, <4>2
      <3> QED
        BY <3>4 DEF LifetimeHost
    <2>2. CASE ~Exists(g)
      <3>1. row' = row /\ prov'[g] # "done" /\ ask' = ask
        BY <1>0, <1>3, <2>2, CommitEffect DEF Stamp
      <3> QED
        BY <1>0, <3>1, LifetimeUntouched
    <2> QED
      BY <2>1, <2>2
  <1>4. CASE MarkFailed(g)
    <2>1. CASE Exists(g)
      <3>1. row'[g].status = "error"
        <4>1. row'[g] = [row[g] EXCEPT !.status = "error", !.expires = now]
          BY <1>0, <1>4, <2>1, CommitEffect DEF MarkFailed
        <4> QED
          BY <1>0, <4>1 DEF Row
      <3> QED
        BY <3>1 DEF LifetimeHost, Preparing, Renewable
    <2>2. CASE ~Exists(g)
      <3>1. row' = row /\ prov'[g] # "done" /\ ask' = ask
        BY <1>0, <1>4, <2>2, CommitEffect DEF MarkFailed
      <3> QED
        BY <1>0, <3>1, LifetimeUntouched
    <2> QED
      BY <2>1, <2>2
  <1>5. CASE PutSecrets(g) \/ StepFails(g) \/ Die(g) \/ ProviderAnswers(g) \/ DeviceJoins(g)
    <2>1. row' = row /\ ask' = ask /\ (prov'[g] = "done" => prov[g] = "done")
      BY <1>0, <1>5 DEF PutSecrets, StepFails, Die, ProviderAnswers, DeviceJoins, TypeOK
    <2> QED
      BY <1>0, <2>1, LifetimeUntouched
  <1>6. ASSUME NEW a \in Asks, Renew(g, a)
        PROVE  LifetimeHost(g)'
    <2>1. a \in Lease \cup {Default}
      BY <1>0, AsksAreLeases
    <2>2. /\ row'[g].expires = LeaseEnd(row[g].created, Resolve(a))
          /\ row'[g].created = row[g].created
      BY <1>0, <1>6 DEF Renew, TypeOK, Row
    <2> QED
      BY <1>0, <2>1, <2>2, ResolveIsLease, LeaseEndIsWithin DEF LifetimeHost, Within
  <1>7. ASSUME NEW q \in Request, Claim(q, g)
        PROVE  LifetimeHost(g)'
    <2>1. cand[q].ask \in Lease \cup {Default}
      BY <1>0 DEF TypeOK
    <2>2. /\ row'[g].expires = LeaseEnd(row[g].created, Resolve(cand[q].ask))
          /\ row'[g].created = row[g].created
      BY <1>0, <1>7 DEF Claim, TypeOK, Row
    <2> QED
      BY <1>0, <2>1, <2>2, ResolveIsLease, LeaseEndIsWithin DEF LifetimeHost, Within
  <1>8. ASSUME NEW q \in Request, NEW h \in Host, Claim(q, h), g # h
        PROVE  LifetimeHost(g)'
    BY <1>0, <1>8, LifetimeUntouched DEF Claim, TypeOK
  <1>9. ASSUME NEW t \in Task, NEW h \in Host, CommitUnlink(t, h)
        PROVE  LifetimeHost(g)'
    <2>1. /\ row'[g].status = row[g].status /\ row'[g].expires = row[g].expires
          /\ row'[g].created = row[g].created
      BY <1>0, <1>9 DEF CommitUnlink, TypeOK, Row
    <2> QED
      BY <1>0, <1>9, <2>1, LifetimeUntouched DEF CommitUnlink
  <1>10. ASSUME NEW t \in Task, NEW h \in Host, DropRow(t, h)
         PROVE  LifetimeHost(g)'
    <2>1. CASE g = h
      <3>1. row'[g].status = "gone"
        BY <1>0, <1>10, <2>1 DEF DropRow, TypeOK, Row
      <3> QED
        BY <3>1 DEF LifetimeHost, Preparing, Renewable
    <2>2. CASE g # h
      BY <1>0, <1>10, <2>2, LifetimeUntouched DEF DropRow, TypeOK
    <2> QED
      BY <2>1, <2>2
  <1>15. CASE Release(g)
    <2>1. CASE ~Exists(g)
      BY <1>0, <1>15, <2>1, ReleaseEffect, LifetimeUntouched
    <2>2. CASE Exists(g) /\ row[g].claimed
      <3>1. /\ row'[g].expires = LeaseEnd(row[g].created, now + PoolAge)
            /\ row'[g].created = row[g].created
        BY <1>0, <1>15, <2>2, ReleaseEffect DEF Released, Row
      <3>2. now + PoolAge \in Lease
        BY <1>0 DEF Lease
      <3> QED
        BY <1>0, <3>1, <3>2, LeaseEndIsWithin DEF LifetimeHost, Within
    <2>3. CASE Exists(g) /\ ~row[g].claimed
      <3>1. row'[g].expires = now /\ now' = now
        BY <1>0, <1>15, <2>3, ReleaseEffect DEF Released, Row
      <3> QED
        BY <1>0, <3>1 DEF LifetimeHost, Within
    <2> QED
      BY <2>1, <2>2, <2>3
  <1>11. CASE UNCHANGED <<row, ask, prov>>
    BY <1>0, <1>11, LifetimeUntouched
  <1>12. ASSUME NEW h \in Host, HostStep(h)
         PROVE  LifetimeHost(g)'
    <2>1. CASE g = h
      BY <1>1, <1>2, <1>3, <1>4, <1>5, <1>6, <1>11, <1>12, <1>15, <2>1
      DEF HostStep, Provision, LoserDies
    <2>2. CASE g # h
      BY <1>0, <1>12, <2>2, OtherHost, LifetimeUntouched
    <2> QED
      BY <2>1, <2>2
  <1>13. ASSUME NEW q \in Request, NEW h \in Host, ClaimStep(q, h)
         PROVE  LifetimeHost(g)'
    BY <1>7, <1>8, <1>11, <1>13 DEF ClaimStep, SelectCandidate, ClaimFails
  <1>14. ASSUME NEW t \in Task, TaskStep(t)
         PROVE  LifetimeHost(g)'
    BY <1>9, <1>10, <1>11, <1>14
    DEF TaskStep, Select, Teardown, Begin, ReleaseDevice, DeleteSecrets, DestroyVM, Abort
  <1> QED
    BY <1>11, <1>12, <1>13, <1>14 DEF Next, Tick, vars

\* Once create_host has stamped the lease, no path lets one that still runs end after
\* the moment the provider stops the VM, for every lifetime, grace and term
\* (VMProvider.lease_end; a release may end the lease at once instead).
THEOREM LeasesEndInTime == Spec => []LeaseWithinLifetime
  <1>1. Init => LifetimeInv
    BY PromiseInvInit DEF Init, LifetimeInv, LifetimeHost, Unborn, Preparing, Renewable
  <1>2. LifetimeInv /\ [Next]_vars => LifetimeInv'
    BY PromiseInvStep, LifetimeStep DEF LifetimeInv
  <1>3. LifetimeInv => LeaseWithinLifetime
    BY DEF LifetimeInv, LifetimeHost, Within, LeaseWithinLifetime
  <1> QED
    BY <1>1, <1>2, <1>3, PTL DEF Spec

-----------------------------------------------------------------------------
(* What a host's row, locks and calls come to is what the API promises.    *)

\* The create call that the coroutine is about to record has made the VM, and a
\* delete past its guards still has its row.
BootedHost(h) == prov[h] = "creating" /\ call[h] = "ok" => h \in vm
RowedTask(t) == TearingDown(t) => Exists(task[t].host)

BootInv == (\A h \in Host : BootedHost(h)) /\ (\A t \in Task : RowedTask(t))

PromiseMapInv == LeaseInv /\ RowInv /\ BootInv

\* What the promise sees of every other host stands still.
Others(h) ==
    \A g \in Host \ {h} : Phase(g)' = Phase(g) /\ (Held(g)' <=> Held(g))

LEMMA Untouched ==
    ASSUME NEW g \in Host, row'[g].status = row[g].status, promise'[g] = promise[g], now' = now
    PROVE  Phase(g)' = Phase(g) /\ (Held(g)' <=> Held(g))
  BY DEF Phase, Held, Promised

LEMMA SameDeleters ==
    ASSUME UNCHANGED task, NEW g \in Host
    PROVE  CallerDeleting(g)' <=> CallerDeleting(g)
  BY DEF CallerDeleting

\* A step that changes nothing the promise sees.
LEMMA Unseen ==
    ASSUME UNCHANGED <<vm, unheard>>,
           \A g \in Host : /\ Phase(g)' = Phase(g) /\ (Held(g)' <=> Held(g))
                           /\ (CallerDeleting(g)' <=> CallerDeleting(g))
    PROVE  UNCHANGED Abstract!vars
  BY DEF Abstract!vars

\* A lease end is told to a caller of a usable host.
LEMMA PromiseMaps ==
    ASSUME NEW h \in Host, UNCHANGED <<vm, task, unheard>>, Others(h),
           Phase(h) = "usable", Phase(h)' = "usable"
    PROVE  Abstract!Next
  <1>1. UNCHANGED task => \A g \in Host : CallerDeleting(g)' <=> CallerDeleting(g)
    BY SameDeleters
  <1>2. Abstract!Promise(h)
    BY <1>1 DEF Abstract!Promise, Others
  <1> QED
    BY <1>2 DEF Abstract!Next

\* A step of a host's coroutine, of its create call, or a renewal.
LEMMA HostStepMaps ==
    ASSUME PromiseMapInv, PromiseMapInv', NEW h \in Host, HostStep(h)
    PROVE  [Abstract!Next]_Abstract!vars
  <1>0. /\ TypeOK /\ row[h] \in Row /\ row[h].status \in Allowed(prov[h]) /\ PromiseHost(h)
        /\ EarlyHost(h) /\ BootedHost(h)
    BY DEF PromiseMapInv, LeaseInv, PromiseInv, Promises, RowInv, OrphanInv, OrphanHost, BootInv,
           TypeOK, Stages
  <1>1. now' = now /\ task' = task /\ \A g \in Host : CallerDeleting(g)' <=> CallerDeleting(g)
    <2>1. now' = now /\ task' = task
      BY DEF HostStep, Create, Provision, StartNetwork, PutSecrets, RequestVM, RecordVM,
             RecordDevice, Activate, Stamp, StepFails, MarkFailed, ProviderAnswers, DeviceJoins,
             Die, Renew, Release, LoserDies
    <2> QED
      BY <2>1, SameDeleters
  <1>2. Others(h)
    BY <1>0, <1>1, OtherHost, Untouched DEF Others
  <1>3. ASSUME UNCHANGED <<vm, unheard>>, row'[h].status = row[h].status, promise'[h] = promise[h]
        PROVE  UNCHANGED Abstract!vars
    BY <1>1, <1>2, <1>3, Untouched, Unseen DEF Others
  <1>4. ASSUME NEW a \in Asks, NEW pool \in BOOLEAN, Create(h, a, pool)
        PROVE  Abstract!Ask(h)
    <2>1. /\ row[h].status = "unborn" /\ row'[h].status = "provisioning" /\ vm' = vm
          /\ UNCHANGED <<promise, unheard>>
      BY <1>0, <1>4 DEF Create, TypeOK
    <2>2. Phase(h) = "absent" /\ Phase(h)' = "pending" /\ ~Held(h) /\ ~Held(h)'
      BY <2>1 DEF Phase, Held, Promised, Preparing, Renewable
    <2> QED
      BY <1>1, <1>2, <2>1, <2>2 DEF Abstract!Ask, Abstract!Become, Others
  <1>5. CASE StartNetwork(h) \/ RequestVM(h)
    <2>1. /\ row[h].status \in Preparing \cup {"gone"}
          /\ row'[h].status \in Preparing \/ row'[h] = row[h]
          /\ row[h].status = "gone" => row'[h].status = "gone"
          /\ UNCHANGED <<vm, promise, unheard>>
      BY <1>0, <1>5, CommitEffect DEF StartNetwork, RequestVM, Allowed, Preparing, Row, Exists
    <2>2. Phase(h)' = Phase(h) /\ ~Held(h) /\ ~Held(h)'
      BY <2>1 DEF Phase, Held, Promised, Preparing, Renewable
    <2> QED
      BY <1>1, <1>2, <2>1, <2>2, Unseen DEF Others
  <1>6. CASE PutSecrets(h) \/ DeviceJoins(h) \/ Die(h) \/ LoserDies(h)
    BY <1>3, <1>6 DEF PutSecrets, DeviceJoins, Die, LoserDies
  <1>15. CASE StepFails(h)
    <2>1. UNCHANGED <<row, promise, vm>>
      BY <1>15 DEF StepFails
    <2>2. CASE unheard' = unheard
      BY <1>3, <2>1, <2>2
    <2>3. CASE unheard' # unheard
      <3>1. prov[h] = "creating" /\ call[h] = "sent" /\ unheard' = unheard \cup {h}
        BY <1>15, <2>3 DEF StepFails
      <3>2. row[h].status \in Preparing
        BY <1>0, <3>1 DEF EarlyHost, Early
      <3>3. Phase(h) = "pending" /\ \A g \in Host : Phase(g)' = Phase(g) /\ (Held(g)' <=> Held(g))
        BY <1>1, <2>1, <3>2, Untouched DEF Phase, Preparing, Renewable
      <3>4. Abstract!Abandon(h)
        BY <1>1, <2>1, <3>1, <3>3 DEF Abstract!Abandon
      <3> QED
        BY <3>4 DEF Abstract!Next
    <2> QED
      BY <2>2, <2>3
  <1>16. CASE Release(h)
    <2>1. /\ UNCHANGED <<vm, unheard>> /\ row'[h].status = row[h].status
          /\ Exists(h) => ~Promised(h)'
      BY <1>0, <1>16, ReleaseEffect, ReleaseWithdraws
    <2>2. Phase(h)' = Phase(h) /\ ~Held(h)'
      BY <2>1 DEF Phase, Held, Renewable, Exists
    <2>3. Abstract!Lapse
      BY <1>1, <1>2, <2>1, <2>2 DEF Abstract!Lapse, Others
    <2> QED
      BY <2>3 DEF Abstract!Next
  <1>7. CASE RecordVM(h)
    <2>1. /\ UNCHANGED <<vm, promise, unheard>> /\ call[h] = "ok" /\ prov[h] = "creating"
          /\ h \notin unheard
      BY <1>0, <1>7 DEF RecordVM, Commit, EarlyHost
    <2>2. CASE Exists(h)
      <3>1. row[h].status = "creating_vm" /\ row'[h].status = "bootstrapping" /\ h \in vm
        BY <1>0, <1>7, <2>1, <2>2, CommitEffect DEF RecordVM, Allowed, Row, Exists, BootedHost
      <3>2. Phase(h) = "pending" /\ Phase(h)' = "usable" /\ ~Held(h) /\ ~Held(h)'
        BY <1>0, <2>1, <3>1 DEF Phase, Held, Promised, Preparing, Renewable, PromiseHost
      <3>3. Abstract!Deliver(h)
        BY <1>1, <1>2, <2>1, <3>1, <3>2 DEF Abstract!Deliver, Abstract!Become, Others
      <3> QED
        BY <3>3 DEF Abstract!Next
    <2>3. CASE ~Exists(h)
      BY <1>0, <1>3, <1>7, <2>1, <2>3, CommitEffect DEF RecordVM
    <2> QED
      BY <2>2, <2>3
  <1>8. CASE RecordDevice(h)
    <2>1. row'[h].status = row[h].status
      BY <1>0, <1>8, CommitEffect DEF RecordDevice, Row
    <2> QED
      BY <1>3, <1>8, <2>1 DEF RecordDevice
  <1>9. CASE Activate(h)
    <2>1. /\ UNCHANGED <<vm, promise, unheard>>
          /\ \/ row[h].status = "bootstrapping" /\ row'[h].status = "active"
             \/ row'[h] = row[h]
      BY <1>0, <1>9, CommitEffect DEF Activate, Allowed, Row, Exists
    <2>2. Phase(h)' = Phase(h) /\ (Held(h)' <=> Held(h))
      BY <1>1, <2>1 DEF Phase, Held, Promised, Preparing, Renewable
    <2> QED
      BY <1>1, <1>2, <2>1, <2>2, Unseen DEF Others
  <1>10. CASE Stamp(h)
    <2>1. CASE Exists(h)
      <3>1. row[h].status = "active" /\ row'[h].status = "active"
            /\ UNCHANGED <<vm, unheard>>
        BY <1>0, <1>10, <2>1, CommitEffect DEF Stamp, Allowed, Row, Exists
      <3>2. Phase(h) = "usable" /\ Phase(h)' = "usable"
        BY <3>1 DEF Phase, Preparing, Renewable
      <3> QED
        BY <1>1, <1>2, <3>1, <3>2, PromiseMaps
    <2>2. CASE ~Exists(h)
      BY <1>0, <1>3, <1>10, <2>2, CommitEffect DEF Stamp
    <2> QED
      BY <2>1, <2>2
  <1>11. CASE MarkFailed(h)
    <2>1. CASE Exists(h)
      <3>a. row[h].status \in Preparing \cup {"bootstrapping"}
        <4>1. prov[h] = "failed"
          BY <1>11 DEF MarkFailed, Commit
        <4> QED
          BY <1>0, <2>1, <4>1 DEF Allowed, Exists, Preparing
      <3>b. row'[h] = [row[h] EXCEPT !.status = "error", !.expires = now]
            /\ UNCHANGED <<vm, unheard>>
        BY <1>0, <1>11, <2>1, CommitEffect DEF MarkFailed
      <3>1. row'[h].status = "error"
        BY <1>0, <3>b DEF Row
      <3>2. Phase(h) \in {"pending", "usable"} /\ Phase(h)' = "failed" /\ ~Held(h)'
        BY <3>a, <3>1 DEF Phase, Held, Preparing, Renewable
      <3>3. Abstract!Fail(h)
        BY <1>1, <1>2, <3>b, <3>2 DEF Abstract!Fail, Abstract!Become, Others
      <3> QED
        BY <3>3 DEF Abstract!Next
    <2>2. CASE ~Exists(h)
      BY <1>0, <1>3, <1>11, <2>2, CommitEffect DEF MarkFailed
    <2> QED
      BY <2>1, <2>2
  <1>12. CASE ProviderAnswers(h)
    <2>1. UNCHANGED <<row, promise, unheard>> /\ vm' \in {vm, vm \cup {h}}
      BY <1>12 DEF ProviderAnswers
    <2>2. \A g \in Host : Phase(g)' = Phase(g) /\ (Held(g)' <=> Held(g))
      BY <1>1, <2>1, Untouched
    <2>3. CASE vm' = vm
      BY <1>3, <2>1, <2>3
    <2>4. CASE vm' = vm \cup {h} /\ h \notin unheard
      <3>1. row[h].status \in Preparing
        BY <1>0, <1>12, <2>4 DEF ProviderAnswers, EarlyHost, Early
      <3>2. Phase(h) = "pending"
        BY <3>1 DEF Phase, Preparing, Renewable
      <3>3. Abstract!Boot(h)
        BY <1>1, <2>1, <2>2, <2>4, <3>2 DEF Abstract!Boot
      <3> QED
        BY <3>3 DEF Abstract!Next
    <2>5. CASE vm' = vm \cup {h} /\ h \in unheard
      <3>1. Abstract!Stray(h)
        BY <1>1, <2>1, <2>2, <2>5 DEF Abstract!Stray
      <3> QED
        BY <3>1 DEF Abstract!Next
    <2> QED
      BY <2>1, <2>3, <2>4, <2>5
  <1>13. ASSUME NEW a \in Asks, Renew(h, a)
         PROVE  Abstract!Next
    <2>1. /\ row[h].status \in Renewable /\ row'[h].status = row[h].status
          /\ UNCHANGED <<vm, unheard>>
      BY <1>0, <1>13 DEF Renew, TypeOK, Row
    <2>2. Phase(h) = "usable" /\ Phase(h)' = "usable"
      BY <2>1 DEF Phase, Preparing, Renewable
    <2> QED
      BY <1>1, <1>2, <2>1, <2>2, PromiseMaps
  <1>14. ASSUME NEW a \in Asks, NEW pool \in BOOLEAN, Create(h, a, pool)
         PROVE  Abstract!Next
    BY <1>4, <1>14 DEF Abstract!Next
  <1> QED
    BY <1>5, <1>6, <1>7, <1>8, <1>9, <1>10, <1>11, <1>12, <1>13, <1>14,
       <1>15, <1>16
    DEF HostStep, Provision

\* A step of a warm claim.
LEMMA ClaimStepMaps ==
    ASSUME PromiseMapInv, NEW q \in Request, NEW h \in Host, ClaimStep(q, h)
    PROVE  [Abstract!Next]_Abstract!vars
  <1>0. /\ TypeOK /\ row[h] \in Row
        /\ cand[q].host = h => row[h].status \in {"active", "gone"}
    BY DEF PromiseMapInv, LeaseInv, PromiseInv, TypeOK, Stages
  <1>1. /\ UNCHANGED <<now, task, vm, unheard>>
        /\ \A g \in Host : CallerDeleting(g)' <=> CallerDeleting(g)
    <2>1. UNCHANGED <<now, task, vm, unheard>>
      BY DEF ClaimStep, SelectCandidate, Claim, ClaimFails
    <2> QED
      BY <2>1, SameDeleters
  <1>2. CASE Claim(q, h)
    <2>1. row[h].status = "active" /\ row'[h].status = "active"
      BY <1>0, <1>2 DEF Claim, Exists, TypeOK
    <2>2. \A g \in Host \ {h} : row'[g] = row[g] /\ promise'[g] = promise[g]
      BY <1>0, <1>2 DEF Claim, Answer, TypeOK
    <2>3. Others(h)
      BY <1>1, <2>2, Untouched DEF Others
    <2>4. Phase(h) = "usable" /\ Phase(h)' = "usable"
      BY <2>1 DEF Phase, Preparing, Renewable
    <2> QED
      BY <1>1, <2>3, <2>4, PromiseMaps
  <1>3. CASE UNCHANGED <<row, promise>>
    BY <1>1, <1>3, Untouched, Unseen
  <1> QED
    BY <1>2, <1>3 DEF ClaimStep, SelectCandidate, ClaimFails

\* The janitor and the maintainer end no host whose promised lease runs, and a
\* caller who ends one is deleting it.
LEMMA EndersMayEnd ==
    ASSUME PromiseMapInv, NEW t \in Task, TearingDown(t), NEW h \in Host, task[t].host = h
    PROVE  Abstract!MayEnd(h)
  <1>1. Phase(h) \notin {"absent", "gone"}
    <2>1. row[h].status \notin {"unborn", "gone"} /\ row[h].status \in Status
      BY DEF PromiseMapInv, LeaseInv, PromiseInv, TypeOK, Row, BootInv, RowedTask, Exists
    <2> QED
      BY <2>1 DEF Phase, Status, Preparing, VMBacked, Renewable
  <1>2. Held(h) => CallerDeleting(h)
    <2> SUFFICES ASSUME Held(h) PROVE CallerDeleting(h)
      OBVIOUS
    <2>1. row[h].expires = promise[h] /\ task[t].kind \in Kind
      BY DEF PromiseMapInv, LeaseInv, PromiseInv, Promises, PromiseHost, TypeOK, Held
    <2>2. CASE task[t].kind = "janitor"
      BY <2>1, <2>2 DEF PromiseMapInv, LeaseInv, LockInv, LockTask, Unexpired, Held
    <2>3. CASE task[t].kind = "shed"
      <3>1. row[h].pool /\ ~row[h].claimed
        BY <2>3 DEF PromiseMapInv, LeaseInv, LockInv, LockTask, TearingDown
      <3> QED
        BY <3>1 DEF PromiseMapInv, LeaseInv, PromiseInv, PoolInv, PoolHost, Held
    <2>4. CASE task[t].kind = "api"
      BY <2>4 DEF CallerDeleting, TearingDown
    <2> QED
      BY <2>1, <2>2, <2>3, <2>4 DEF Kind
  <1> QED
    BY <1>1, <1>2 DEF Abstract!MayEnd, Abstract!Ended

\* When a delete that holds a row lock lets it go, no other caller is at the host.
LEMMA OnlyDeleter ==
    ASSUME PromiseMapInv, NEW t \in Task, TearingDown(t), task' = [task EXCEPT ![t] = Idle],
           NEW g \in Host
    PROVE  CallerDeleting(g)' <=>
             CallerDeleting(g) /\ ~(g = task[t].host /\ task[t].kind = "api")
  <1>0. task \in [Task -> [pc: TaskPc, host: Host \cup {NoHost}, kind: Kind, holds: BOOLEAN]]
    BY DEF PromiseMapInv, LeaseInv, PromiseInv, TypeOK
  <1>1. \A u \in Task : task[u].pc \notin {"idle", "picked"} => TearingDown(u) /\ task[u].holds
    BY <1>0 DEF PromiseMapInv, LeaseInv, LockInv, LockTask, TearingDown, TaskPc
  <1>2. \A u \in Task \ {t} : task[u].holds => task[u].host # task[t].host
    BY <1>1 DEF PromiseMapInv, LeaseInv, LockInv, LockTask
  <1>3. task'[t] = Idle /\ \A u \in Task \ {t} : task'[u] = task[u]
    BY <1>0
  <1>4. CallerDeleting(g)' <=> \E u \in Task \ {t} :
            task[u].host = g /\ task[u].kind = "api" /\ task[u].pc \notin {"idle", "picked"}
    BY <1>3 DEF CallerDeleting, Idle
  <1> QED
    BY <1>1, <1>2, <1>4 DEF CallerDeleting, TearingDown

\* A move of one delete that neither begins nor ends a caller's.
LEMMA DeleterGoesOn ==
    ASSUME TypeOK, NEW t \in Task, \A u \in Task \ {t} : task'[u] = task[u],
           task'[t].pc \notin {"idle", "picked"} /\ task'[t].kind = "api" <=>
               task[t].pc \notin {"idle", "picked"} /\ task[t].kind = "api",
           task[t].pc \notin {"idle", "picked"} => task'[t].host = task[t].host,
           NEW g \in Host
    PROVE  CallerDeleting(g)' <=> CallerDeleting(g)
  BY DEF CallerDeleting

\* A step of a delete.
LEMMA TaskStepMaps ==
    ASSUME ~Tailnet, PromiseMapInv, NEW t \in Task, TaskStep(t)
    PROVE  [Abstract!Next]_Abstract!vars
  <1>0. /\ TypeOK /\ LockTask(t) /\ OrphanTask(t) /\ RowedTask(t)
        /\ task[t] \in [pc: TaskPc, host: Host \cup {NoHost}, kind: Kind, holds: BOOLEAN]
    BY DEF PromiseMapInv, LeaseInv, PromiseInv, LockInv, RowInv, OrphanInv, BootInv, TypeOK
  <1>1. ASSUME UNCHANGED <<row, promise, now>>
        PROVE  \A g \in Host : Phase(g)' = Phase(g) /\ (Held(g)' <=> Held(g))
    BY <1>1, Untouched
  <1>2. ASSUME UNCHANGED <<row, promise, now, vm, unheard>>,
               \A g \in Host : CallerDeleting(g)' <=> CallerDeleting(g)
        PROVE  UNCHANGED Abstract!vars
    BY <1>1, <1>2, Unseen
  <1>3. ASSUME NEW k \in Kind, NEW h \in Host, Select(t, k, h)
        PROVE  UNCHANGED Abstract!vars
    <2>1. /\ \A u \in Task \ {t} : task'[u] = task[u]
          /\ task'[t].pc = "picked" /\ task[t].pc = "idle"
      BY <1>0, <1>3 DEF Select, TypeOK
    <2>2. \A g \in Host : CallerDeleting(g)' <=> CallerDeleting(g)
      BY <1>0, <2>1, DeleterGoesOn
    <2> QED
      BY <1>2, <1>3, <2>2 DEF Select
  <1>4. ASSUME NEW h \in Host, Begin(t, h)
        PROVE  [Abstract!Next]_Abstract!vars
    <2>1. /\ task[t].pc = "picked" /\ task[t].host = h
          /\ UNCHANGED <<row, promise, now, vm, unheard>>
          /\ \A u \in Task \ {t} : task'[u] = task[u]
          /\ task'[t] = IF Spared(task[t].kind, h) THEN Idle
                        ELSE [task[t] EXCEPT !.pc = FirstTeardown(h), !.holds = TRUE]
      BY <1>0, <1>4 DEF Begin, At, TypeOK
    <2>2. CASE Spared(task[t].kind, h) \/ task[t].kind # "api"
      <3>1. task'[t].pc \notin {"idle", "picked"} => task'[t].kind # "api"
        BY <1>0, <2>1, <2>2 DEF Idle
      <3>2. \A g \in Host : CallerDeleting(g)' <=> CallerDeleting(g)
        BY <1>0, <2>1, <3>1, DeleterGoesOn
      <3> QED
        BY <1>2, <2>1, <3>2
    <2>3. CASE ~Spared(task[t].kind, h) /\ task[t].kind = "api"
      <3>1. task'[t].pc = "secrets" /\ task'[t].kind = "api" /\ task'[t].host = h
        BY <1>0, <2>1, <2>3 DEF FirstTeardown
      <3>2. \A g \in Host : CallerDeleting(g)' <=> CallerDeleting(g) \/ g = h
        BY <2>1, <3>1 DEF CallerDeleting
      <3>3. row[h].status \in VMBacked
        BY <1>0, <2>3 DEF Spared, Exists, TypeOK, Row, Status
      <3>4. Phase(h) \notin {"absent", "gone", "pending"}
        BY <3>3 DEF Phase, VMBacked, Preparing, Renewable
      <3>5. Abstract!CallerDeletes(h)
        BY <1>1, <2>1, <3>2, <3>4 DEF Abstract!CallerDeletes, Abstract!Ended
      <3> QED
        BY <3>5 DEF Abstract!Next
    <2> QED
      BY <2>2, <2>3
  <1>5. ASSUME NEW h \in Host, DeleteSecrets(t, h) \/ DestroyVM(t, h)
        PROVE  \A g \in Host : CallerDeleting(g)' <=> CallerDeleting(g)
    <2>1. /\ \A u \in Task \ {t} : task'[u] = task[u]
          /\ task'[t].pc \in {"destroy", "drop"} /\ task[t].pc \in {"secrets", "destroy"}
          /\ task'[t].host = task[t].host /\ task'[t].kind = task[t].kind
      BY <1>0, <1>5 DEF DeleteSecrets, DestroyVM, At, Advance, TypeOK
    <2> QED
      BY <1>0, <2>1, DeleterGoesOn
  <1>6. ASSUME NEW h \in Host, DestroyVM(t, h)
        PROVE  Abstract!Stop(h)
    <2>1. /\ TearingDown(t) /\ task[t].host = h
          /\ UNCHANGED <<row, promise, now, unheard>> /\ vm' = vm \ {h}
      BY <1>6 DEF DestroyVM, At, TearingDown
    <2> QED
      BY <1>1, <1>5, <1>6, <2>1, EndersMayEnd DEF Abstract!Stop
  <1>7. ASSUME NEW h \in Host, DropRow(t, h)
        PROVE  Abstract!End(h)
    <2>1. /\ TearingDown(t) /\ task[t].host = h /\ task' = [task EXCEPT ![t] = Idle]
          /\ UNCHANGED <<vm, promise, now, unheard>>
          /\ row' = [row EXCEPT ![h].status = "gone"] /\ h \notin vm \ unheard
      BY <1>0, <1>7 DEF DropRow, At, TearingDown, OrphanTask
    <2>2. row'[h].status = "gone" /\ \A g \in Host \ {h} : row'[g] = row[g]
      BY <1>0, <2>1 DEF TypeOK, Row
    <2>3. Phase(h)' = "gone" /\ ~Held(h)'
      BY <2>2 DEF Phase, Held, Preparing, Renewable
    <2>4. \A g \in Host \ {h} : Phase(g)' = Phase(g) /\ (Held(g)' <=> Held(g))
      BY <2>1, <2>2, Untouched
    <2>5. Abstract!MayEnd(h)
      BY <2>1, EndersMayEnd
    <2>6. \A g \in Host : CallerDeleting(g)' <=>
                            CallerDeleting(g) /\ ~(g = h /\ task[t].kind = "api")
      BY <2>1, OnlyDeleter
    <2>7. task[t].kind # "api" => ~CallerDeleting(h)
      <3>1. \A u \in Task \ {t} : task[u].holds => task[u].host # h
        BY <1>0, <2>1 DEF LockTask
      <3>2. \A u \in Task : task[u].pc \notin {"idle", "picked"} => task[u].holds
        BY <1>0 DEF PromiseMapInv, LeaseInv, LockInv, LockTask, TearingDown, TypeOK, TaskPc
      <3> QED
        BY <3>1, <3>2 DEF CallerDeleting
    <2>8. \A g \in Host : CallerDeleting(g)' <=> CallerDeleting(g) /\ g # h
      BY <2>6, <2>7
    <2> QED
      BY <2>1, <2>3, <2>4, <2>5, <2>8 DEF Abstract!End, Abstract!Become
  <1>8. CASE Abort(t)
    <2>1. /\ task[t].pc # "idle" /\ task' = [task EXCEPT ![t] = Idle]
          /\ UNCHANGED <<row, promise, now, vm, unheard>>
      BY <1>8 DEF Abort
    <2>2. CASE ~TearingDown(t)
      <3>1. /\ task[t].pc = "picked" /\ task'[t].pc = "idle"
            /\ \A u \in Task \ {t} : task'[u] = task[u]
        BY <1>0, <2>1, <2>2 DEF TearingDown, TaskPc, TypeOK, Idle
      <3>2. \A g \in Host : CallerDeleting(g)' <=> CallerDeleting(g)
        BY <1>0, <3>1, DeleterGoesOn
      <3> QED
        BY <1>2, <2>1, <3>2
    <2>3. CASE TearingDown(t)
      <3> DEFINE h == task[t].host
      <3>1. h \in Host /\ Abstract!MayEnd(h)
        BY <2>1, <2>3, EndersMayEnd DEF PromiseMapInv, LeaseInv, PromiseInv, TaskHosts
      <3>2. \A g \in Host : CallerDeleting(g)' <=>
                              CallerDeleting(g) /\ ~(g = h /\ task[t].kind = "api")
        BY <2>1, <2>3, OnlyDeleter
      <3>3. CASE task[t].kind = "api"
        <4>1. Abstract!CallerDeletes(h)
          BY <1>1, <2>1, <3>1, <3>2, <3>3 DEF Abstract!CallerDeletes, Abstract!MayEnd
        <4> QED
          BY <3>1, <4>1 DEF Abstract!Next
      <3>4. CASE task[t].kind # "api"
        BY <1>2, <2>1, <3>2, <3>4
      <3> QED
        BY <3>3, <3>4
    <2> QED
      BY <2>2, <2>3
  <1>9. ASSUME NEW h \in Host, ReleaseDevice(t, h) \/ CommitUnlink(t, h)
        PROVE  FALSE
    BY <1>0, <1>9 DEF ReleaseDevice, CommitUnlink, At, LockTask, TearingDown
  <1>10. ASSUME NEW h \in Host, DeleteSecrets(t, h)
         PROVE  UNCHANGED Abstract!vars
    BY <1>2, <1>5, <1>10 DEF DeleteSecrets
  <1>11. ASSUME NEW h \in Host, DestroyVM(t, h) \/ DropRow(t, h)
         PROVE  Abstract!Next
    BY <1>6, <1>7, <1>11 DEF Abstract!Next
  <1> QED
    BY <1>3, <1>4, <1>8, <1>9, <1>10, <1>11 DEF TaskStep, Teardown

\* Time runs leases out.
LEMMA TickMaps ==
    ASSUME PromiseMapInv, Tick
    PROVE  Abstract!Lapse
  <1>1. UNCHANGED <<row, promise, vm, task, unheard>> /\ now' = now + 1 /\ now \in Nat
    BY DEF Tick, PromiseMapInv, LeaseInv, PromiseInv, TypeOK
  <1>2. \A g \in Host : Phase(g)' = Phase(g) /\ (CallerDeleting(g)' <=> CallerDeleting(g))
    BY <1>1 DEF Phase, CallerDeleting
  <1>3. \A g \in Host : Held(g)' => Held(g)
    <2> SUFFICES ASSUME NEW g \in Host, Held(g)' PROVE Held(g)
      OBVIOUS
    <2>1. promise[g] \in Lease
      BY <1>1 DEF Held, Promised
    <2>2. promise[g] = Never \/ promise[g] > now + 1
      BY <1>1 DEF Held
    <2>3. promise[g] = Never \/ promise[g] > now
      BY <1>1, <2>1, <2>2 DEF Lease, Never
    <2> QED
      BY <1>1, <2>3 DEF Held, Promised
  <1> QED
    BY <1>1, <1>2, <1>3 DEF Abstract!Lapse

\* Only the create call of a coroutine that waits for it makes it ready, and no
\* delete destroys the VM of such a host.
LEMMA BootedStep ==
    ASSUME PromiseMapInv, [Next]_vars, NEW g \in Host
    PROVE  BootedHost(g)'
  <1>0. /\ TypeOK /\ BootedHost(g) /\ row[g].status \in Allowed(prov[g])
        /\ EarlyHost(g)
    BY DEF PromiseMapInv, LeaseInv, PromiseInv, BootInv, Stages, RowInv, OrphanInv, OrphanHost
  <1>1. CASE UNCHANGED <<prov, call>> /\ vm \subseteq vm'
    BY <1>0, <1>1 DEF BootedHost
  <1>2. ASSUME NEW h \in Host, HostStep(h)
        PROVE  BootedHost(g)'
    <2>1. ASSUME NEW a \in Asks, NEW pool \in BOOLEAN, Create(h, a, pool)
          PROVE  (prov'[g] = "creating" => prov[g] = "creating") /\ call' = call /\ vm' = vm
      BY <1>0, <2>1 DEF Create, TypeOK
    <2>2. CASE RequestVM(h)
      BY <1>0, <2>2 DEF RequestVM, Commit, TypeOK, BootedHost
    <2>3. ASSUME StartNetwork(h) \/ PutSecrets(h) \/ RecordVM(h) \/ RecordDevice(h)
                   \/ Activate(h) \/ Stamp(h) \/ StepFails(h) \/ MarkFailed(h) \/ Die(h)
          PROVE  (prov'[g] = "creating" => prov[g] = "creating") /\ call' = call /\ vm' = vm
      BY <1>0, <2>3 DEF StartNetwork, PutSecrets, RecordVM, RecordDevice, Activate, Stamp,
                        StepFails, MarkFailed, Die, Commit, TypeOK
    <2>4. CASE ProviderAnswers(h)
      BY <1>0, <2>4 DEF ProviderAnswers, TypeOK, BootedHost
    <2>5. ASSUME NEW a \in Asks, DeviceJoins(h) \/ Renew(h, a) \/ Release(h) \/ LoserDies(h)
          PROVE  UNCHANGED <<prov, call, vm>>
      BY <2>5 DEF DeviceJoins, Renew, Release, LoserDies
    <2>6. Asks # {}
      BY DEF Asks
    <2> QED
      BY <1>0, <1>2, <2>1, <2>2, <2>3, <2>4, <2>5, <2>6 DEF HostStep, Provision, BootedHost
  <1>3. ASSUME NEW q \in Request, NEW h \in Host, ClaimStep(q, h)
        PROVE  UNCHANGED <<prov, call, vm>>
    BY <1>3 DEF ClaimStep, SelectCandidate, Claim, ClaimFails
  <1>4. ASSUME NEW t \in Task, NEW h \in Host, DestroyVM(t, h)
        PROVE  BootedHost(g)'
    <2>1. ~Early(h)
      BY <1>4 DEF PromiseMapInv, RowInv, OrphanInv, OrphanTask, DestroyVM, At, TearingDown
    <2> QED
      BY <1>0, <1>4, <2>1 DEF DestroyVM, BootedHost, Early
  <1>5. ASSUME NEW t \in Task, TaskStep(t)
        PROVE  UNCHANGED <<prov, call, vm>> \/ \E h \in Host : DestroyVM(t, h)
    BY <1>5 DEF TaskStep, Select, Teardown, Begin, ReleaseDevice, CommitUnlink, DeleteSecrets,
                DropRow, Abort
  <1>6. CASE UNCHANGED <<prov, call, vm>>
    BY <1>1, <1>6
  <1> QED
    BY <1>1, <1>2, <1>3, <1>4, <1>5, <1>6 DEF Next, Tick, vars

\* The guards found the row, and its lock is held until it is gone.
LEMMA RowedStep ==
    ASSUME ~Tailnet, PromiseMapInv, [Next]_vars, NEW t \in Task
    PROVE  RowedTask(t)'
  <1>0. TypeOK /\ TaskHosts /\ LockInv /\ LockTask(t) /\ RowedTask(t)
    BY DEF PromiseMapInv, LeaseInv, PromiseInv, BootInv, LockInv
  <1> SUFFICES ASSUME TearingDown(t)' PROVE Exists(task[t].host)'
    BY DEF RowedTask
  <1>1. TaskMove(t) /\ task'[t] # Idle
    BY <1>0, TaskMoveStep DEF TearingDown, Idle
  <1>2. CASE task[t].pc = "picked" /\ task'[t].pc = "secrets"
    BY <1>1, <1>2 DEF TaskMove, Spared, Exists
  <1>3. CASE TearingDown(t) /\ task'[t].host = task[t].host
    <2>1. task[t].holds /\ task[t].host \in Host /\ row[task[t].host].status # "unborn"
      BY <1>0, <1>3 DEF LockTask, TaskHosts, TearingDown
    <2>2. row'[task[t].host] = row[task[t].host]
      BY <1>0, <1>1, <2>1, LockedRow
    <2> QED
      BY <1>0, <1>3, <2>2 DEF RowedTask, Exists
  <1>4. \/ task[t].pc = "picked" /\ task'[t].pc = "secrets"
        \/ TearingDown(t) /\ task'[t].host = task[t].host
    <2>1. ASSUME NEW h \in Host, NEW k \in Kind,
                 task'[t] = [pc |-> "picked", host |-> h, kind |-> k, holds |-> FALSE]
          PROVE  FALSE
      BY <2>1 DEF TearingDown
    <2>2. CASE task'[t] = task[t]
      BY <2>2 DEF TearingDown
    <2> QED
      BY <1>1, <2>1, <2>2 DEF TaskMove, TearingDown
  <1> QED
    BY <1>2, <1>3, <1>4

\* Every step of the system is a step of the promise, or none.
LEMMA StepMaps ==
    ASSUME ~Tailnet, PromiseMapInv, PromiseMapInv', [Next]_vars
    PROVE  [Abstract!Next]_Abstract!vars
  <1>1. CASE Tick
    BY <1>1, TickMaps DEF Abstract!Next
  <1>2. CASE UNCHANGED vars
    BY <1>2, Untouched, SameDeleters, Unseen DEF vars
  <1> QED
    BY <1>1, <1>2, HostStepMaps, ClaimStepMaps, TaskStepMaps DEF Next

\* Outside the tailnet, and while provisions end within their grace, rows, locks,
\* coroutines, create calls and racing deletes together do no more than the API
\* promises, for any number of hosts, deletes and claims: a VM comes up only for a
\* host asked for, or late for a create that was given up, and only a caller ends a
\* host whose promised lease runs and was not released (create_host, provision,
\* renew_host, the warm claim and its release, delete_host and its callers).
THEOREM PromiseIsImplemented ==
    ASSUME ~Tailnet, ProvisionBound < Grace
    PROVE  Spec => ImplementsPromise
  <1>1. Init => BootInv /\ Abstract!Init
    <2> SUFFICES ASSUME Init PROVE BootInv /\ Abstract!Init
      OBVIOUS
    <2>1. BootInv
      BY DEF Init, BootInv, BootedHost, RowedTask, TearingDown, Idle
    <2>2. \A h \in Host : Phase(h) = "absent" /\ ~Held(h) /\ ~CallerDeleting(h)
      <3> SUFFICES ASSUME NEW h \in Host
                   PROVE  Phase(h) = "absent" /\ ~Held(h) /\ ~CallerDeleting(h)
        OBVIOUS
      <3>1. row[h].status = "unborn"
        BY DEF Init, Unborn
      <3>2. Phase(h) = "absent" /\ ~Held(h)
        BY <3>1 DEF Phase, Held, Preparing, Renewable
      <3>3. ~CallerDeleting(h)
        BY DEF Init, CallerDeleting, Idle
      <3> QED
        BY <3>2, <3>3
    <2> QED
      BY <2>1, <2>2 DEF Init, Abstract!Init
  <1>2. LeaseInv /\ RowInv /\ BootInv /\ [Next]_vars => BootInv'
    BY BootedStep, RowedStep DEF BootInv, PromiseMapInv
  <1>3. /\ LeaseInv /\ RowInv /\ BootInv
        /\ LeaseInv' /\ RowInv' /\ BootInv'
        /\ [Next]_vars
        => [Abstract!Next]_Abstract!vars
    BY StepMaps DEF PromiseMapInv
  <1> QED
    BY <1>1, <1>2, <1>3, LeaseInvariant, RowInvariant, PTL
    DEF Spec, ImplementsPromise, Abstract!Spec
=============================================================================
