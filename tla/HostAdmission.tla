---------------------------- MODULE HostAdmission ----------------------------
(***************************************************************************)
(* Who gets a host, and which one: get_or_create_host of                   *)
(* src/hosts/service.py.  POST /hosts looks its idempotency key up, counts  *)
(* the account's live hosts under an advisory lock, claims a warm host or  *)
(* inserts a new one within the provider's limit, provisions it, and        *)
(* records the key; the loser of a race for the key gives its host back.    *)
(* The pool maintainer's top-ups run the second half alone.                *)
(*                                                                         *)
(* Every statement that another request can overtake is a step of its own. *)
(* One provider is modelled: its limit has a lock of its own.  Of a host's *)
(* time the counts see only whether it has expired; HostLifecycle has the   *)
(* times, and what a delete does between its first and last step.          *)
(***************************************************************************)
EXTENDS Integers, FiniteSets

CONSTANTS
    Request,        \* POST /hosts calls
    Filler,         \* creates of the pool maintainer
    Nobody,         \* no request
    Account,        \* service accounts
    Admin,          \* the account of the admin key, which no account limit binds
    NoAccount,      \* service_account NULL
    Key,            \* idempotency keys
    NoKey,          \* a request without the header
    MaxHosts,       \* bound: how many rows are ever inserted
    Warm,           \* how many warm hosts there are to begin with
    AccountLimit,   \* settings.host_limit_per_service_account; 0 for none
    ProviderLimit,  \* the provider's entry of settings.host_limits
    Unlimited       \* the provider has no entry

ASSUME NamesAssumption ==
    /\ Request \cap Filler = {} /\ Nobody \notin Request \cup Filler
    /\ Admin \in Account /\ NoAccount \notin Account /\ NoKey \notin Key
ASSUME LimitsAssumption ==
    /\ MaxHosts \in Nat \ {0} /\ Warm \in 0..MaxHosts /\ AccountLimit \in Nat
    /\ ProviderLimit \in Nat \/ ProviderLimit = Unlimited
    \* The warm hosts were let in by the limit themselves.
    /\ ProviderLimit # Unlimited => Warm <= ProviderLimit

VARIABLES
    host,      \* the hosts table
    keys,      \* the idempotency_keys table
    epoch,     \* history: how often a record of the key has outlived its TTL
    swept,     \* history: keys whose fresh record a collection has deleted
    revived,   \* history: hosts that were live again after they had expired
    req,       \* what each request asks for
    pc,        \* where each request is
    own,       \* the host a request claimed or inserted
    cand,      \* the warm host a request has selected
    seen,      \* the key's host a request has read
    late,      \* history: hosts inserted after a lost warm claim
    accountLock, providerLock   \* holders of the advisory locks

vars == <<host, keys, epoch, swept, revived, req, pc, own, cand, seen, late,
          accountLock, providerLock>>

Host == 1..MaxHosts    \* in the order of created_at
NoHost == 0

Status == {"unborn", "preparing", "bootstrapping", "active", "error", "gone"}
HostRow == [status: Status, account: Account \cup {NoAccount}, pool: BOOLEAN,
            claimed: BOOLEAN, expired: BOOLEAN, initial: BOOLEAN]
KeyRow == [host: Host \cup {NoHost}, fresh: BOOLEAN]
Ask == [account: Account \cup {NoAccount}, key: Key \cup {NoKey}, plain: BOOLEAN]

NoRecord == [host |-> NoHost, fresh |-> FALSE]
Nothing == [host |-> NoHost, epoch |-> 0]

Caller == Request \cup Filler
Ended == {"answered", "ended"}
Pc == Ended \cup {"idle", "lookup", "read", "collect", "admit", "claim", "update", "check",
                  "insert", "provision", "stamp", "record", "release"}

Exists(h) == host[h].status \notin {"unborn", "gone"}

\* A host is live that is neither in error nor expired: what both limits count.
Live(h) == Exists(h) /\ host[h].status # "error" /\ ~host[h].expired

LiveOf(a) == {h \in Host : Live(h) /\ host[h].account = a}
LiveHosts == {h \in Host : Live(h)}

Claimable(h) == host[h].pool /\ ~host[h].claimed /\ host[h].status = "active" /\ ~host[h].expired

TypeOK ==
    /\ host \in [Host -> HostRow]
    /\ keys \in [Key -> KeyRow]
    /\ epoch \in [Key -> Nat]
    /\ swept \subseteq Key
    /\ revived \subseteq Host
    /\ req \in [Caller -> Ask]
    /\ pc \in [Caller -> Pc]
    /\ own \in [Caller -> Host \cup {NoHost}]
    /\ cand \in [Caller -> Host \cup {NoHost}]
    /\ seen \in [Caller -> [host: Host \cup {NoHost}, epoch: Nat]]
    /\ late \subseteq Host
    /\ accountLock \in [Account -> Request \cup {Nobody}]
    /\ providerLock \in Caller \cup {Nobody}

Unborn == [status |-> "unborn", account |-> NoAccount, pool |-> FALSE, claimed |-> FALSE,
           expired |-> FALSE, initial |-> FALSE]
WarmHost == [Unborn EXCEPT !.status = "active", !.pool = TRUE]
GoneHost == [Unborn EXCEPT !.status = "gone"]
NoAsk == [account |-> NoAccount, key |-> NoKey, plain |-> FALSE]

Init ==
    /\ host = [h \in Host |-> IF h <= Warm THEN WarmHost ELSE Unborn]
    /\ keys = [k \in Key |-> NoRecord]
    /\ epoch = [k \in Key |-> 0]
    /\ swept = {}
    /\ revived = {}
    /\ req = [r \in Caller |-> NoAsk]
    /\ pc = [r \in Caller |-> "idle"]
    /\ own = [r \in Caller |-> NoHost]
    /\ cand = [r \in Caller |-> NoHost]
    /\ seen = [r \in Caller |-> Nothing]
    /\ late = {}
    /\ accountLock = [a \in Account |-> Nobody]
    /\ providerLock = Nobody

-----------------------------------------------------------------------------
(* The transaction of a request's own session holds its advisory locks; it *)
(* ends with a commit, an error or the death of the request.               *)

ReleaseLocks(r) ==
    /\ accountLock' = [a \in Account |-> IF accountLock[a] = r THEN Nobody ELSE accountLock[a]]
    /\ providerLock' = IF providerLock = r THEN Nobody ELSE providerLock

KeepLocks == UNCHANGED <<accountLock, providerLock>>

Goto(r, to) == pc' = [pc EXCEPT ![r] = to]

\* The request is refused, its host fails, or it dies.
Ends(r) ==
    /\ Goto(r, "ended")
    /\ req' = [req EXCEPT ![r] = NoAsk]
    /\ own' = [own EXCEPT ![r] = NoHost]
    /\ cand' = [cand EXCEPT ![r] = NoHost]
    /\ seen' = [seen EXCEPT ![r] = Nothing]

\* The request is answered with the host and the age of the key.
Answer(r, what) ==
    /\ Goto(r, "answered")
    /\ seen' = [seen EXCEPT ![r] = what]
    /\ req' = [req EXCEPT ![r].plain = FALSE]
    /\ own' = [own EXCEPT ![r] = NoHost]
    /\ UNCHANGED cand

GoesOn(r, to) == Goto(r, to) /\ UNCHANGED <<req, own, cand, seen>>

Untouched == UNCHANGED <<keys, epoch, swept, revived, late>>

-----------------------------------------------------------------------------
(* The idempotency key.                                                    *)

Arrive(r, a, k, plain) ==
    /\ pc[r] = "idle" /\ r \in Request
    /\ req' = [req EXCEPT ![r] = [account |-> a, key |-> k, plain |-> plain]]
    /\ Goto(r, IF k = NoKey THEN "admit" ELSE "lookup")
    /\ KeepLocks
    /\ UNCHANGED <<host, keys, epoch, swept, revived, own, cand, seen, late>>

\* After a lost race the second lookup must find the winner.
Unknown(r) == IF own[r] = NoHost THEN GoesOn(r, "admit") ELSE Ends(r)

\* _lookup_idempotency_key: SELECT the key, and look at its expiry.
LookUp(r) ==
    LET record == keys[req[r].key] IN
    /\ pc[r] = "lookup"
    /\ \/ record = NoRecord /\ Unknown(r)
       \/ /\ record.fresh
          /\ Goto(r, "read")
          /\ seen' = [seen EXCEPT ![r] = [host |-> record.host, epoch |-> epoch[req[r].key]]]
          /\ UNCHANGED <<req, own, cand>>
       \/ record # NoRecord /\ ~record.fresh /\ GoesOn(r, "collect")
    /\ KeepLocks /\ Untouched /\ UNCHANGED host

SameAccount(r, h) == host[h].account = req[r].account

\* Then SELECT the host it names.
ReadHost(r) ==
    LET h == seen[r].host IN
    /\ pc[r] = "read"
    /\ IF ~Exists(h) THEN GoesOn(r, "collect")
       ELSE IF SameAccount(r, h) THEN Answer(r, seen[r]) ELSE Ends(r)
    /\ KeepLocks /\ Untouched /\ UNCHANGED host

\* A session of its own deletes the key by its name: whatever it holds by now.
Collect(r) ==
    LET k == req[r].key IN
    /\ pc[r] = "collect"
    /\ keys' = [keys EXCEPT ![k] = NoRecord]
    /\ swept' = IF keys[k].fresh THEN swept \cup {k} ELSE swept
    /\ Unknown(r)
    /\ KeepLocks /\ UNCHANGED <<host, epoch, revived, late>>

\* Mutation: the INSERT replaces the record it meets.
KeyFreeAlways(k) == TRUE

KeyFree(k) == keys[k] = NoRecord

\* _record_idempotency_key: the key is taken, or the host it would name is gone;
\* either is an IntegrityError.
Record(r) ==
    LET k == req[r].key IN
    /\ pc[r] = "record"
    /\ \/ /\ k = NoKey
          /\ Answer(r, [host |-> own[r], epoch |-> 0])
          /\ UNCHANGED keys
       \/ /\ k # NoKey /\ KeyFree(k) /\ Exists(own[r])
          /\ Answer(r, [host |-> own[r], epoch |-> epoch[k]])
          /\ keys' = [keys EXCEPT ![k] = [host |-> own[r], fresh |-> TRUE]]
       \/ /\ k # NoKey /\ ~(KeyFree(k) /\ Exists(own[r]))
          /\ GoesOn(r, "release")
          /\ UNCHANGED keys
    /\ KeepLocks /\ UNCHANGED <<host, epoch, swept, revived, late>>

\* A claimed host goes back to the pool with a new lease.
Returned(row) ==
    [row EXCEPT !.claimed = FALSE, !.account = NoAccount, !.expired = FALSE, !.initial = FALSE]

\* _release_idempotency_loser: a fresh host is left to the janitor.
Release(r) ==
    LET h == own[r] IN
    /\ pc[r] = "release"
    /\ IF ~Exists(h)
       THEN UNCHANGED <<host, revived>>
       ELSE IF host[h].claimed
       THEN /\ host' = [host EXCEPT ![h] = Returned(@)]
            /\ revived' = IF host[h].expired THEN revived \cup {h} ELSE revived
       ELSE /\ host' = [host EXCEPT ![h].expired = TRUE, ![h].initial = FALSE]
            /\ UNCHANGED revived
    /\ GoesOn(r, "lookup")
    /\ KeepLocks /\ UNCHANGED <<keys, epoch, swept, late>>

-----------------------------------------------------------------------------
(* The limits and the warm claim.                                          *)

\* Mutation: the count lets one too many in.
AtLimitTooLate(live, limit) == Cardinality(live) > limit

AtLimit(live, limit) == Cardinality(live) >= limit

\* The account's count, under the lock that the claim's or the insert's commit drops.
Admit(r) ==
    LET a == req[r].account
        to == IF req[r].plain THEN "claim" ELSE "check" IN
    /\ pc[r] = "admit"
    /\ IF AccountLimit = 0 \/ a = Admin
       THEN GoesOn(r, to) /\ UNCHANGED accountLock
       ELSE /\ accountLock[a] = Nobody
            /\ IF AtLimit(LiveOf(a), AccountLimit)
               THEN Ends(r) /\ UNCHANGED accountLock
               ELSE GoesOn(r, to) /\ accountLock' = [accountLock EXCEPT ![a] = r]
    /\ Untouched /\ UNCHANGED <<host, providerLock>>

\* The oldest warm host; finding none commits nothing.
SelectWarm(r) ==
    /\ pc[r] = "claim"
    /\ IF \E h \in Host : Claimable(h)
       THEN /\ cand' = [cand EXCEPT ![r] = CHOOSE h \in Host :
                            Claimable(h) /\ \A g \in Host : Claimable(g) => h <= g]
            /\ Goto(r, "update")
            /\ UNCHANGED <<req, own, seen>>
       ELSE GoesOn(r, "check")
    /\ KeepLocks /\ Untouched /\ UNCHANGED host

\* Mutation: the UPDATE matches the id alone.
StillUnclaimedAlways(h) == Exists(h)

\* The WHERE on claimed_at is the race guard.
StillUnclaimed(h) == Exists(h) /\ ~host[h].claimed

\* The claim's UPDATE, and the commit that drops the lock whoever won.
ClaimWarm(r) ==
    LET h == cand[r] IN
    /\ pc[r] = "update"
    /\ IF StillUnclaimed(h)
       THEN /\ host' = [host EXCEPT ![h].claimed = TRUE, ![h].account = req[r].account,
                                    ![h].expired = FALSE, ![h].initial = FALSE]
            /\ revived' = IF host[h].expired THEN revived \cup {h} ELSE revived
            /\ own' = [own EXCEPT ![r] = h]
            /\ cand' = [cand EXCEPT ![r] = NoHost]
            /\ Goto(r, "record")
            /\ UNCHANGED <<req, seen>>
       ELSE GoesOn(r, "check") /\ UNCHANGED <<host, revived>>
    /\ ReleaseLocks(r)
    /\ UNCHANGED <<keys, epoch, swept, late>>

\* create_host before the insert: the provider's count.  It may refuse the request for
\* its sizing, its secrets or its template first; the error ends the transaction.
Check(r) ==
    /\ pc[r] = "check"
    /\ \/ /\ ProviderLimit = Unlimited
          /\ GoesOn(r, "insert") /\ KeepLocks
       \/ /\ ProviderLimit # Unlimited /\ providerLock = Nobody
          /\ IF AtLimit(LiveHosts, ProviderLimit)
             THEN Ends(r) /\ ReleaseLocks(r)
             ELSE GoesOn(r, "insert") /\ providerLock' = r /\ UNCHANGED accountLock
       \/ Ends(r) /\ ReleaseLocks(r)
    /\ Untouched /\ UNCHANGED host

NewRow(r) == [status |-> "preparing", account |-> req[r].account, pool |-> r \in Filler,
              claimed |-> FALSE, expired |-> FALSE, initial |-> TRUE]

\* The insert's commit drops both locks.
Insert(r) ==
    /\ pc[r] = "insert"
    /\ \E h \in Host :
        /\ host[h].status = "unborn" /\ \A g \in Host : g < h => host[g].status # "unborn"
        /\ host' = [host EXCEPT ![h] = NewRow(r)]
        /\ own' = [own EXCEPT ![r] = h]
        /\ late' = IF cand[r] # NoHost THEN late \cup {h} ELSE late
    /\ cand' = [cand EXCEPT ![r] = NoHost]
    /\ Goto(r, "provision")
    /\ ReleaseLocks(r)
    /\ UNCHANGED <<keys, epoch, swept, revived, req, seen>>

-----------------------------------------------------------------------------
(* Provisioning, as far as the counts see it.                              *)

\* The status after each of the coroutine's commits; without a row it dies.
Provision(r) ==
    LET h == own[r] IN
    /\ pc[r] = "provision"
    /\ IF ~Exists(h)
       THEN Ends(r) /\ UNCHANGED host
       ELSE \/ /\ host[h].status = "preparing"
               /\ host' = [host EXCEPT ![h].status = "bootstrapping"]
               /\ GoesOn(r, "provision")
            \/ /\ host[h].status = "bootstrapping"
               /\ host' = [host EXCEPT ![h].status = "active"]
               /\ GoesOn(r, "stamp")
            \/ /\ host' = [host EXCEPT ![h].status = "error", ![h].expired = TRUE,
                                       ![h].initial = FALSE]
               /\ Ends(r)
    /\ KeepLocks /\ Untouched

\* The TTL stamp matches the expiry the row was born with.
Stamp(r) ==
    LET h == own[r] IN
    /\ pc[r] = "stamp"
    /\ IF ~Exists(h)
       THEN Ends(r) /\ UNCHANGED <<host, revived>>
       ELSE /\ host' = IF host[h].initial
                       THEN [host EXCEPT ![h].initial = FALSE, ![h].expired = FALSE] ELSE host
            /\ revived' = IF host[h].initial /\ host[h].expired
                          THEN revived \cup {h} ELSE revived
            /\ GoesOn(r, "record")
    /\ KeepLocks /\ UNCHANGED <<keys, epoch, swept, late>>

\* The client disconnects or the process stops; PostgreSQL ends the transaction.
Die(r) ==
    /\ pc[r] \notin Ended \cup {"idle"}
    /\ Ends(r)
    /\ ReleaseLocks(r)
    /\ Untouched /\ UNCHANGED host

-----------------------------------------------------------------------------
(* What happens to hosts and keys meanwhile.                               *)

Outside == UNCHANGED <<req, pc, own, cand, seen, late, accountLock, providerLock>>

\* A lease runs out.
Lapse(h) ==
    /\ Exists(h) /\ ~host[h].expired
    /\ host' = [host EXCEPT ![h].expired = TRUE]
    /\ Outside /\ UNCHANGED <<keys, epoch, swept, revived>>

\* renew_host asks neither whether the lease has run out nor for the limits.
Renew(h) ==
    /\ host[h].status \in {"bootstrapping", "active"}
    /\ host[h].pool => host[h].claimed
    /\ host' = [host EXCEPT ![h].expired = FALSE, ![h].initial = FALSE]
    /\ revived' = IF host[h].expired THEN revived \cup {h} ELSE revived
    /\ Outside /\ UNCHANGED <<keys, epoch, swept>>

\* delete_host: a caller's, the janitor's or the maintainer's.  The keys go by cascade.
Remove(h) ==
    /\ Exists(h)
    /\ host[h].status # "preparing" \/ host[h].expired
    /\ host' = [host EXCEPT ![h] = GoneHost]
    /\ keys' = [k \in Key |-> IF keys[k].host = h THEN NoRecord ELSE keys[k]]
    /\ revived' = revived \ {h}
    /\ late' = late \ {h}
    /\ UNCHANGED <<epoch, swept, req, pc, own, cand, seen, accountLock, providerLock>>

\* idempotency_key_ttl_hours have passed.
ExpireKey(k) ==
    /\ keys[k].fresh
    /\ keys' = [keys EXCEPT ![k].fresh = FALSE]
    /\ epoch' = [epoch EXCEPT ![k] = @ + 1]
    /\ Outside /\ UNCHANGED <<host, swept, revived>>

-----------------------------------------------------------------------------
\* A top-up is a create_host of its own.
TopUp(r) ==
    /\ pc[r] = "idle" /\ r \in Filler
    /\ GoesOn(r, "check")
    /\ KeepLocks /\ Untouched /\ UNCHANGED host

Advance(r) ==
    \/ LookUp(r) \/ ReadHost(r) \/ Collect(r) \/ Record(r) \/ Release(r)
    \/ Admit(r) \/ SelectWarm(r) \/ ClaimWarm(r) \/ Check(r) \/ Insert(r)
    \/ Provision(r) \/ Stamp(r)

Step(r) ==
    \/ \E a \in Account, k \in Key \cup {NoKey}, plain \in BOOLEAN : Arrive(r, a, k, plain)
    \/ TopUp(r) \/ Advance(r) \/ Die(r)

World(h) == Lapse(h) \/ Renew(h) \/ Remove(h)

Next ==
    \/ \E r \in Caller : Step(r)
    \/ \E h \in Host : World(h)
    \/ \E k \in Key : ExpireKey(k)

Spec == Init /\ [][Next]_vars

-----------------------------------------------------------------------------
(* Safety.                                                                 *)

\* Hosts that no create has just been let in for: they came back after they expired.
NeverLapsed(S) == S \ revived

\* However many creates, top-ups and replicas race, no create is let in past the
\* provider's limit: beyond it are only hosts that a renewal, a claim or the stamp has
\* brought back from expiry (the advisory lock of _count_live_hosts).
ProviderLimitKept ==
    ProviderLimit # Unlimited => Cardinality(NeverLapsed(LiveHosts)) <= ProviderLimit

\* Nor is one let in past an account's limit, unless its request lost a warm claim.
AccountLimitKept ==
    \A a \in Account \ {Admin} :
        AccountLimit # 0 => Cardinality(NeverLapsed(LiveOf(a)) \ late) <= AccountLimit

\* A lock is held from a count to the commit that ends its transaction and no longer:
\* nobody provisions, dies or answers with one, and whoever waits for an account's lock
\* holds no other, so no two requests wait for each other.
LocksEndWithTheCount ==
    /\ \A a \in Account : accountLock[a] # Nobody =>
          pc[accountLock[a]] \in {"claim", "update", "check", "insert"}
    /\ providerLock # Nobody => pc[providerLock] = "insert"

\* No interleaving of creates, top-ups and replicas passes a limit or leaves a lock behind
\* (the advisory locks of service.py:213 and 295).
AdmissionInv == TypeOK /\ ProviderLimitKept /\ AccountLimitKept /\ LocksEndWithTheCount

Answered(r) == pc[r] = "answered"

\* A host is handed to one caller: two answers that name it are answers to one key of
\* one account, even when a lost race has put the host back into the pool.
OneCallerPerHost ==
    \A r, s \in Request :
        Answered(r) /\ Answered(s) /\ r # s /\ seen[r].host = seen[s].host =>
            req[r].key = req[s].key /\ req[r].key # NoKey /\ req[r].account = req[s].account

\* Two callers that one key answered within one TTL.
SameKey(r, s) ==
    /\ Answered(r) /\ Answered(s)
    /\ req[r].key = req[s].key /\ req[r].key # NoKey
    /\ seen[r].epoch = seen[s].epoch
    /\ Exists(seen[r].host) /\ Exists(seen[s].host)

\* Requests with one key get one host, whichever of them recorded it, unless a
\* collection of a stale record has swept a fresh one away (service.py:341, see the README).
OneHostPerKey ==
    \A r, s \in Request : SameKey(r, s) /\ req[r].key \notin swept => seen[r].host = seen[s].host

=============================================================================
