--------------------------- MODULE AdmissionProofs ---------------------------
(***************************************************************************)
(* For every number of requests, top-ups, accounts, keys and hosts, and    *)
(* every limit that the assumptions of HostAdmission allow: the limits are *)
(* kept, a host goes to one caller, and a key gives one host.              *)
(*                                                                         *)
(* Three invariants, each on top of the first.  BaseInv: a request has     *)
(* what its next step needs.  CountInv: between a count and the commit     *)
(* that ends its transaction the counter holds the lock, nobody else       *)
(* inserts, and there is room for one more host.  HandInv: whoever works   *)
(* on a host, has read it under a key or was answered with it has one that *)
(* no warm claim can take, alone or with those who share its key.  KeyInv: *)
(* whoever was told the host of a key in the life of the record it has now *)
(* was told what the record says, unless that host is gone.                *)
(*                                                                         *)
(* What steps do to the hosts' rows comes first: most change none but to   *)
(* end a lease, take its status on or delete it (Quiet), and no invariant  *)
(* minds.                                                                  *)
(***************************************************************************)
EXTENDS HostAdmission, FiniteSetTheorems, WellFoundedInduction, TLAPS

\* A row no step but Release, ClaimWarm and Insert does more to: it stays what it is
\* until it goes for good.
Kept(g) ==
    /\ host'[g].status = "unborn" <=> host[g].status = "unborn"
    /\ Exists(g)' => /\ Exists(g)
                     /\ host'[g].account = host[g].account
                     /\ host'[g].pool = host[g].pool
                     /\ host'[g].claimed = host[g].claimed

\* What the limits count of the row is not more than it was.
NoMore(g) ==
    /\ Live(g)' /\ g \notin revived' => Live(g) /\ g \notin revived
    /\ Live(g)' /\ g \notin late' => g \notin late

Quiet == \A g \in Host : Kept(g) /\ NoMore(g)

Table == [Host -> HostRow]

Renewed(new, old, lapsed) ==
    /\ new.status = old.status /\ new.account = old.account
    /\ new.pool = old.pool /\ new.claimed = old.claimed
    /\ new.expired = lapsed

-----------------------------------------------------------------------------
LapsedTable(t, h) == [t EXCEPT ![h].expired = TRUE]
LeasedTable(t, h, lapsed) == [t EXCEPT ![h].expired = lapsed, ![h].initial = FALSE]
StampedTable(t, h) == [t EXCEPT ![h].initial = FALSE, ![h].expired = FALSE]

Renews(u, t, h, lapsed) ==
    u \in Table /\ Renewed(u[h], t[h], lapsed) /\ \A g \in Host \ {h} : u[g] = t[g]

\* Setting the expiry of a lease leaves the rest of its row alone (renew_host, the stamp).
LEMMA LeaseSet ==
    ASSUME NEW t \in Table, NEW h \in Host
    PROVE  /\ Renews(LapsedTable(t, h), t, h, TRUE)
           /\ Renews(LeasedTable(t, h, FALSE), t, h, FALSE)
           /\ Renews(LeasedTable(t, h, TRUE), t, h, TRUE)
           /\ Renews(StampedTable(t, h), t, h, FALSE)
<1>1. Renews(LapsedTable(t, h), t, h, TRUE)
  BY DEF LapsedTable, Renews, Table, HostRow, Renewed
<1>2. Renews(LeasedTable(t, h, FALSE), t, h, FALSE)
  BY DEF LeasedTable, Renews, Table, HostRow, Renewed
<1>3. Renews(LeasedTable(t, h, TRUE), t, h, TRUE)
  BY DEF LeasedTable, Renews, Table, HostRow, Renewed
<1>4. Renews(StampedTable(t, h), t, h, FALSE)
  BY DEF StampedTable, Renews, Table, HostRow, Renewed
<1> QED BY <1>1, <1>2, <1>3, <1>4

StatusTable(t, h, s) == [t EXCEPT ![h].status = s]

\* Setting the status leaves the rest of the row alone (the commits of provision_host).
LEMMA StatusSet ==
    ASSUME NEW t \in Table, NEW h \in Host, NEW s \in Status
    PROVE  LET u == StatusTable(t, h, s) IN
           /\ u \in Table
           /\ u[h].status = s /\ u[h].account = t[h].account
           /\ u[h].pool = t[h].pool /\ u[h].claimed = t[h].claimed
           /\ u[h].expired = t[h].expired
           /\ \A g \in Host \ {h} : u[g] = t[g]
BY DEF Table, HostRow, StatusTable

FailedTable(t, h) == [t EXCEPT ![h].status = "error", ![h].expired = TRUE, ![h].initial = FALSE]

ClaimedTable(t, h, a) == [t EXCEPT ![h].claimed = TRUE, ![h].account = a,
                                   ![h].expired = FALSE, ![h].initial = FALSE]

\* A failed host keeps its account and expires (_mark_host_error).
LEMMA FailureSet ==
    ASSUME NEW t \in Table, NEW h \in Host
    PROVE  LET u == FailedTable(t, h) IN
           /\ u \in Table
           /\ u[h].status = "error" /\ u[h].account = t[h].account
           /\ u[h].pool = t[h].pool /\ u[h].claimed = t[h].claimed
           /\ \A g \in Host \ {h} : u[g] = t[g]
<1> DEFINE v == [t EXCEPT ![h].status = "error"]
           u == FailedTable(t, h)
<1>2. /\ v \in Table
      /\ v[h].status = "error" /\ v[h].account = t[h].account
      /\ v[h].pool = t[h].pool /\ v[h].claimed = t[h].claimed
      /\ \A g \in Host \ {h} : v[g] = t[g]
  BY DEF Table, HostRow, Status
<1>3. u = [v EXCEPT ![h].expired = TRUE, ![h].initial = FALSE]
  BY DEF Table, FailedTable
<1> HIDE DEF v, u
<1>4. v \in Table
  BY <1>2
<1>6. /\ u \in Table
      /\ u[h].status = v[h].status /\ u[h].account = v[h].account
      /\ u[h].pool = v[h].pool /\ u[h].claimed = v[h].claimed
      /\ \A g \in Host \ {h} : u[g] = v[g]
  BY <1>3, <1>4 DEF Table, HostRow
<1>5. /\ u \in Table
      /\ u[h].status = "error" /\ u[h].account = t[h].account
      /\ u[h].pool = t[h].pool /\ u[h].claimed = t[h].claimed
      /\ \A g \in Host \ {h} : u[g] = t[g]
  BY <1>2, <1>6
<1> QED BY <1>5 DEF u

\* A claim names the account and starts a lease (the claim's UPDATE).
LEMMA ClaimSet ==
    ASSUME NEW t \in Table, NEW h \in Host, NEW a \in Account \cup {NoAccount}
    PROVE  LET u == ClaimedTable(t, h, a) IN
           /\ u \in Table
           /\ u[h].status = t[h].status /\ u[h].account = a
           /\ u[h].pool = t[h].pool /\ u[h].claimed /\ ~u[h].expired
           /\ \A g \in Host \ {h} : u[g] = t[g]
<1> DEFINE v == [t EXCEPT ![h].claimed = TRUE, ![h].account = a]
           u == ClaimedTable(t, h, a)
<1>2. /\ v \in Table
      /\ v[h].status = t[h].status /\ v[h].account = a
      /\ v[h].pool = t[h].pool /\ v[h].claimed
      /\ \A g \in Host \ {h} : v[g] = t[g]
  BY DEF Table, HostRow
<1>3. u = [v EXCEPT ![h].expired = FALSE, ![h].initial = FALSE]
  BY DEF Table, ClaimedTable
<1> HIDE DEF v, u
<1>4. u \in Table /\ Renewed(u[h], v[h], FALSE) /\ \A g \in Host \ {h} : u[g] = v[g]
  BY <1>2, <1>3 DEF Table, HostRow, Renewed
<1>5. /\ u \in Table
      /\ u[h].status = t[h].status /\ u[h].account = a
      /\ u[h].pool = t[h].pool /\ u[h].claimed /\ ~u[h].expired
      /\ \A g \in Host \ {h} : u[g] = t[g]
  BY <1>2, <1>4 DEF Renewed
<1> QED BY <1>5 DEF u

\* A returned host is unclaimed, and of no account (_release_idempotency_loser).
LEMMA ReturnedRow ==
    ASSUME NEW row \in HostRow
    PROVE  /\ Returned(row) \in HostRow
           /\ Returned(row).status = row.status /\ Returned(row).account = NoAccount
           /\ Returned(row).pool = row.pool /\ ~Returned(row).claimed /\ ~Returned(row).expired
<1> DEFINE v == [row EXCEPT !.claimed = FALSE, !.account = NoAccount]
<1>1. v \in HostRow /\ v.status = row.status /\ v.account = NoAccount /\ v.pool = row.pool /\ ~v.claimed
  BY DEF HostRow
<1>2. Returned(row) = [v EXCEPT !.expired = FALSE, !.initial = FALSE]
  BY DEF Returned, HostRow
<1> HIDE DEF v
<1>3. [v EXCEPT !.expired = FALSE, !.initial = FALSE] \in HostRow
  BY <1>1 DEF HostRow
<1>4. /\ [v EXCEPT !.expired = FALSE, !.initial = FALSE].status = v.status
      /\ [v EXCEPT !.expired = FALSE, !.initial = FALSE].account = v.account
      /\ [v EXCEPT !.expired = FALSE, !.initial = FALSE].pool = v.pool
      /\ [v EXCEPT !.expired = FALSE, !.initial = FALSE].claimed = v.claimed
      /\ ~[v EXCEPT !.expired = FALSE, !.initial = FALSE].expired
  BY <1>1 DEF HostRow
<1> QED BY <1>1, <1>2, <1>3, <1>4

-----------------------------------------------------------------------------
\* A step that changes no host (every statement on a key or a lock).
LEMMA SameRows ==
    ASSUME TypeOK, UNCHANGED <<host, revived, late>>
    PROVE  host' \in Table /\ Quiet
BY DEF TypeOK, Table, Quiet, Kept, NoMore, Live, Exists

\* A lease that runs out makes no host live.
LEMMA LapseRows ==
    ASSUME TypeOK, NEW h \in Host, Lapse(h)
    PROVE  host' \in Table /\ Quiet
<1>1. host \in Table /\ host' = LapsedTable(host, h) /\ UNCHANGED <<revived, late>>
  BY DEF LapsedTable, TypeOK, Table, Lapse, Outside
<1>2. Renews(host', host, h, TRUE)
  BY <1>1, LeaseSet
<1> QED BY <1>1, <1>2 DEF Renews, Renewed, Quiet, Kept, NoMore, Live, Exists

\* A renewed host that had run out counts as revived (renew_host).
LEMMA RenewRows ==
    ASSUME TypeOK, NEW h \in Host, Renew(h)
    PROVE  host' \in Table /\ Quiet
<1>1. host \in Table /\ host' = LeasedTable(host, h, FALSE)
      /\ revived' = (IF host[h].expired THEN revived \cup {h} ELSE revived) /\ UNCHANGED late
  BY DEF LeasedTable, TypeOK, Table, Renew, Outside
<1>2. Renews(host', host, h, FALSE)
  BY <1>1, LeaseSet
<1> QED BY <1>1, <1>2 DEF Renews, Renewed, Quiet, Kept, NoMore, Live, Exists

\* A deleted host is gone for good (delete_host).
LEMMA RemoveRows ==
    ASSUME TypeOK, NEW h \in Host, Remove(h)
    PROVE  /\ host' \in Table /\ Quiet
           /\ host'[h].status = "gone" /\ \A g \in Host \ {h} : host'[g] = host[g]
<1>1. host' = [host EXCEPT ![h] = GoneHost] /\ Exists(h)
      /\ revived' = revived \ {h} /\ late' = late \ {h}
  BY DEF Remove
<1>2. GoneHost \in HostRow /\ GoneHost.status = "gone"
  BY NamesAssumption DEF GoneHost, Unborn, HostRow, Status
<1>3. host' \in Table /\ host'[h].status = "gone" /\ \A g \in Host \ {h} : host'[g] = host[g]
  BY <1>1, <1>2 DEF TypeOK, Table
<1> QED BY <1>1, <1>3 DEF Quiet, Kept, NoMore, Live, Exists

\* Provisioning takes a host on, or fails it (the commits of provision_host).
LEMMA ProvisionRows ==
    ASSUME TypeOK, NEW r \in Caller, NEW h \in Host, h = own[r], Provision(r)
    PROVE  host' \in Table /\ Quiet
<1>1. host \in Table /\ UNCHANGED <<revived, late>>
  BY DEF TypeOK, Table, Provision, Untouched
<1>2. CASE host' = host
  BY <1>1, <1>2, SameRows
<1>3. CASE \E s \in Status \ {"unborn", "gone", "error"} :
              Exists(h) /\ host[h].status # "error" /\ host' = StatusTable(host, h, s)
  <2>1. PICK s \in Status \ {"unborn", "gone", "error"} :
              Exists(h) /\ host[h].status # "error" /\ host' = StatusTable(host, h, s)
    BY <1>3
  <2>2. /\ host' \in Table
        /\ host'[h].status = s /\ host'[h].account = host[h].account
        /\ host'[h].pool = host[h].pool /\ host'[h].claimed = host[h].claimed
        /\ host'[h].expired = host[h].expired
        /\ \A g \in Host \ {h} : host'[g] = host[g]
    BY <1>1, <2>1, StatusSet
  <2>5. s \notin {"unborn", "gone", "error"}
    BY <2>1
  <2>3. Kept(h)
    BY <2>1, <2>2, <2>5 DEF Kept, Exists
  <2>6. NoMore(h)
    BY <1>1, <2>1, <2>2, <2>5 DEF NoMore, Live, Exists
  <2>4. \A g \in Host \ {h} : Kept(g) /\ NoMore(g)
    BY <1>1, <2>2 DEF Kept, NoMore, Live, Exists
  <2> QED BY <2>2, <2>3, <2>4, <2>6 DEF Quiet
<1>4. CASE Exists(h) /\ host' = FailedTable(host, h)
  <2>1. /\ host' \in Table
        /\ host'[h].status = "error" /\ host'[h].account = host[h].account
        /\ host'[h].pool = host[h].pool /\ host'[h].claimed = host[h].claimed
        /\ \A g \in Host \ {h} : host'[g] = host[g]
    BY <1>1, <1>4, FailureSet
  <2> QED BY <1>1, <1>4, <2>1 DEF Quiet, Kept, NoMore, Live, Exists
<1> QED BY <1>2, <1>3, <1>4 DEF Provision, FailedTable, StatusTable, Status, Exists

\* The stamp of a lease that had run out makes its host one of the revived (the TTL stamp).
LEMMA StampRows ==
    ASSUME TypeOK, NEW r \in Caller, NEW h \in Host, h = own[r], Stamp(r)
    PROVE  host' \in Table /\ Quiet
<1>1. host \in Table /\ UNCHANGED late
  BY DEF TypeOK, Table, Stamp
<1>2. CASE UNCHANGED <<host, revived>>
  BY <1>1, <1>2, SameRows
<1>3. CASE /\ host' = StampedTable(host, h)
           /\ revived' = IF host[h].expired THEN revived \cup {h} ELSE revived
  <2>1. Renews(host', host, h, FALSE)
    BY <1>1, <1>3, LeaseSet
  <2> QED BY <1>1, <1>3, <2>1 DEF Renews, Renewed, Quiet, Kept, NoMore, Live, Exists
<1> QED BY <1>2, <1>3 DEF Stamp, StampedTable

\* The loser's claimed host goes back; a fresh one runs out (_release_idempotency_loser).
LEMMA ReleaseRows ==
    ASSUME TypeOK, NEW r \in Caller, NEW h \in Host, h = own[r], Release(r)
    PROVE  /\ host' \in Table
           /\ \A g \in Host : NoMore(g)
           /\ \A g \in Host \ {h} : Kept(g)
           /\ \/ Kept(h)
              \/ /\ host'[h].status = host[h].status /\ Exists(h)
                 /\ host'[h].account = NoAccount
                 /\ host'[h].pool = host[h].pool /\ ~host'[h].claimed
<1>1. host \in Table /\ UNCHANGED late
  BY DEF TypeOK, Table, Release
<1>2. CASE UNCHANGED <<host, revived>>
  BY <1>1, <1>2, SameRows DEF Quiet
<1>3. CASE /\ Exists(h) /\ host[h].claimed
           /\ host' = [host EXCEPT ![h] = Returned(@)]
           /\ revived' = IF host[h].expired THEN revived \cup {h} ELSE revived
  <2>1. host[h] \in HostRow
    BY <1>1 DEF Table
  <2>2. /\ Returned(host[h]) \in HostRow
        /\ Returned(host[h]).status = host[h].status /\ Returned(host[h]).account = NoAccount
        /\ Returned(host[h]).pool = host[h].pool /\ ~Returned(host[h]).claimed
        /\ ~Returned(host[h]).expired
    BY <2>1, ReturnedRow
  <2>3. /\ host' \in Table /\ host'[h] = Returned(host[h])
        /\ \A g \in Host \ {h} : host'[g] = host[g]
    BY <1>1, <1>3, <2>2 DEF Table
  <2> QED BY <1>1, <1>3, <2>2, <2>3 DEF Kept, NoMore, Live, Exists
<1>4. CASE /\ Exists(h)
           /\ host' = LeasedTable(host, h, TRUE)
           /\ UNCHANGED revived
  <2>1. Renews(host', host, h, TRUE)
    BY <1>1, <1>4, LeaseSet
  <2> QED BY <1>1, <1>4, <2>1 DEF Renews, Renewed, Kept, NoMore, Live, Exists
<1> QED BY <1>2, <1>3, <1>4 DEF Release, LeasedTable

\* The claim's UPDATE takes an unclaimed host for the account (_claim_warm_host).
LEMMA ClaimRows ==
    ASSUME TypeOK, NEW r \in Caller, NEW h \in Host, h = cand[r], ClaimWarm(r), StillUnclaimed(h)
    PROVE  /\ host' \in Table
           /\ \A g \in Host : NoMore(g)
           /\ \A g \in Host \ {h} : host'[g] = host[g]
           /\ host'[h].status = host[h].status
           /\ host'[h].account = req[r].account
           /\ host'[h].pool = host[h].pool /\ host'[h].claimed
<1>1. host \in Table /\ UNCHANGED late /\ req[r].account \in Account \cup {NoAccount}
  BY DEF TypeOK, Table, ClaimWarm, Ask
<1>2. /\ host' = ClaimedTable(host, h, req[r].account)
      /\ revived' = IF host[h].expired THEN revived \cup {h} ELSE revived
  BY DEF ClaimWarm, ClaimedTable
<1>3. /\ host' \in Table
      /\ host'[h].status = host[h].status /\ host'[h].account = req[r].account
      /\ host'[h].pool = host[h].pool /\ host'[h].claimed /\ ~host'[h].expired
      /\ \A g \in Host \ {h} : host'[g] = host[g]
  BY <1>1, <1>2, ClaimSet
<1> QED BY <1>1, <1>2, <1>3 DEF NoMore, Live, Exists

\* An insert makes one row, which nobody has ever seen (create_host).
LEMMA InsertRows ==
    ASSUME TypeOK, NEW r \in Caller, Insert(r)
    PROVE  \E h \in Host :
              /\ host' \in Table /\ host[h].status = "unborn"
              /\ host'[h].status = "preparing" /\ host'[h].account = req[r].account
              /\ host'[h].pool = (r \in Filler) /\ ~host'[h].claimed
              /\ \A g \in Host \ {h} : host'[g] = host[g]
              /\ own' = [own EXCEPT ![r] = h]
              /\ late' = IF cand[r] # NoHost THEN late \cup {h} ELSE late
              /\ UNCHANGED revived
<1>1. PICK h \in Host :
        /\ host[h].status = "unborn" /\ host' = [host EXCEPT ![h] = NewRow(r)]
        /\ own' = [own EXCEPT ![r] = h]
        /\ late' = IF cand[r] # NoHost THEN late \cup {h} ELSE late
  BY DEF Insert
<1>2. req[r].account \in Account \cup {NoAccount} /\ (r \in Filler) \in BOOLEAN
  BY DEF TypeOK, Ask
<1>3. /\ NewRow(r) \in HostRow
      /\ NewRow(r).status = "preparing" /\ NewRow(r).account = req[r].account
      /\ NewRow(r).pool = (r \in Filler) /\ ~NewRow(r).claimed
  BY <1>2 DEF NewRow, HostRow, Status
<1>4. /\ host' \in Table /\ host'[h] = NewRow(r)
      /\ \A g \in Host \ {h} : host'[g] = host[g]
  BY <1>1, <1>3 DEF TypeOK, Table
<1>5. UNCHANGED revived
  BY DEF Insert
<1> QED BY <1>1, <1>3, <1>4, <1>5

-----------------------------------------------------------------------------
(* What a request holds at each of its steps.                              *)

CallTypes ==
    /\ req \in [Caller -> Ask] /\ pc \in [Caller -> Pc]
    /\ own \in [Caller -> Host \cup {NoHost}] /\ cand \in [Caller -> Host \cup {NoHost}]
    /\ seen \in [Caller -> [host: Host \cup {NoHost}, epoch: Nat]]

\* Only r moves.
Alone(r) ==
    \A s \in Caller \ {r} :
        /\ pc'[s] = pc[s] /\ req'[s] = req[s] /\ own'[s] = own[s]
        /\ cand'[s] = cand[s] /\ seen'[s] = seen[s]

SameAsk(r) == req'[r].account = req[r].account /\ req'[r].key = req[r].key

\* What r holds is what its step needs: the host it works on, the key it looks up.
Equipped(r) ==
    /\ pc[r] \in {"provision", "stamp", "record", "release"} => own[r] \in Host
    /\ pc[r] = "update" => cand[r] \in Host
    /\ pc[r] \in {"lookup", "read", "collect", "release"} => req[r].key \in Key
    /\ pc[r] \in {"lookup", "admit", "claim", "update"} => r \in Request
    /\ pc[r] \in {"read", "answered"} => seen[r].host \in Host
    /\ r \in Filler => req[r].account = NoAccount /\ req[r].key = NoKey

\* A fresh record names a host.
KeysInv == \A k \in Key : keys[k].fresh => keys[k].host \in Host

BaseInv == TypeOK /\ KeysInv /\ \A r \in Caller : Equipped(r)

\* A request that ends holds nothing any more.
LEMMA EndsValue ==
    ASSUME TypeOK, NEW r \in Caller, Ends(r)
    PROVE  /\ CallTypes' /\ Alone(r) /\ pc'[r] = "ended"
           /\ req'[r] = NoAsk /\ own'[r] = NoHost /\ cand'[r] = NoHost /\ seen'[r] = Nothing
<1>1. NoAsk \in Ask /\ Nothing \in [host: Host \cup {NoHost}, epoch: Nat] /\ "ended" \in Pc
  BY DEF NoAsk, Ask, Nothing, Pc, Ended
<1> QED BY <1>1 DEF Ends, Goto, CallTypes, Alone, TypeOK

\* An answered request keeps its key and account, and what it was told.
LEMMA AnswerValue ==
    ASSUME TypeOK, NEW r \in Caller, NEW what \in [host: Host \cup {NoHost}, epoch: Nat],
           Answer(r, what)
    PROVE  /\ CallTypes' /\ Alone(r) /\ pc'[r] = "answered" /\ SameAsk(r)
           /\ own'[r] = NoHost /\ cand'[r] = cand[r] /\ seen'[r] = what
<1>1. "answered" \in Pc
  BY DEF Pc, Ended
<1>2. req' \in [Caller -> Ask] /\ SameAsk(r) /\ \A s \in Caller \ {r} : req'[s] = req[s]
  BY DEF Answer, TypeOK, Ask, SameAsk
<1> QED BY <1>1, <1>2 DEF Answer, Goto, CallTypes, Alone, TypeOK

\* A request that goes on takes what it has along.
LEMMA GoesOnValue ==
    ASSUME TypeOK, NEW r \in Caller, NEW to \in Pc, GoesOn(r, to)
    PROVE  /\ CallTypes' /\ Alone(r) /\ pc'[r] = to
           /\ UNCHANGED <<req, own, cand, seen>>
BY DEF GoesOn, Goto, CallTypes, Alone, TypeOK

\* What others hold stays what they need.
LEMMA OthersEquipped ==
    ASSUME \A s \in Caller : Equipped(s), NEW r \in Caller, Alone(r), Equipped(r)'
    PROVE  \A s \in Caller : Equipped(s)'
BY DEF Alone, Equipped

\* The locks of a released transaction are free, and others' stay.
LEMMA ReleaseLocksValue ==
    ASSUME TypeOK, NEW r \in Caller, ReleaseLocks(r)
    PROVE  /\ accountLock' \in [Account -> Request \cup {Nobody}]
           /\ providerLock' \in Caller \cup {Nobody}
           /\ \A a \in Account : accountLock'[a] = IF accountLock[a] = r THEN Nobody ELSE accountLock[a]
           /\ providerLock' = IF providerLock = r THEN Nobody ELSE providerLock
BY DEF ReleaseLocks, TypeOK

LockTypes ==
    accountLock \in [Account -> Request \cup {Nobody}] /\ providerLock \in Caller \cup {Nobody}

KeyTypes ==
    /\ keys \in [Key -> KeyRow] /\ epoch \in [Key -> Nat] /\ swept \subseteq Key
    /\ revived \subseteq Host /\ late \subseteq Host

\* The type invariant, by the steps that disturb it: rows, keys, requests, locks.
LEMMA TypeParts == TypeOK <=> host \in Table /\ KeyTypes /\ CallTypes /\ LockTypes
BY DEF TypeOK, Table, KeyTypes, CallTypes, LockTypes

\* The parts of the invariant make it up again.
LEMMA StepBase ==
    ASSUME BaseInv, NEW r \in Caller, host' \in Table, KeyTypes', LockTypes', CallTypes',
           KeysInv', Alone(r), Equipped(r)'
    PROVE  BaseInv'
<1>1. TypeOK'
  BY DEF TypeOK, Table, KeyTypes, CallTypes, LockTypes
<1>2. \A s \in Caller : Equipped(s)'
  BY OthersEquipped DEF BaseInv
<1> QED BY <1>1, <1>2 DEF BaseInv

\* What a step leaves alone keeps its type.
LEMMA Leaves ==
    ASSUME BaseInv
    PROVE  /\ UNCHANGED host => host' \in Table
           /\ Untouched => KeyTypes' /\ KeysInv'
           /\ KeepLocks => LockTypes'
           /\ UNCHANGED <<keys, epoch, swept, late>> /\ revived' \subseteq Host => KeyTypes' /\ KeysInv'
           /\ \A r \in Caller : ReleaseLocks(r) => LockTypes'
<1>1. \A r \in Caller : ReleaseLocks(r) => LockTypes'
  BY ReleaseLocksValue DEF BaseInv, LockTypes
<1>2. UNCHANGED <<keys, epoch, swept, late>> /\ revived' \subseteq Host => KeyTypes' /\ KeysInv'
  BY DEF BaseInv, TypeOK, KeyTypes, KeysInv
<1>3. Untouched => KeyTypes' /\ KeysInv'
  BY <1>2 DEF BaseInv, TypeOK, Untouched
<1>4. (UNCHANGED host => host' \in Table) /\ (KeepLocks => LockTypes')
  BY DEF BaseInv, TypeOK, Table, KeepLocks, LockTypes
<1> QED BY <1>1, <1>2, <1>3, <1>4

-----------------------------------------------------------------------------
(* One lemma per action: types and equipment.                              *)

\* A request brings its key and its account along, and starts with the key if it has one.
LEMMA ArriveBase ==
    ASSUME BaseInv, NEW r \in Caller, NEW a \in Account, NEW k \in Key \cup {NoKey},
           NEW plain \in BOOLEAN, Arrive(r, a, k, plain)
    PROVE  BaseInv' /\ Alone(r) /\ pc'[r] \in {"admit", "lookup"}
<1>1. [account |-> a, key |-> k, plain |-> plain] \in Ask
  BY DEF Ask
<1>2. CallTypes' /\ Alone(r) /\ pc'[r] \in {"admit", "lookup"}
      /\ req'[r] = [account |-> a, key |-> k, plain |-> plain]
      /\ (pc'[r] = "lookup" => k \in Key)
  BY <1>1 DEF BaseInv, TypeOK, CallTypes, Alone, Arrive, Goto, Pc
<1>3. r \notin Filler /\ r \in Request
  BY NamesAssumption DEF Arrive
<1>4. Equipped(r)'
  BY <1>2, <1>3 DEF Equipped
<1>5. Untouched /\ KeepLocks /\ UNCHANGED host
  BY DEF Arrive, Untouched
<1> QED BY <1>2, <1>4, <1>5, StepBase, Leaves

\* A fresh record names a host, so that whoever reads it has one to look for.
LEMMA LookUpBase ==
    ASSUME BaseInv, NEW r \in Caller, LookUp(r)
    PROVE  BaseInv' /\ Alone(r) /\ pc'[r] \in {"read", "admit", "collect", "ended"}
<1>1. req[r].key \in Key /\ pc[r] = "lookup" /\ Equipped(r) /\ r \in Request
  BY DEF BaseInv, Equipped, LookUp
<1>2. KeepLocks /\ Untouched /\ UNCHANGED host
  BY DEF LookUp
<1>3. CallTypes' /\ Alone(r) /\ Equipped(r)' /\ pc'[r] \in {"read", "admit", "collect", "ended"}
  <2>1. CASE keys[req[r].key].fresh /\ Goto(r, "read")
           /\ seen' = [seen EXCEPT ![r] = [host |-> keys[req[r].key].host, epoch |-> epoch[req[r].key]]]
           /\ UNCHANGED <<req, own, cand>>
    <3>1. keys[req[r].key].host \in Host /\ epoch[req[r].key] \in Nat
      BY <1>1, <2>1 DEF BaseInv, KeysInv, TypeOK
    <3>2. CallTypes' /\ Alone(r) /\ pc'[r] = "read" /\ seen'[r].host \in Host
      BY <2>1, <3>1 DEF BaseInv, TypeOK, CallTypes, Alone, Goto, Pc
    <3> QED BY <1>1, <2>1, <3>2 DEF Equipped
  <2>2. CASE \E to \in {"admit", "collect"} : GoesOn(r, to)
    <3>1. PICK to \in {"admit", "collect"} : GoesOn(r, to)
      BY <2>2
    <3>2. to \in Pc
      BY <3>1 DEF Pc
    <3>3. CallTypes' /\ Alone(r) /\ pc'[r] = to /\ UNCHANGED <<req, own, cand, seen>>
      BY <3>1, <3>2, GoesOnValue DEF BaseInv
    <3> QED BY <1>1, <3>1, <3>3 DEF Equipped
  <2>3. CASE Ends(r)
    <3>1. CallTypes' /\ Alone(r) /\ pc'[r] = "ended" /\ req'[r] = NoAsk
      BY <2>3, EndsValue DEF BaseInv
    <3> QED BY <3>1 DEF Equipped, NoAsk
  <2> QED BY <2>1, <2>2, <2>3 DEF LookUp, Unknown
<1> QED BY <1>2, <1>3, StepBase, Leaves

\* A set of numbers that is not empty has its least (ORDER BY created_at LIMIT 1).
LEMMA LeastOf ==
    ASSUME NEW W \in SUBSET Nat, W # {}
    PROVE  \E n \in W : \A m \in W : n <= m
<1> DEFINE R == {ss \in Nat \X Nat : ss[1] < ss[2]}
<1>1. IsWellFoundedOn(R, Nat)
  BY NatLessThanWellFounded DEF OpToRel
<1>2. R = {ss \in Nat \X Nat : ss[1] < ss[2]}
  OBVIOUS
<1> HIDE DEF R
<1>3. PICK n \in W : \A m \in W : ~(<<m, n>> \in R)
  BY <1>1, WFMin
<1>4. ASSUME NEW m \in W PROVE n <= m
  <2>1. m \in Nat /\ n \in Nat
    BY <1>3
  <2>2. <<m, n>> \in Nat \X Nat /\ <<m, n>>[1] = m /\ <<m, n>>[2] = n
    BY <2>1
  <2>3. m < n => <<m, n>> \in R
    BY <1>2, <2>2
  <2> QED BY <1>3, <2>1, <2>3
<1> QED BY <1>3, <1>4

\* A request that ends or goes on is equipped for where it goes.
LEMMA EndsBase ==
    ASSUME BaseInv, NEW r \in Caller, Ends(r)
    PROVE  CallTypes' /\ Alone(r) /\ Equipped(r)' /\ pc'[r] = "ended"
<1>1. CallTypes' /\ Alone(r) /\ pc'[r] = "ended" /\ req'[r] = NoAsk
  BY EndsValue DEF BaseInv
<1> QED BY <1>1 DEF Equipped, NoAsk

\* A request may go on where what it has is enough.
LEMMA GoesOnBase ==
    ASSUME BaseInv, NEW r \in Caller, NEW to \in Pc, GoesOn(r, to),
           to \in {"provision", "stamp", "record", "release"} => own[r] \in Host,
           to = "update" => cand[r] \in Host,
           to \in {"lookup", "read", "collect", "release"} => req[r].key \in Key,
           to \in {"lookup", "admit", "claim", "update"} => r \in Request,
           to \notin {"read", "answered"}
    PROVE  /\ CallTypes' /\ Alone(r) /\ Equipped(r)' /\ pc'[r] = to
           /\ UNCHANGED <<req, own, cand, seen>>
<1>1. CallTypes' /\ Alone(r) /\ pc'[r] = to /\ UNCHANGED <<req, own, cand, seen>>
  BY GoesOnValue DEF BaseInv
<1>2. Equipped(r)
  BY DEF BaseInv
<1> QED BY <1>1, <1>2 DEF Equipped

\* A request is answered with a host.
LEMMA AnswerBase ==
    ASSUME BaseInv, NEW r \in Caller, NEW what \in [host: Host \cup {NoHost}, epoch: Nat],
           what.host \in Host, Answer(r, what)
    PROVE  /\ CallTypes' /\ Alone(r) /\ Equipped(r)' /\ pc'[r] = "answered" /\ SameAsk(r)
           /\ own'[r] = NoHost /\ cand'[r] = cand[r] /\ seen'[r] = what
<1>1. /\ CallTypes' /\ Alone(r) /\ pc'[r] = "answered" /\ SameAsk(r)
      /\ own'[r] = NoHost /\ cand'[r] = cand[r] /\ seen'[r] = what
  BY AnswerValue DEF BaseInv
<1>2. Equipped(r)
  BY DEF BaseInv
<1> QED BY <1>1, <1>2 DEF Equipped, SameAsk

\* The host that a key names is looked up: the answer, the collection or the refusal.
LEMMA ReadHostBase ==
    ASSUME BaseInv, NEW r \in Caller, ReadHost(r)
    PROVE  BaseInv' /\ Alone(r) /\ pc'[r] \in {"answered", "collect", "ended"}
<1>1. pc[r] = "read" /\ req[r].key \in Key /\ seen[r].host \in Host
      /\ seen[r] \in [host: Host \cup {NoHost}, epoch: Nat]
  BY DEF BaseInv, Equipped, ReadHost, TypeOK
<1>2. KeepLocks /\ Untouched /\ UNCHANGED host
  BY DEF ReadHost
<1>3. CallTypes' /\ Alone(r) /\ Equipped(r)' /\ pc'[r] \in {"answered", "collect", "ended"}
  <2>1. CASE GoesOn(r, "collect")
    BY <1>1, <2>1, GoesOnBase DEF Pc
  <2>2. CASE Answer(r, seen[r])
    BY <1>1, <2>2, AnswerBase
  <2>3. CASE Ends(r)
    BY <2>3, EndsBase
  <2> QED BY <2>1, <2>2, <2>3 DEF ReadHost
<1> QED BY <1>2, <1>3, StepBase, Leaves

\* A collection leaves no record, and no fresh one without a host.
LEMMA CollectBase ==
    ASSUME BaseInv, NEW r \in Caller, Collect(r)
    PROVE  BaseInv' /\ Alone(r) /\ pc'[r] \in {"admit", "ended"}
<1>1. pc[r] = "collect" /\ req[r].key \in Key /\ r \in Request
  BY NamesAssumption DEF BaseInv, Equipped, Collect, Caller
<1>2. KeepLocks /\ UNCHANGED <<host, epoch, revived, late>>
  BY DEF Collect
<1>3. NoRecord \in KeyRow /\ ~NoRecord.fresh
  BY DEF NoRecord, KeyRow
<1>4. KeyTypes' /\ KeysInv'
  BY <1>1, <1>2, <1>3 DEF BaseInv, TypeOK, KeyTypes, KeysInv, Collect
<1>5. CallTypes' /\ Alone(r) /\ Equipped(r)' /\ pc'[r] \in {"admit", "ended"}
  <2>1. CASE GoesOn(r, "admit")
    BY <1>1, <2>1, GoesOnBase DEF Pc
  <2>2. CASE Ends(r)
    BY <2>2, EndsBase
  <2> QED BY <2>1, <2>2 DEF Collect, Unknown
<1> QED BY <1>2, <1>4, <1>5, StepBase, Leaves

\* A recorded key names the host its request worked on.
LEMMA RecordBase ==
    ASSUME BaseInv, NEW r \in Caller, Record(r)
    PROVE  BaseInv' /\ Alone(r) /\ pc'[r] \in {"answered", "release"}
<1>1. pc[r] = "record" /\ own[r] \in Host
  BY DEF BaseInv, Equipped, Record
<1>2. KeepLocks /\ UNCHANGED <<host, epoch, swept, revived, late>>
  BY DEF Record
<1>3. req[r].key \in Key \cup {NoKey} /\ 0 \in Nat
  BY DEF BaseInv, TypeOK, Ask
<1>4. CASE req[r].key = NoKey /\ Answer(r, [host |-> own[r], epoch |-> 0]) /\ UNCHANGED keys
  <2>1. CallTypes' /\ Alone(r) /\ Equipped(r)' /\ pc'[r] = "answered"
    BY <1>1, <1>4, AnswerBase
  <2>2. KeyTypes' /\ KeysInv'
    BY <1>2, <1>4 DEF BaseInv, TypeOK, KeyTypes, KeysInv
  <2> QED BY <1>2, <2>1, <2>2, StepBase, Leaves
<1>5. CASE /\ req[r].key # NoKey
           /\ Answer(r, [host |-> own[r], epoch |-> epoch[req[r].key]])
           /\ keys' = [keys EXCEPT ![req[r].key] = [host |-> own[r], fresh |-> TRUE]]
  <2>3. req[r].key \in Key /\ epoch[req[r].key] \in Nat
    BY <1>3, <1>5 DEF BaseInv, TypeOK
  <2>1. CallTypes' /\ Alone(r) /\ Equipped(r)' /\ pc'[r] = "answered"
    BY <1>1, <1>5, <2>3, AnswerBase
  <2>4. [host |-> own[r], fresh |-> TRUE] \in KeyRow /\ [host |-> own[r], fresh |-> TRUE].host \in Host
    BY <1>1 DEF KeyRow
  <2>2. KeyTypes' /\ KeysInv'
    BY <1>2, <1>5, <2>3, <2>4 DEF BaseInv, TypeOK, KeyTypes, KeysInv
  <2> QED BY <1>2, <2>1, <2>2, StepBase, Leaves
<1>6. CASE req[r].key # NoKey /\ GoesOn(r, "release") /\ UNCHANGED keys
  <2>1. CallTypes' /\ Alone(r) /\ Equipped(r)' /\ pc'[r] = "release"
    BY <1>1, <1>3, <1>6, GoesOnBase DEF Pc
  <2>2. KeyTypes' /\ KeysInv'
    BY <1>2, <1>6 DEF BaseInv, TypeOK, KeyTypes, KeysInv
  <2> QED BY <1>2, <2>1, <2>2, StepBase, Leaves
<1> QED BY <1>4, <1>5, <1>6 DEF Record

\* A loser looks its key up again: only a request with a key can lose (NoKey needs no record).
LEMMA ReleaseBase ==
    ASSUME BaseInv, NEW r \in Caller, Release(r)
    PROVE  BaseInv' /\ Alone(r) /\ pc'[r] = "lookup"
<1>1. pc[r] = "release" /\ req[r].key \in Key /\ own[r] \in Host /\ r \in Request
  BY NamesAssumption DEF BaseInv, Equipped, Release, Caller
<1>2. KeepLocks /\ UNCHANGED <<keys, epoch, swept, late>> /\ GoesOn(r, "lookup") /\ revived' \subseteq Host
  BY <1>1 DEF Release, BaseInv, TypeOK
<1>3. CallTypes' /\ Alone(r) /\ Equipped(r)' /\ pc'[r] = "lookup"
  BY <1>1, <1>2, GoesOnBase DEF Pc
<1>4. host' \in Table
  BY <1>1, ReleaseRows DEF BaseInv
<1> QED BY <1>2, <1>3, <1>4, StepBase, Leaves

\* Past the account's count a request takes at most its lock along.
LEMMA AdmitBase ==
    ASSUME BaseInv, NEW r \in Caller, Admit(r)
    PROVE  BaseInv' /\ Alone(r) /\ pc'[r] \in {"claim", "check", "ended"}
<1>1. pc[r] = "admit" /\ Untouched /\ UNCHANGED host /\ r \in Request
  BY DEF BaseInv, Equipped, Admit
<1>2. LockTypes'
  BY <1>1 DEF BaseInv, TypeOK, LockTypes, Admit
<1>3. CallTypes' /\ Alone(r) /\ Equipped(r)' /\ pc'[r] \in {"claim", "check", "ended"}
  <2>1. CASE \E to \in {"claim", "check"} : GoesOn(r, to)
    <3>1. PICK to \in {"claim", "check"} : GoesOn(r, to)
      BY <2>1
    <3>2. to \in Pc
      BY <3>1 DEF Pc
    <3> QED BY <1>1, <3>1, <3>2, GoesOnBase
  <2>2. CASE Ends(r)
    BY <2>2, EndsBase
  <2> QED BY <2>1, <2>2 DEF Admit
<1> QED BY <1>1, <1>2, <1>3, StepBase, Leaves

\* Whoever goes on to the UPDATE has selected a claimable host.
LEMMA SelectWarmBase ==
    ASSUME BaseInv, NEW r \in Caller, SelectWarm(r)
    PROVE  /\ BaseInv' /\ Alone(r) /\ pc'[r] \in {"update", "check"} /\ UNCHANGED <<req, own, seen>>
           /\ pc'[r] = "update" => Claimable(cand'[r])
<1>1. pc[r] = "claim" /\ KeepLocks /\ Untouched /\ UNCHANGED host /\ r \in Request
  BY DEF BaseInv, Equipped, SelectWarm
<1>2. CASE \E h \in Host : Claimable(h)
  <2> DEFINE warm == CHOOSE h \in Host : Claimable(h) /\ \A g \in Host : Claimable(g) => h <= g
  <2>1. cand' = [cand EXCEPT ![r] = warm] /\ Goto(r, "update") /\ UNCHANGED <<req, own, seen>>
    BY <1>2 DEF SelectWarm
  <2>2. \E h \in Host : Claimable(h) /\ \A g \in Host : Claimable(g) => h <= g
    <3> DEFINE W == {h \in Host : Claimable(h)}
    <3>1. W \subseteq Nat /\ W # {}
      BY <1>2, LimitsAssumption DEF Host
    <3>2. PICK n \in W : \A m \in W : n <= m
      BY <3>1, LeastOf
    <3> QED BY <3>2
  <2>3. warm \in Host /\ Claimable(warm)
    BY <2>2
  <2> HIDE DEF warm
  <2>4. CallTypes' /\ Alone(r) /\ pc'[r] = "update" /\ cand'[r] = warm
    BY <2>1, <2>3 DEF BaseInv, TypeOK, CallTypes, Alone, Goto, Pc
  <2>5. Equipped(r)'
    BY <1>1, <2>1, <2>3, <2>4 DEF BaseInv, Equipped
  <2> QED BY <1>1, <2>1, <2>3, <2>4, <2>5, StepBase, Leaves
<1>3. CASE GoesOn(r, "check")
  <2>1. CallTypes' /\ Alone(r) /\ Equipped(r)' /\ pc'[r] = "check" /\ UNCHANGED <<req, own, cand, seen>>
    BY <1>1, <1>3, GoesOnBase DEF Pc
  <2> QED BY <1>1, <2>1, StepBase, Leaves
<1> QED BY <1>2, <1>3 DEF SelectWarm

\* Whoever wins the claim works on the host it selected.
LEMMA ClaimWarmBase ==
    ASSUME BaseInv, NEW r \in Caller, ClaimWarm(r)
    PROVE  BaseInv' /\ Alone(r) /\ pc'[r] \in {"record", "check"}
<1>1. pc[r] = "update" /\ cand[r] \in Host /\ ReleaseLocks(r) /\ UNCHANGED <<keys, epoch, swept, late>>
  BY DEF BaseInv, Equipped, ClaimWarm
<1>2. revived' \subseteq Host
  BY <1>1 DEF ClaimWarm, BaseInv, TypeOK
<1>3. CASE StillUnclaimed(cand[r])
  <2>1. host' \in Table
    BY <1>1, <1>3, ClaimRows DEF BaseInv
  <2>2. own' = [own EXCEPT ![r] = cand[r]] /\ cand' = [cand EXCEPT ![r] = NoHost]
        /\ Goto(r, "record") /\ UNCHANGED <<req, seen>>
    BY <1>3 DEF ClaimWarm
  <2>3. CallTypes' /\ Alone(r) /\ pc'[r] = "record" /\ own'[r] = cand[r]
    BY <1>1, <2>2 DEF BaseInv, TypeOK, CallTypes, Alone, Goto, Pc
  <2>4. Equipped(r)'
    BY <1>1, <2>2, <2>3 DEF BaseInv, Equipped
  <2> QED BY <1>1, <1>2, <2>1, <2>3, <2>4, StepBase, Leaves
<1>4. CASE GoesOn(r, "check") /\ UNCHANGED host
  <2>1. CallTypes' /\ Alone(r) /\ Equipped(r)' /\ pc'[r] = "check"
    BY <1>4, GoesOnBase DEF Pc
  <2> QED BY <1>1, <1>2, <1>4, <2>1, StepBase, Leaves
<1> QED BY <1>3, <1>4 DEF ClaimWarm

\* Past the provider's count a create takes at most its lock along.
LEMMA CheckBase ==
    ASSUME BaseInv, NEW r \in Caller, Check(r)
    PROVE  BaseInv' /\ Alone(r) /\ pc'[r] \in {"insert", "ended"}
<1>1. pc[r] = "check" /\ Untouched /\ UNCHANGED host
  BY DEF Check
<1>2. LockTypes'
  BY ReleaseLocksValue DEF Check, KeepLocks, LockTypes, BaseInv, TypeOK
<1>3. CallTypes' /\ Alone(r) /\ Equipped(r)' /\ pc'[r] \in {"insert", "ended"}
  <2>1. CASE GoesOn(r, "insert")
    BY <2>1, GoesOnBase DEF Pc
  <2>2. CASE Ends(r)
    BY <2>2, EndsBase
  <2> QED BY <2>1, <2>2 DEF Check
<1> QED BY <1>1, <1>2, <1>3, StepBase, Leaves

\* Whoever inserts a row works on it.
LEMMA InsertBase ==
    ASSUME BaseInv, NEW r \in Caller, Insert(r)
    PROVE  BaseInv' /\ Alone(r) /\ pc'[r] = "provision"
<1>1. /\ ReleaseLocks(r) /\ UNCHANGED <<keys, epoch, swept, revived, req, seen>>
      /\ Goto(r, "provision") /\ cand' = [cand EXCEPT ![r] = NoHost]
  BY DEF Insert
<1>2. PICK h \in Host : host' \in Table /\ own' = [own EXCEPT ![r] = h]
                        /\ late' = IF cand[r] # NoHost THEN late \cup {h} ELSE late
  BY InsertRows DEF BaseInv
<1>3. KeyTypes' /\ KeysInv'
  BY <1>1, <1>2 DEF BaseInv, TypeOK, KeyTypes, KeysInv
<1>4. CallTypes' /\ Alone(r) /\ pc'[r] = "provision" /\ own'[r] = h
  BY <1>1, <1>2 DEF BaseInv, TypeOK, CallTypes, Alone, Goto, Pc
<1>5. Equipped(r)'
  BY <1>1, <1>2, <1>4 DEF BaseInv, Equipped
<1> QED BY <1>1, <1>2, <1>3, <1>4, <1>5, StepBase, Leaves

\* Provisioning leaves calls, keys and locks what they are, or ends its call.
LEMMA ProvisionBase ==
    ASSUME BaseInv, NEW r \in Caller, Provision(r)
    PROVE  BaseInv' /\ Alone(r) /\ pc'[r] \in {"provision", "stamp", "ended"}
<1>1. pc[r] = "provision" /\ own[r] \in Host /\ KeepLocks /\ Untouched
  BY DEF BaseInv, Equipped, Provision
<1>2. host' \in Table
  BY <1>1, ProvisionRows DEF BaseInv
<1>3. CallTypes' /\ Alone(r) /\ Equipped(r)' /\ pc'[r] \in {"provision", "stamp", "ended"}
  <2>1. CASE GoesOn(r, "provision")
    BY <1>1, <2>1, GoesOnBase DEF Pc
  <2>2. CASE GoesOn(r, "stamp")
    BY <1>1, <2>2, GoesOnBase DEF Pc
  <2>3. CASE Ends(r)
    BY <2>3, EndsBase
  <2> QED BY <2>1, <2>2, <2>3 DEF Provision
<1> QED BY <1>1, <1>2, <1>3, StepBase, Leaves

\* The stamp leaves them so too.
LEMMA StampBase ==
    ASSUME BaseInv, NEW r \in Caller, Stamp(r)
    PROVE  BaseInv' /\ Alone(r) /\ pc'[r] \in {"record", "ended"}
<1>1. pc[r] = "stamp" /\ own[r] \in Host /\ KeepLocks /\ UNCHANGED <<keys, epoch, swept, late>>
  BY DEF BaseInv, Equipped, Stamp
<1>2. host' \in Table /\ revived' \subseteq Host
  BY <1>1, StampRows DEF BaseInv, TypeOK, Stamp
<1>3. CallTypes' /\ Alone(r) /\ Equipped(r)' /\ pc'[r] \in {"record", "ended"}
  <2>2. CASE GoesOn(r, "record")
    BY <1>1, <2>2, GoesOnBase DEF Pc
  <2>3. CASE Ends(r)
    BY <2>3, EndsBase
  <2> QED BY <2>2, <2>3 DEF Stamp
<1> QED BY <1>1, <1>2, <1>3, StepBase, Leaves

\* A dead request holds nothing.
LEMMA DieBase ==
    ASSUME BaseInv, NEW r \in Caller, Die(r)
    PROVE  BaseInv' /\ Alone(r) /\ pc'[r] = "ended"
BY EndsBase, StepBase, Leaves DEF Die

\* A top-up starts with the limit of the provider and asks for nothing else.
LEMMA TopUpBase ==
    ASSUME BaseInv, NEW r \in Caller, TopUp(r)
    PROVE  BaseInv' /\ Alone(r) /\ pc'[r] = "check" /\ r \in Filler
<1>1. r \in Filler /\ GoesOn(r, "check") /\ KeepLocks /\ Untouched /\ UNCHANGED host
  BY DEF TopUp
<1>2. CallTypes' /\ Alone(r) /\ Equipped(r)' /\ pc'[r] = "check"
  BY <1>1, GoesOnBase DEF Pc
<1> QED BY <1>1, <1>2, StepBase, Leaves

\* Nobody moves while a lease ends or a key expires.
LEMMA OutsideBase ==
    ASSUME BaseInv, host' \in Table, KeyTypes', KeysInv',
           UNCHANGED <<req, pc, own, cand, seen, accountLock, providerLock>>
    PROVE  BaseInv'
<1>1. TypeOK'
  BY DEF BaseInv, TypeOK, Table, KeyTypes
<1>2. \A s \in Caller : Equipped(s)'
  BY DEF BaseInv, Equipped
<1> QED BY <1>1, <1>2 DEF BaseInv

\* A lease that ends or is renewed moves nobody; a deleted host takes its keys along.
LEMMA WorldBase ==
    ASSUME BaseInv, NEW h \in Host, World(h)
    PROVE  BaseInv'
<1>1. CASE Lapse(h)
  BY <1>1, LapseRows, OutsideBase, Leaves DEF BaseInv, TypeOK, Lapse, Outside
<1>2. CASE Renew(h)
  BY <1>2, RenewRows, OutsideBase, Leaves DEF BaseInv, TypeOK, Renew, Outside
<1>3. CASE Remove(h)
  <2>1. NoRecord \in KeyRow /\ ~NoRecord.fresh
    BY DEF NoRecord, KeyRow
  <2>2. keys' = [k \in Key |-> IF keys[k].host = h THEN NoRecord ELSE keys[k]]
        /\ revived' = revived \ {h} /\ late' = late \ {h}
        /\ UNCHANGED <<epoch, swept, req, pc, own, cand, seen, accountLock, providerLock>>
    BY <1>3 DEF Remove
  <2>3. KeyTypes' /\ KeysInv'
    BY <2>1, <2>2 DEF BaseInv, TypeOK, KeyTypes, KeysInv
  <2> QED BY <1>3, <2>2, <2>3, RemoveRows, OutsideBase DEF BaseInv
<1> QED BY <1>1, <1>2, <1>3 DEF World

\* A record that expires names the host it named.
LEMMA ExpireKeyBase ==
    ASSUME BaseInv, NEW k \in Key, ExpireKey(k)
    PROVE  BaseInv'
<1>1. keys' = [keys EXCEPT ![k].fresh = FALSE] /\ epoch' = [epoch EXCEPT ![k] = @ + 1]
      /\ UNCHANGED <<host, swept, revived, late, req, pc, own, cand, seen, accountLock, providerLock>>
  BY DEF ExpireKey, Outside
<1>4. keys \in [Key -> KeyRow] /\ epoch \in [Key -> Nat] /\ KeysInv
  BY DEF BaseInv, TypeOK
<1>5. keys' \in [Key -> KeyRow] /\ \A j \in Key : keys'[j].host = keys[j].host /\ (keys'[j].fresh => keys[j].fresh)
  BY <1>1, <1>4 DEF KeyRow
<1>2. KeyTypes' /\ KeysInv'
  BY <1>1, <1>4, <1>5 DEF BaseInv, TypeOK, KeyTypes, KeysInv
<1>3. host' \in Table
  BY <1>1 DEF BaseInv, TypeOK, Table
<1> QED BY <1>1, <1>2, <1>3, OutsideBase

-----------------------------------------------------------------------------
(* The limits.                                                             *)

\* From the count to the commit that drops its lock.
Counted == {"claim", "update", "check", "insert"}

FreshHosts == NeverLapsed(LiveHosts)
FreshOf(a) == NeverLapsed(LiveOf(a)) \ late

LocksInv ==
    /\ \A a \in Account : accountLock[a] # Nobody =>
          pc[accountLock[a]] \in Counted /\ req[accountLock[a]].account = a
    /\ providerLock # Nobody => pc[providerLock] = "insert"

\* Whoever is about to insert has the lock and room for one more.
ProviderInv ==
    ProviderLimit # Unlimited =>
        /\ Cardinality(FreshHosts) <= ProviderLimit
        /\ \A r \in Caller : pc[r] = "insert" =>
              providerLock = r /\ Cardinality(FreshHosts) < ProviderLimit

\* A lost warm claim has dropped the account's lock, and goes on to insert all the same.
LostClaim(r) == pc[r] \in {"check", "insert"} /\ cand[r] # NoHost

AccountInv ==
    AccountLimit # 0 =>
        \A a \in Account \ {Admin} :
            /\ Cardinality(FreshOf(a)) <= AccountLimit
            /\ \A r \in Caller :
                  pc[r] \in Counted /\ ~LostClaim(r) /\ req[r].account = a =>
                      accountLock[a] = r /\ Cardinality(FreshOf(a)) < AccountLimit

CountInv == LocksInv /\ ProviderInv /\ AccountInv

\* Fewer hosts count for less.
LEMMA Fewer ==
    ASSUME NEW S \in SUBSET Host, NEW T \in SUBSET S
    PROVE  /\ IsFiniteSet(S) /\ Cardinality(S) \in Nat /\ Cardinality(T) \in Nat
           /\ Cardinality(T) <= Cardinality(S)
<1>1. IsFiniteSet(Host)
  BY FS_Interval, LimitsAssumption DEF Host
<1>2. IsFiniteSet(S)
  BY <1>1, FS_Subset
<1>3. IsFiniteSet(T) /\ Cardinality(T) <= Cardinality(S)
  BY <1>2, FS_Subset
<1> QED BY <1>2, <1>3, FS_CardinalityType

\* One host more counts for one more at most.
LEMMA OneMore ==
    ASSUME NEW S \in SUBSET Host, NEW h \in Host, NEW T \in SUBSET (S \cup {h})
    PROVE  Cardinality(T) <= Cardinality(S) + 1
<1>1. IsFiniteSet(S) /\ Cardinality(S) \in Nat
  BY Fewer
<1>2. Cardinality(S \cup {h}) <= Cardinality(S) + 1
  BY <1>1, FS_AddElement
<1>3. Cardinality(T) <= Cardinality(S \cup {h}) /\ Cardinality(T) \in Nat /\ Cardinality(S \cup {h}) \in Nat
  BY Fewer
<1> QED BY <1>1, <1>2, <1>3

\* No step but an insert makes a host count that did not.
LEMMA FewerHosts ==
    ASSUME \A g \in Host : NoMore(g)
    PROVE  /\ FreshHosts' \subseteq FreshHosts
           /\ Cardinality(FreshHosts') \in Nat /\ Cardinality(FreshHosts) \in Nat
           /\ Cardinality(FreshHosts') <= Cardinality(FreshHosts)
<1>1. FreshHosts' \subseteq FreshHosts /\ FreshHosts \subseteq Host
  BY DEF FreshHosts, NeverLapsed, LiveHosts, NoMore
<1> QED BY <1>1, Fewer

\* Nor one count for an account, unless the step gives it the host.
LEMMA FewerOf ==
    ASSUME NEW a \in Account, \A g \in Host : NoMore(g),
           \A g \in Host : Live(g)' => host'[g].account \in {host[g].account, NoAccount}
    PROVE  /\ FreshOf(a)' \subseteq FreshOf(a)
           /\ Cardinality(FreshOf(a)') \in Nat /\ Cardinality(FreshOf(a)) \in Nat
           /\ Cardinality(FreshOf(a)') <= Cardinality(FreshOf(a))
<1>1. FreshOf(a)' \subseteq FreshOf(a) /\ FreshOf(a) \subseteq Host
  BY NamesAssumption DEF FreshOf, NeverLapsed, LiveOf, NoMore
<1> QED BY <1>1, Fewer

Unowned == \A g \in Host : Live(g)' => host'[g].account \in {host[g].account, NoAccount}

\* Where no row changes its owner, no account's count grows by it.
LEMMA QuietIsUnowned == ASSUME Quiet PROVE Unowned /\ \A g \in Host : NoMore(g)
BY DEF Quiet, Kept, Unowned, Live

\* A limit that is kept stays so while nobody's count or lock is touched.
LEMMA CountsKept ==
    ASSUME BaseInv, CountInv, \A g \in Host : NoMore(g), Unowned, KeepLocks,
           \A s \in Caller : pc[s] \in Counted \/ pc'[s] \in Counted =>
              pc'[s] = pc[s] /\ req'[s] = req[s] /\ cand'[s] = cand[s]
    PROVE  CountInv'
<1>1. LocksInv'
  <2>1. providerLock \in Caller \cup {Nobody} /\ \A a \in Account : accountLock[a] \in Request \cup {Nobody}
    BY DEF BaseInv, TypeOK
  <2> QED BY <2>1 DEF CountInv, LocksInv, KeepLocks, Counted, Caller
<1>2. ProviderInv'
  BY FewerHosts, LimitsAssumption DEF CountInv, ProviderInv, KeepLocks, Counted
<1>3. AccountInv'
  <2> SUFFICES ASSUME AccountLimit # 0, NEW a \in Account \ {Admin}
               PROVE  /\ Cardinality(FreshOf(a)') <= AccountLimit
                      /\ \A r \in Caller :
                          pc'[r] \in Counted /\ ~LostClaim(r)' /\ req'[r].account = a =>
                              accountLock'[a] = r /\ Cardinality(FreshOf(a)') < AccountLimit
    BY DEF AccountInv
  <2>1. Cardinality(FreshOf(a)') \in Nat /\ Cardinality(FreshOf(a)) \in Nat
        /\ Cardinality(FreshOf(a)') <= Cardinality(FreshOf(a))
    BY FewerOf DEF Unowned
  <2> QED BY <2>1, LimitsAssumption DEF CountInv, AccountInv, KeepLocks, LostClaim
<1> QED BY <1>1, <1>2, <1>3 DEF CountInv

\* The steps that neither count nor hold a lock (the lookups, the provisioning).
LEMMA BystanderCount ==
    ASSUME BaseInv, CountInv, \A g \in Host : NoMore(g), Unowned, KeepLocks,
           NEW r \in Caller, Alone(r), pc[r] \notin Counted, pc'[r] \notin Counted
    PROVE  CountInv'
BY CountsKept DEF Alone

\* A lock that is r's is held in one of the counted steps: elsewhere r holds none.
LEMMA HoldsNone ==
    ASSUME BaseInv, CountInv, NEW r \in Caller, pc[r] \notin Counted
    PROVE  /\ \A a \in Account : accountLock[a] # r
           /\ providerLock # r
<1>1. r # Nobody
  BY NamesAssumption DEF Caller
<1> QED BY <1>1 DEF CountInv, LocksInv, Counted

\* An account's count passes its lock on to the claim (_count_account_hosts).
LEMMA AdmitCount ==
    ASSUME BaseInv, CountInv, NEW r \in Caller, Admit(r)
    PROVE  CountInv'
<1>1. /\ pc[r] = "admit" /\ r # Nobody /\ UNCHANGED <<host, revived, late, providerLock>>
      /\ Alone(r) /\ pc'[r] \in {"claim", "check", "ended"} /\ r \in Request
  BY AdmitBase, NamesAssumption DEF Admit, Untouched, Caller, BaseInv, Equipped
<1>2. (\A g \in Host : NoMore(g)) /\ Unowned
  BY <1>1, SameRows, QuietIsUnowned DEF BaseInv
<1>3. CASE UNCHANGED accountLock /\ pc'[r] = "ended"
  BY <1>1, <1>2, <1>3, BystanderCount DEF KeepLocks, Counted
<1>4. CASE /\ GoesOn(r, IF req[r].plain THEN "claim" ELSE "check")
           /\ \/ (AccountLimit = 0 \/ req[r].account = Admin) /\ UNCHANGED accountLock
              \/ /\ accountLock[req[r].account] = Nobody
                 /\ ~AtLimit(LiveOf(req[r].account), AccountLimit)
                 /\ accountLock' = [accountLock EXCEPT ![req[r].account] = r]
  <2>1. /\ pc'[r] \in {"claim", "check"} /\ UNCHANGED <<req, cand>>
        /\ \A s \in Caller \ {r} : pc'[s] = pc[s]
    BY <1>1, <1>4 DEF GoesOn, Goto, BaseInv, TypeOK, Alone
  <2>2. \A a \in Account : accountLock[a] # r
    BY <1>1, HoldsNone DEF Counted
  <2>3. \A a \in Account : \/ accountLock'[a] = accountLock[a]
                           \/ /\ a = req[r].account /\ accountLock[a] = Nobody /\ accountLock'[a] = r
                              /\ ~AtLimit(LiveOf(a), AccountLimit)
    BY <1>4 DEF BaseInv, TypeOK
  <2>4. accountLock' \in [Account -> Request \cup {Nobody}]
    BY <1>1, <1>4 DEF BaseInv, TypeOK
  <2>5. providerLock \in Caller \cup {Nobody} /\ \A a \in Account : accountLock[a] \in Request \cup {Nobody}
    BY DEF BaseInv, TypeOK
  <2>6. LocksInv'
    BY <1>1, <2>1, <2>3, <2>5 DEF CountInv, LocksInv, Counted, Caller
  <2>7. ProviderInv'
    BY <1>1, <1>2, <2>1, FewerHosts, LimitsAssumption DEF CountInv, ProviderInv
  <2>8. AccountInv'
    <3> SUFFICES ASSUME AccountLimit # 0, NEW a \in Account \ {Admin}
                 PROVE  /\ Cardinality(FreshOf(a)') <= AccountLimit
                        /\ \A s \in Caller :
                            pc'[s] \in Counted /\ ~LostClaim(s)' /\ req'[s].account = a =>
                                accountLock'[a] = s /\ Cardinality(FreshOf(a)') < AccountLimit
      BY DEF AccountInv
    <3>1. Cardinality(FreshOf(a)') \in Nat /\ Cardinality(FreshOf(a)) \in Nat
          /\ Cardinality(FreshOf(a)') <= Cardinality(FreshOf(a))
      BY <1>2, FewerOf DEF Unowned
    <3>2. Cardinality(FreshOf(a)) <= AccountLimit
      BY DEF CountInv, AccountInv
    <3>3. ASSUME NEW s \in Caller \ {r}, pc'[s] \in Counted, ~LostClaim(s)', req'[s].account = a
          PROVE  accountLock'[a] = s /\ Cardinality(FreshOf(a)') < AccountLimit
      <4>1. pc[s] \in Counted /\ ~LostClaim(s) /\ req[s].account = a
        BY <2>1, <3>3 DEF LostClaim
      <4>2. accountLock[a] = s /\ Cardinality(FreshOf(a)) < AccountLimit
        BY <4>1 DEF CountInv, AccountInv
      <4>3. s # Nobody
        BY NamesAssumption DEF Caller
      <4> QED BY <2>3, <3>1, <4>2, <4>3, LimitsAssumption
    <3>4. ASSUME req[r].account = a
          PROVE  accountLock'[a] = r /\ Cardinality(FreshOf(a)') < AccountLimit
      <4>1. accountLock'[a] = r /\ ~AtLimit(LiveOf(a), AccountLimit)
        BY <1>4, <3>4 DEF BaseInv, TypeOK
      <4>2. LiveOf(a) \subseteq Host /\ FreshOf(a) \subseteq LiveOf(a)
        BY DEF LiveOf, FreshOf, NeverLapsed
      <4>3. Cardinality(FreshOf(a)) <= Cardinality(LiveOf(a)) /\ Cardinality(LiveOf(a)) \in Nat
        BY <4>2, Fewer
      <4> QED BY <3>1, <4>1, <4>3, LimitsAssumption DEF AtLimit
    <3> QED BY <2>1, <3>1, <3>2, <3>3, <3>4, LimitsAssumption
  <2> QED BY <2>6, <2>7, <2>8 DEF CountInv
<1> QED BY <1>3, <1>4 DEF Admit, Ends, Goto, BaseInv, TypeOK

\* A request that goes on with what it counted (_claim_warm_host's SELECT).
LEMMA SelectWarmCount ==
    ASSUME BaseInv, CountInv, NEW r \in Caller, SelectWarm(r)
    PROVE  CountInv'
<1>1. /\ pc[r] = "claim" /\ UNCHANGED <<host, revived, late, accountLock, providerLock>>
      /\ Alone(r) /\ pc'[r] \in {"update", "check"} /\ UNCHANGED req
  BY SelectWarmBase DEF SelectWarm, Untouched, KeepLocks
<1>2. (\A g \in Host : NoMore(g)) /\ Unowned
  BY <1>1, SameRows, QuietIsUnowned DEF BaseInv
<1>3. \A s \in Caller \ {r} : pc'[s] = pc[s] /\ cand'[s] = cand[s]
  BY <1>1 DEF Alone
<1>4. providerLock \in Caller \cup {Nobody} /\ \A a \in Account : accountLock[a] \in Request \cup {Nobody}
  BY DEF BaseInv, TypeOK
<1>5. LocksInv'
  BY <1>1, <1>3, <1>4 DEF CountInv, LocksInv, Counted, Caller
<1>6. ProviderInv'
  BY <1>1, <1>2, <1>3, FewerHosts, LimitsAssumption DEF CountInv, ProviderInv
<1>7. AccountInv'
  <2> SUFFICES ASSUME AccountLimit # 0, NEW a \in Account \ {Admin}
               PROVE  /\ Cardinality(FreshOf(a)') <= AccountLimit
                      /\ \A s \in Caller :
                          pc'[s] \in Counted /\ ~LostClaim(s)' /\ req'[s].account = a =>
                              accountLock'[a] = s /\ Cardinality(FreshOf(a)') < AccountLimit
    BY DEF AccountInv
  <2>1. Cardinality(FreshOf(a)') \in Nat /\ Cardinality(FreshOf(a)) \in Nat
        /\ Cardinality(FreshOf(a)') <= Cardinality(FreshOf(a))
    BY <1>2, FewerOf DEF Unowned
  <2>2. \A s \in Caller : pc'[s] \in Counted /\ ~LostClaim(s)' => pc[s] \in Counted /\ ~LostClaim(s)
    BY <1>1, <1>3 DEF LostClaim, Counted
  <2> QED BY <1>1, <2>1, <2>2, LimitsAssumption DEF CountInv, AccountInv
<1> QED BY <1>5, <1>6, <1>7 DEF CountInv

\* A transaction that ends drops its locks, and what others hold stays theirs.
LEMMA DropsLocks ==
    ASSUME BaseInv, CountInv, NEW r \in Caller, Alone(r), ReleaseLocks(r)
    PROVE  /\ LocksInv'
           /\ providerLock # r => providerLock' = providerLock
           /\ \A a \in Account : accountLock[a] # r => accountLock'[a] = accountLock[a]
<1>1. /\ \A a \in Account : accountLock'[a] = IF accountLock[a] = r THEN Nobody ELSE accountLock[a]
      /\ providerLock' = IF providerLock = r THEN Nobody ELSE providerLock
  BY ReleaseLocksValue DEF BaseInv
<1>2. providerLock \in Caller \cup {Nobody} /\ \A a \in Account : accountLock[a] \in Request \cup {Nobody}
  BY DEF BaseInv, TypeOK
<1>3. LocksInv'
  BY <1>1, <1>2 DEF CountInv, LocksInv, Alone, Caller
<1> QED BY <1>1, <1>3

\* Once r is past the counts, and no host counts that did not, the limits are kept.
LEMMA LeavesCount ==
    ASSUME BaseInv, CountInv, NEW r \in Caller, Alone(r), ReleaseLocks(r), pc'[r] \notin Counted,
           \A g \in Host : NoMore(g), Unowned
    PROVE  CountInv'
<1>1. /\ LocksInv'
      /\ providerLock # r => providerLock' = providerLock
      /\ \A a \in Account : accountLock[a] # r => accountLock'[a] = accountLock[a]
  BY DropsLocks
<1>2. ProviderInv'
  BY <1>1, FewerHosts, LimitsAssumption DEF CountInv, ProviderInv, Alone, Counted
<1>3. AccountInv'
  <2> SUFFICES ASSUME AccountLimit # 0, NEW a \in Account \ {Admin}
               PROVE  /\ Cardinality(FreshOf(a)') <= AccountLimit
                      /\ \A s \in Caller :
                          pc'[s] \in Counted /\ ~LostClaim(s)' /\ req'[s].account = a =>
                              accountLock'[a] = s /\ Cardinality(FreshOf(a)') < AccountLimit
    BY DEF AccountInv
  <2>1. Cardinality(FreshOf(a)') \in Nat /\ Cardinality(FreshOf(a)) \in Nat
        /\ Cardinality(FreshOf(a)') <= Cardinality(FreshOf(a))
    BY FewerOf DEF Unowned
  <2>2. Cardinality(FreshOf(a)) <= AccountLimit
    BY DEF CountInv, AccountInv
  <2>3. ASSUME NEW s \in Caller, pc'[s] \in Counted, ~LostClaim(s)', req'[s].account = a
        PROVE  accountLock'[a] = s /\ Cardinality(FreshOf(a)') < AccountLimit
    <3>1. s # r /\ pc[s] \in Counted /\ ~LostClaim(s) /\ req[s].account = a
      BY <2>3 DEF Alone, LostClaim
    <3>2. accountLock[a] = s /\ Cardinality(FreshOf(a)) < AccountLimit
      BY <3>1 DEF CountInv, AccountInv
    <3> QED BY <1>1, <2>1, <3>1, <3>2, LimitsAssumption
  <2> QED BY <2>1, <2>2, <2>3, LimitsAssumption
<1> QED BY <1>1, <1>2, <1>3 DEF CountInv

\* A claim gives the account one host more, under the account's lock (_claim_warm_host).
LEMMA ClaimWarmCount ==
    ASSUME BaseInv, CountInv, NEW r \in Caller, ClaimWarm(r)
    PROVE  CountInv'
<1>1. /\ pc[r] = "update" /\ cand[r] \in Host /\ ReleaseLocks(r) /\ Alone(r)
      /\ pc'[r] \in {"record", "check"}
  BY ClaimWarmBase DEF ClaimWarm, BaseInv, Equipped
<1>2. CASE ~StillUnclaimed(cand[r])
  <2>1. GoesOn(r, "check") /\ UNCHANGED <<host, revived, late>>
    BY <1>2 DEF ClaimWarm
  <2>2. (\A g \in Host : NoMore(g)) /\ Unowned
    BY <2>1, SameRows, QuietIsUnowned DEF BaseInv
  <2>3. LocksInv' /\ (providerLock # r => providerLock' = providerLock)
        /\ \A a \in Account : accountLock[a] # r => accountLock'[a] = accountLock[a]
    BY <1>1, DropsLocks
  <2>4. pc'[r] = "check" /\ cand'[r] # NoHost
    BY <1>1, <2>1, LimitsAssumption DEF GoesOn, Goto, BaseInv, TypeOK, Host, NoHost
  <2>5. providerLock # r
    BY <1>1, NamesAssumption DEF CountInv, LocksInv, Caller
  <2>6. ProviderInv'
    BY <1>1, <2>2, <2>3, <2>4, <2>5, FewerHosts, LimitsAssumption DEF CountInv, ProviderInv, Alone
  <2>7. AccountInv'
    <3> SUFFICES ASSUME AccountLimit # 0, NEW a \in Account \ {Admin}
                 PROVE  /\ Cardinality(FreshOf(a)') <= AccountLimit
                        /\ \A s \in Caller :
                            pc'[s] \in Counted /\ ~LostClaim(s)' /\ req'[s].account = a =>
                                accountLock'[a] = s /\ Cardinality(FreshOf(a)') < AccountLimit
      BY DEF AccountInv
    <3>1. Cardinality(FreshOf(a)') \in Nat /\ Cardinality(FreshOf(a)) \in Nat
          /\ Cardinality(FreshOf(a)') <= Cardinality(FreshOf(a))
      BY <2>2, FewerOf DEF Unowned
    <3>2. Cardinality(FreshOf(a)) <= AccountLimit
      BY DEF CountInv, AccountInv
    <3>3. ASSUME NEW s \in Caller, pc'[s] \in Counted, ~LostClaim(s)', req'[s].account = a
          PROVE  accountLock'[a] = s /\ Cardinality(FreshOf(a)') < AccountLimit
      <4>1. s # r /\ pc[s] \in Counted /\ ~LostClaim(s) /\ req[s].account = a
        BY <1>1, <2>4, <3>3 DEF Alone, LostClaim
      <4>2. accountLock[a] = s /\ Cardinality(FreshOf(a)) < AccountLimit
        BY <4>1 DEF CountInv, AccountInv
      <4> QED BY <2>3, <3>1, <4>1, <4>2, LimitsAssumption
    <3> QED BY <3>1, <3>2, <3>3, LimitsAssumption
  <2> QED BY <2>3, <2>6, <2>7 DEF CountInv
<1>3. CASE StillUnclaimed(cand[r])
  <2>1. PICK h \in Host : h = cand[r]
    BY <1>1
  <2>2. /\ \A g \in Host : NoMore(g)
        /\ \A g \in Host \ {h} : host'[g] = host[g]
        /\ host'[h].account = req[r].account
    BY <1>3, <2>1, ClaimRows DEF BaseInv
  <2>3. LocksInv' /\ (providerLock # r => providerLock' = providerLock)
        /\ \A a \in Account : accountLock[a] # r => accountLock'[a] = accountLock[a]
    BY <1>1, DropsLocks
  <2>4. pc'[r] = "record"
    BY <1>3 DEF ClaimWarm, Goto, BaseInv, TypeOK
  <2>6. ProviderInv'
    BY <1>1, <2>2, <2>3, <2>4, FewerHosts, LimitsAssumption DEF CountInv, ProviderInv, Alone
  <2>7. AccountInv'
    <3> SUFFICES ASSUME AccountLimit # 0, NEW a \in Account \ {Admin}
                 PROVE  /\ Cardinality(FreshOf(a)') <= AccountLimit
                        /\ \A s \in Caller :
                            pc'[s] \in Counted /\ ~LostClaim(s)' /\ req'[s].account = a =>
                                accountLock'[a] = s /\ Cardinality(FreshOf(a)') < AccountLimit
      BY DEF AccountInv
    <3>1. CASE req[r].account # a
      <4>1. FreshOf(a)' \subseteq FreshOf(a) /\ FreshOf(a) \subseteq Host
        BY <2>2, <3>1 DEF FreshOf, NeverLapsed, LiveOf, NoMore
      <4>2. Cardinality(FreshOf(a)') \in Nat /\ Cardinality(FreshOf(a)) \in Nat
            /\ Cardinality(FreshOf(a)') <= Cardinality(FreshOf(a))
        BY <4>1, Fewer
      <4>3. ASSUME NEW s \in Caller, pc'[s] \in Counted, ~LostClaim(s)', req'[s].account = a
            PROVE  accountLock'[a] = s /\ Cardinality(FreshOf(a)') < AccountLimit
        <5>1. s # r /\ pc[s] \in Counted /\ ~LostClaim(s) /\ req[s].account = a
          BY <1>1, <2>4, <4>3 DEF Alone, LostClaim, Counted
        <5>2. accountLock[a] = s /\ Cardinality(FreshOf(a)) < AccountLimit
          BY <5>1 DEF CountInv, AccountInv
        <5> QED BY <2>3, <4>2, <5>1, <5>2, LimitsAssumption
      <4>4. Cardinality(FreshOf(a)) <= AccountLimit
        BY DEF CountInv, AccountInv
      <4> QED BY <4>2, <4>3, <4>4, LimitsAssumption
    <3>2. CASE req[r].account = a
      <4>1. accountLock[a] = r /\ Cardinality(FreshOf(a)) < AccountLimit
        BY <1>1, <3>2 DEF CountInv, AccountInv, Counted, LostClaim
      <4>2. FreshOf(a)' \subseteq FreshOf(a) \cup {h} /\ FreshOf(a) \subseteq Host
        BY <2>2 DEF FreshOf, NeverLapsed, LiveOf, NoMore
      <4>3. Cardinality(FreshOf(a)') <= Cardinality(FreshOf(a)) + 1
        BY <4>2, OneMore
      <4>4. FreshOf(a)' \subseteq Host
        BY <4>2
      <4>5. Cardinality(FreshOf(a)') \in Nat /\ Cardinality(FreshOf(a)) \in Nat
        BY <4>2, <4>4, Fewer
      <4>6. ASSUME NEW s \in Caller, pc'[s] \in Counted, ~LostClaim(s)', req'[s].account = a
            PROVE  FALSE
        <5>1. s # r /\ pc[s] \in Counted /\ ~LostClaim(s) /\ req[s].account = a
          BY <1>1, <2>4, <4>6 DEF Alone, LostClaim, Counted
        <5> QED BY <4>1, <5>1 DEF CountInv, AccountInv
      <4> QED BY <4>1, <4>3, <4>5, <4>6, LimitsAssumption
    <3> QED BY <3>1, <3>2
  <2> QED BY <2>3, <2>6, <2>7 DEF CountInv
<1> QED BY <1>2, <1>3

\* The provider's count passes its lock on to the insert (_count_live_hosts).
LEMMA CheckCount ==
    ASSUME BaseInv, CountInv, NEW r \in Caller, Check(r)
    PROVE  CountInv'
<1>1. /\ pc[r] = "check" /\ r # Nobody /\ UNCHANGED <<host, revived, late>> /\ Alone(r)
      /\ pc'[r] \in {"insert", "ended"}
  BY CheckBase, NamesAssumption DEF Check, Untouched, Caller
<1>2. (\A g \in Host : NoMore(g)) /\ Unowned
  BY <1>1, SameRows, QuietIsUnowned DEF BaseInv
<1>3. CASE Ends(r) /\ ReleaseLocks(r)
  <2>1. pc'[r] = "ended"
    BY <1>3 DEF Ends, Goto, BaseInv, TypeOK
  <2> QED BY <1>1, <1>2, <1>3, <2>1, LeavesCount DEF Counted
<1>4. CASE /\ GoesOn(r, "insert") /\ UNCHANGED accountLock
           /\ \/ ProviderLimit = Unlimited /\ UNCHANGED providerLock
              \/ /\ providerLock = Nobody /\ providerLock' = r
                 /\ ~AtLimit(LiveHosts, ProviderLimit)
  <2>1. /\ pc'[r] = "insert" /\ UNCHANGED <<req, cand>>
        /\ \A s \in Caller \ {r} : pc'[s] = pc[s]
    BY <1>1, <1>4 DEF GoesOn, Goto, BaseInv, TypeOK, Alone
  <2>2. providerLock \in Caller \cup {Nobody} /\ \A a \in Account : accountLock[a] \in Request \cup {Nobody}
    BY DEF BaseInv, TypeOK
  <2>3. LocksInv'
    BY <1>1, <1>4, <2>1, <2>2 DEF CountInv, LocksInv, Counted, Caller
  <2>4. ProviderInv'
    <3> SUFFICES ASSUME ProviderLimit # Unlimited
                 PROVE  /\ Cardinality(FreshHosts') <= ProviderLimit
                        /\ \A s \in Caller : pc'[s] = "insert" =>
                              providerLock' = s /\ Cardinality(FreshHosts') < ProviderLimit
      BY DEF ProviderInv
    <3>1. providerLock = Nobody /\ providerLock' = r /\ ~AtLimit(LiveHosts, ProviderLimit)
      BY <1>4
    <3>2. LiveHosts \subseteq Host /\ FreshHosts \subseteq LiveHosts
      BY DEF LiveHosts, FreshHosts, NeverLapsed
    <3>3. Cardinality(FreshHosts) <= Cardinality(LiveHosts) /\ Cardinality(LiveHosts) \in Nat
      BY <3>2, Fewer
    <3>4. Cardinality(FreshHosts') < ProviderLimit
      BY <1>2, <3>1, <3>3, FewerHosts, LimitsAssumption DEF AtLimit
    <3>5. \A s \in Caller \ {r} : pc'[s] # "insert"
      BY <2>1, <3>1, NamesAssumption DEF CountInv, ProviderInv, Caller
    <3> QED BY <1>2, <3>1, <3>4, <3>5, FewerHosts, LimitsAssumption
  <2>5. AccountInv'
    <3> SUFFICES ASSUME AccountLimit # 0, NEW a \in Account \ {Admin}
                 PROVE  /\ Cardinality(FreshOf(a)') <= AccountLimit
                        /\ \A s \in Caller :
                            pc'[s] \in Counted /\ ~LostClaim(s)' /\ req'[s].account = a =>
                                accountLock'[a] = s /\ Cardinality(FreshOf(a)') < AccountLimit
      BY DEF AccountInv
    <3>1. Cardinality(FreshOf(a)') \in Nat /\ Cardinality(FreshOf(a)) \in Nat
          /\ Cardinality(FreshOf(a)') <= Cardinality(FreshOf(a))
      BY <1>2, FewerOf DEF Unowned
    <3>2. \A s \in Caller : pc'[s] \in Counted /\ ~LostClaim(s)' => pc[s] \in Counted /\ ~LostClaim(s)
      BY <1>1, <2>1 DEF LostClaim, Counted
    <3> QED BY <1>4, <2>1, <3>1, <3>2, LimitsAssumption DEF CountInv, AccountInv
  <2> QED BY <2>3, <2>4, <2>5 DEF CountInv
<1> QED BY <1>3, <1>4 DEF Check, KeepLocks

\* The insert adds the one host that there was room for, and drops both locks (create_host).
LEMMA InsertCount ==
    ASSUME BaseInv, CountInv, NEW r \in Caller, Insert(r)
    PROVE  CountInv'
<1>1. /\ pc[r] = "insert" /\ ReleaseLocks(r) /\ Alone(r) /\ pc'[r] = "provision"
  BY InsertBase DEF Insert
<1>2. PICK h \in Host :
        /\ host[h].status = "unborn" /\ host'[h].account = req[r].account
        /\ \A g \in Host \ {h} : host'[g] = host[g]
        /\ late' = IF cand[r] # NoHost THEN late \cup {h} ELSE late
        /\ UNCHANGED revived
  BY InsertRows DEF BaseInv
<1>3. LocksInv' /\ (providerLock # r => providerLock' = providerLock)
      /\ \A a \in Account : accountLock[a] # r => accountLock'[a] = accountLock[a]
  BY <1>1, DropsLocks
<1>4. ProviderInv'
  <2> SUFFICES ASSUME ProviderLimit # Unlimited
               PROVE  /\ Cardinality(FreshHosts') <= ProviderLimit
                      /\ \A s \in Caller : pc'[s] = "insert" =>
                            providerLock' = s /\ Cardinality(FreshHosts') < ProviderLimit
    BY DEF ProviderInv
  <2>1. providerLock = r /\ Cardinality(FreshHosts) < ProviderLimit
    BY <1>1 DEF CountInv, ProviderInv
  <2>2. FreshHosts' \subseteq FreshHosts \cup {h} /\ FreshHosts \subseteq Host /\ FreshHosts' \subseteq Host
    BY <1>2 DEF FreshHosts, NeverLapsed, LiveHosts, Live, Exists
  <2>3. Cardinality(FreshHosts') <= Cardinality(FreshHosts) + 1
    BY <2>2, OneMore
  <2>4. Cardinality(FreshHosts') \in Nat /\ Cardinality(FreshHosts) \in Nat
    BY <2>2, Fewer
  <2>5. \A s \in Caller : pc'[s] # "insert"
    BY <1>1, <2>1 DEF CountInv, ProviderInv, Alone
  <2> QED BY <2>1, <2>3, <2>4, <2>5, LimitsAssumption
<1>5. AccountInv'
  <2> SUFFICES ASSUME AccountLimit # 0, NEW a \in Account \ {Admin}
               PROVE  /\ Cardinality(FreshOf(a)') <= AccountLimit
                      /\ \A s \in Caller :
                          pc'[s] \in Counted /\ ~LostClaim(s)' /\ req'[s].account = a =>
                              accountLock'[a] = s /\ Cardinality(FreshOf(a)') < AccountLimit
    BY DEF AccountInv
  <2>1. Cardinality(FreshOf(a)) <= AccountLimit
    BY DEF CountInv, AccountInv
  <2>2. \A s \in Caller : pc'[s] \in Counted /\ ~LostClaim(s)' /\ req'[s].account = a =>
            s # r /\ pc[s] \in Counted /\ ~LostClaim(s) /\ req[s].account = a
    BY <1>1 DEF Alone, LostClaim, Counted
  <2>3. CASE req[r].account # a \/ cand[r] # NoHost
    <3>1. FreshOf(a)' \subseteq FreshOf(a) /\ FreshOf(a) \subseteq Host
      BY <1>2, <2>3 DEF FreshOf, NeverLapsed, LiveOf, Live, Exists
    <3>2. Cardinality(FreshOf(a)') \in Nat /\ Cardinality(FreshOf(a)) \in Nat
          /\ Cardinality(FreshOf(a)') <= Cardinality(FreshOf(a))
      BY <3>1, Fewer
    <3>3. ASSUME NEW s \in Caller, pc'[s] \in Counted, ~LostClaim(s)', req'[s].account = a
          PROVE  accountLock'[a] = s /\ Cardinality(FreshOf(a)') < AccountLimit
      <4>1. s # r /\ accountLock[a] = s /\ Cardinality(FreshOf(a)) < AccountLimit
        BY <2>2, <3>3 DEF CountInv, AccountInv
      <4> QED BY <1>3, <3>2, <4>1, LimitsAssumption
    <3> QED BY <2>1, <3>2, <3>3, LimitsAssumption
  <2>4. CASE req[r].account = a /\ cand[r] = NoHost
    <3>1. accountLock[a] = r /\ Cardinality(FreshOf(a)) < AccountLimit
      BY <1>1, <2>4 DEF CountInv, AccountInv, Counted, LostClaim
    <3>2. FreshOf(a)' \subseteq FreshOf(a) \cup {h} /\ FreshOf(a) \subseteq Host /\ FreshOf(a)' \subseteq Host
      BY <1>2, <2>4 DEF FreshOf, NeverLapsed, LiveOf, Live, Exists
    <3>3. Cardinality(FreshOf(a)') <= Cardinality(FreshOf(a)) + 1
      BY <3>2, OneMore
    <3>4. Cardinality(FreshOf(a)') \in Nat /\ Cardinality(FreshOf(a)) \in Nat
      BY <3>2, Fewer
    <3>5. \A s \in Caller : ~(pc'[s] \in Counted /\ ~LostClaim(s)' /\ req'[s].account = a)
      BY <2>2, <3>1 DEF CountInv, AccountInv
    <3> QED BY <3>1, <3>3, <3>4, <3>5, LimitsAssumption
  <2> QED BY <2>3, <2>4
<1> QED BY <1>3, <1>4, <1>5 DEF CountInv

\* A top-up counts for no account (_maintain_pool).
LEMMA TopUpCount ==
    ASSUME BaseInv, CountInv, NEW r \in Caller, TopUp(r)
    PROVE  CountInv'
<1>1. /\ pc[r] = "idle" /\ r # Nobody /\ UNCHANGED <<host, revived, late, accountLock, providerLock>>
      /\ Alone(r) /\ pc'[r] = "check" /\ req'[r].account = NoAccount
  BY TopUpBase, NamesAssumption DEF TopUp, Untouched, KeepLocks, Caller, BaseInv, Equipped
<1>2. (\A g \in Host : NoMore(g)) /\ Unowned
  BY <1>1, SameRows, QuietIsUnowned DEF BaseInv
<1>3. LocksInv'
  <2>1. providerLock \in Caller \cup {Nobody} /\ \A a \in Account : accountLock[a] \in Request \cup {Nobody}
    BY DEF BaseInv, TypeOK
  <2>2. (\A a \in Account : accountLock[a] # r) /\ providerLock # r
    BY <1>1, HoldsNone DEF Counted
  <2> QED BY <1>1, <2>1, <2>2 DEF CountInv, LocksInv, Alone, Caller
<1>4. ProviderInv'
  BY <1>1, <1>2, FewerHosts, LimitsAssumption DEF CountInv, ProviderInv, Alone
<1>5. AccountInv'
  <2> SUFFICES ASSUME AccountLimit # 0, NEW a \in Account \ {Admin}
               PROVE  /\ Cardinality(FreshOf(a)') <= AccountLimit
                      /\ \A s \in Caller :
                          pc'[s] \in Counted /\ ~LostClaim(s)' /\ req'[s].account = a =>
                              accountLock'[a] = s /\ Cardinality(FreshOf(a)') < AccountLimit
    BY DEF AccountInv
  <2>1. Cardinality(FreshOf(a)') \in Nat /\ Cardinality(FreshOf(a)) \in Nat
        /\ Cardinality(FreshOf(a)') <= Cardinality(FreshOf(a))
    BY <1>2, FewerOf DEF Unowned
  <2>2. \A s \in Caller : pc'[s] \in Counted /\ ~LostClaim(s)' /\ req'[s].account = a =>
            s # r /\ pc[s] \in Counted /\ ~LostClaim(s) /\ req[s].account = a
    BY <1>1, NamesAssumption DEF Alone, LostClaim
  <2> QED BY <1>1, <2>1, <2>2, LimitsAssumption DEF CountInv, AccountInv
<1> QED BY <1>3, <1>4, <1>5 DEF CountInv

\* A request that dies drops its locks with its transaction.
LEMMA DieCount ==
    ASSUME BaseInv, CountInv, NEW r \in Caller, Die(r)
    PROVE  CountInv'
<1>1. Alone(r) /\ ReleaseLocks(r) /\ pc'[r] = "ended" /\ UNCHANGED <<host, revived, late>>
  BY DieBase DEF Die, Untouched
<1>2. (\A g \in Host : NoMore(g)) /\ Unowned
  BY <1>1, SameRows, QuietIsUnowned DEF BaseInv
<1> QED BY <1>1, <1>2, LeavesCount DEF Counted

-----------------------------------------------------------------------------
(* Every step.                                                             *)

\* Every step of a request or a top-up keeps the types, and moves nobody else.
LEMMA StepBaseInv ==
    ASSUME BaseInv, NEW r \in Caller, Step(r)
    PROVE  BaseInv' /\ Alone(r)
<1>1. CASE \E a \in Account, k \in Key \cup {NoKey}, plain \in BOOLEAN : Arrive(r, a, k, plain)
  BY <1>1, ArriveBase
<1>2. CASE TopUp(r) \/ Die(r)
  BY <1>2, TopUpBase, DieBase
<1>3. CASE LookUp(r) \/ ReadHost(r) \/ Collect(r) \/ Record(r) \/ Release(r)
  BY <1>3, LookUpBase, ReadHostBase, CollectBase, RecordBase, ReleaseBase
<1>4. CASE Admit(r) \/ SelectWarm(r) \/ ClaimWarm(r) \/ Check(r) \/ Insert(r)
  BY <1>4, AdmitBase, SelectWarmBase, ClaimWarmBase, CheckBase, InsertBase
<1>5. CASE Provision(r) \/ Stamp(r)
  BY <1>5, ProvisionBase, StampBase
<1> QED BY <1>1, <1>2, <1>3, <1>4, <1>5 DEF Step, Advance

\* So does a step that changes nothing.
LEMMA StutterBase ==
    ASSUME BaseInv, UNCHANGED vars
    PROVE  BaseInv'
<1>1. /\ UNCHANGED <<req, pc, own, cand, seen, accountLock, providerLock>>
      /\ UNCHANGED <<host, keys, epoch, swept, revived, late>>
  BY DEF vars
<1>2. host' \in Table /\ KeyTypes' /\ KeysInv'
  BY <1>1 DEF BaseInv, TypeOK, Table, KeyTypes, KeysInv
<1> QED BY <1>1, <1>2, OutsideBase

\* What every step needs, every step leaves behind.
LEMMA NextBase ==
    ASSUME BaseInv, [Next]_vars
    PROVE  BaseInv'
BY StepBaseInv, WorldBase, ExpireKeyBase, StutterBase DEF Next

\* Every step of a request or a top-up keeps the limits and the locks.
LEMMA StepCount ==
    ASSUME BaseInv, CountInv, NEW r \in Caller, Step(r)
    PROVE  CountInv'
<1>1. ASSUME UNCHANGED <<host, revived, late>>, KeepLocks, Alone(r), pc[r] \notin Counted,
             pc'[r] \notin Counted
      PROVE  CountInv'
  BY <1>1, SameRows, QuietIsUnowned, BystanderCount DEF BaseInv
<1>2. CASE \E a \in Account, k \in Key \cup {NoKey}, plain \in BOOLEAN : Arrive(r, a, k, plain)
  BY <1>1, <1>2, ArriveBase DEF Arrive, Counted
<1>3. CASE LookUp(r)
  BY <1>1, <1>3, LookUpBase DEF LookUp, Untouched, Counted
<1>4. CASE ReadHost(r)
  BY <1>1, <1>4, ReadHostBase DEF ReadHost, Untouched, Counted
<1>5. CASE Collect(r)
  BY <1>1, <1>5, CollectBase DEF Collect, Counted
<1>6. CASE Record(r)
  BY <1>1, <1>6, RecordBase DEF Record, Counted
<1>7. CASE Release(r)
  <2>1. pc[r] = "release" /\ own[r] \in Host /\ KeepLocks /\ Alone(r) /\ pc'[r] = "lookup"
    BY <1>7, ReleaseBase DEF Release, BaseInv, Equipped
  <2>2. PICK h \in Host : h = own[r]
    BY <2>1
  <2>3. /\ \A g \in Host : NoMore(g)
        /\ \A g \in Host \ {h} : Kept(g)
        /\ Kept(h) \/ host'[h].account = NoAccount
    BY <1>7, <2>2, ReleaseRows DEF BaseInv
  <2>4. Unowned
    BY <2>3 DEF Unowned, Kept, Live
  <2> QED BY <2>1, <2>3, <2>4, BystanderCount DEF Counted
<1>8. CASE Provision(r)
  <2>1. pc[r] = "provision" /\ own[r] \in Host /\ KeepLocks
    BY <1>8 DEF Provision, BaseInv, Equipped
  <2>2. Quiet
    BY <1>8, <2>1, ProvisionRows DEF BaseInv
  <2> QED BY <1>8, <2>1, <2>2, ProvisionBase, QuietIsUnowned, BystanderCount DEF Counted
<1>9. CASE Stamp(r)
  <2>1. pc[r] = "stamp" /\ own[r] \in Host /\ KeepLocks
    BY <1>9 DEF Stamp, BaseInv, Equipped
  <2>2. Quiet
    BY <1>9, <2>1, StampRows DEF BaseInv
  <2> QED BY <1>9, <2>1, <2>2, StampBase, QuietIsUnowned, BystanderCount DEF Counted
<1>10. CASE Admit(r) \/ SelectWarm(r) \/ ClaimWarm(r) \/ Check(r) \/ Insert(r) \/ TopUp(r) \/ Die(r)
  BY <1>10, AdmitCount, SelectWarmCount, ClaimWarmCount, CheckCount, InsertCount, TopUpCount,
     DieCount
<1> QED BY <1>2, <1>3, <1>4, <1>5, <1>6, <1>7, <1>8, <1>9, <1>10 DEF Step, Advance

\* While nobody moves, hosts only stop to count (a lease ends, a delete), or were counted
\* before (a renewal).
LEMMA OutsideCount ==
    ASSUME BaseInv, CountInv, UNCHANGED <<req, pc, cand, accountLock, providerLock>>, Quiet
    PROVE  CountInv'
BY CountsKept, QuietIsUnowned DEF KeepLocks

\* And every step of the world around them.
LEMMA NextCount ==
    ASSUME BaseInv, CountInv, [Next]_vars
    PROVE  CountInv'
<1>1. CASE \E r \in Caller : Step(r)
  BY <1>1, StepCount
<1>2. ASSUME NEW h \in Host, World(h) PROVE CountInv'
  <2>1. UNCHANGED <<req, pc, cand, accountLock, providerLock>>
    BY <1>2 DEF World, Lapse, Renew, Remove, Outside
  <2>2. Quiet
    BY <1>2, LapseRows, RenewRows, RemoveRows DEF World, BaseInv
  <2> QED BY <2>1, <2>2, OutsideCount
<1>3. ASSUME NEW k \in Key, ExpireKey(k) PROVE CountInv'
  <2>1. UNCHANGED <<req, pc, cand, accountLock, providerLock, host, revived, late>>
    BY <1>3 DEF ExpireKey, Outside
  <2>2. Quiet
    BY <2>1, SameRows DEF BaseInv
  <2> QED BY <2>1, <2>2, OutsideCount
<1>4. CASE UNCHANGED vars
  <2>1. UNCHANGED <<req, pc, cand, accountLock, providerLock, host, revived, late>>
    BY <1>4 DEF vars
  <2>2. Quiet
    BY <2>1, SameRows DEF BaseInv
  <2> QED BY <2>1, <2>2, OutsideCount
<1> QED BY <1>1, <1>2, <1>3, <1>4 DEF Next

\* To begin with there are the warm hosts, and nobody has asked for one.
LEMMA InitInv == Init => BaseInv /\ CountInv
<1> SUFFICES ASSUME Init PROVE BaseInv /\ CountInv
  OBVIOUS
<1>1. /\ Unborn \in HostRow /\ Unborn.status = "unborn" /\ Unborn.account = NoAccount
      /\ WarmHost \in HostRow /\ WarmHost.status = "active" /\ WarmHost.account = NoAccount
  BY DEF Unborn, WarmHost, HostRow, Status
<1>2. host \in Table /\ \A h \in Host : host[h] = IF h <= Warm THEN WarmHost ELSE Unborn
  BY <1>1 DEF Init, Table
<1>3. /\ NoRecord \in KeyRow /\ ~NoRecord.fresh
      /\ NoAsk \in Ask /\ NoAsk.account = NoAccount /\ NoAsk.key = NoKey
      /\ Nothing \in [host: Host \cup {NoHost}, epoch: Nat] /\ "idle" \in Pc
  BY DEF NoRecord, KeyRow, NoAsk, Ask, Nothing, Pc
<1>4. KeyTypes /\ CallTypes /\ LockTypes
  BY <1>3 DEF Init, KeyTypes, CallTypes, LockTypes
<1>5. TypeOK
  BY <1>2, <1>4, TypeParts
<1>6. KeysInv /\ \A r \in Caller : Equipped(r)
  BY <1>3 DEF Init, KeysInv, Equipped
<1>7. LocksInv
  BY DEF Init, LocksInv
<1>8. ProviderInv
  <2> SUFFICES ASSUME ProviderLimit # Unlimited PROVE Cardinality(FreshHosts) <= ProviderLimit
    BY DEF ProviderInv, Init
  <2>1. Warm \in Nat /\ FreshHosts \subseteq 1..Warm /\ ProviderLimit \in Nat /\ Warm <= ProviderLimit
    BY <1>1, <1>2, LimitsAssumption DEF FreshHosts, NeverLapsed, LiveHosts, Live, Exists, Host
  <2>2. IsFiniteSet(1..Warm) /\ Cardinality(1..Warm) = Warm
    BY <2>1, FS_Interval
  <2>3. IsFiniteSet(FreshHosts) /\ Cardinality(FreshHosts) <= Cardinality(1..Warm)
    BY <2>1, <2>2, FS_Subset
  <2>4. Cardinality(FreshHosts) \in Nat
    BY <2>3, FS_CardinalityType
  <2> QED BY <2>1, <2>2, <2>3, <2>4
<1>9. AccountInv
  <2>1. \A a \in Account : FreshOf(a) = {}
    BY <1>1, <1>2, NamesAssumption DEF FreshOf, NeverLapsed, LiveOf
  <2>2. Cardinality({}) = 0
    BY FS_EmptySet
  <2> QED BY <2>1, <2>2, LimitsAssumption DEF AccountInv, Init, Counted
<1> QED BY <1>5, <1>6, <1>7, <1>8, <1>9 DEF BaseInv, CountInv

\* The invariant that the limits rest on.
LEMMA Inductive == Spec => [](BaseInv /\ CountInv)
<1>1. Init => BaseInv /\ CountInv
  BY InitInv
<1>2. BaseInv /\ CountInv /\ [Next]_vars => (BaseInv /\ CountInv)'
  BY NextBase, NextCount
<1> QED BY <1>1, <1>2, PTL DEF Spec

\* However many creates, top-ups and replicas race, for every limit and number of hosts:
\* the provider's and the accounts' limits are kept by the two advisory locks, and no lock
\* outlives the transaction that took it (_count_live_hosts, _count_account_hosts).
THEOREM LimitsAreKept == Spec => []AdmissionInv
<1>1. BaseInv /\ CountInv => AdmissionInv
  BY DEF BaseInv, CountInv, AdmissionInv, LocksInv, ProviderInv, AccountInv, Counted,
         FreshHosts, FreshOf, ProviderLimitKept, AccountLimitKept, LocksEndWithTheCount
<1> QED BY <1>1, Inductive, PTL

-----------------------------------------------------------------------------
(* Who holds which host.                                                   *)

\* A request works on a host from the commit that gave it to the one that records its key.
Owning == {"provision", "stamp", "record", "release"}
Owns(r, h) == pc[r] \in Owning /\ own[r] = h

\* A request that has read the key's host, or was answered with it.
Keeps(r, h) == pc[r] \in {"read", "answered"} /\ seen[r].host = h

Names(k, h) == keys[k].host = h

\* Not for the warm claim: gone, claimed, or never of the pool.
Taken(h) == host[h].status = "gone" \/ (Exists(h) /\ (host[h].pool => host[h].claimed))

HeldIsTaken(h) ==
    /\ \A r \in Request : Owns(r, h) \/ Keeps(r, h) => Taken(h)
    /\ \A k \in Key : Names(k, h) => Taken(h)

\* What a request is about to claim is of the pool.
PickedIsWarm(h) ==
    \A r \in Request : pc[r] = "update" /\ cand[r] = h =>
        host[h].status # "unborn" /\ (Exists(h) => host[h].pool)

\* A host that a request works on is nobody else's, and no key's yet.
OwnedAlone(h) ==
    \A r \in Request : Owns(r, h) =>
        /\ \A s \in Request : ~Keeps(s, h) /\ (Owns(s, h) => s = r)
        /\ \A k \in Key : ~Names(k, h)

HeldByAccount(h) ==
    \A r \in Request :
        (Owns(r, h) \/ (Keeps(r, h) /\ Answered(r))) /\ Exists(h) => SameAccount(r, h)

\* Those who share a host share the key that names it, and the answered their account.
SharedByKey(h) ==
    /\ \A r, s \in Request : Keeps(r, h) /\ Keeps(s, h) /\ r # s =>
          req[r].key = req[s].key /\ req[r].key # NoKey
    /\ \A r \in Request, k \in Key : Keeps(r, h) /\ Names(k, h) => req[r].key = k
    /\ \A j, k \in Key : Names(j, h) /\ Names(k, h) => j = k
    /\ \A r, s \in Request : Keeps(r, h) /\ Keeps(s, h) /\ Answered(r) /\ Answered(s) =>
          req[r].account = req[s].account

HandAt(h) ==
    /\ HeldIsTaken(h) /\ PickedIsWarm(h) /\ OwnedAlone(h) /\ HeldByAccount(h) /\ SharedByKey(h)

HandInv == \A h \in Host : HandAt(h)

\* r holds h only if it did, and picks h only if it did or h is warm.
HoldsLess(r, h) ==
    /\ Owns(r, h)' => Owns(r, h) /\ SameAsk(r)
    /\ Keeps(r, h)' =>
          /\ Keeps(r, h) /\ SameAsk(r)
          /\ Answered(r)' => Answered(r) \/ (Exists(h) /\ SameAccount(r, h))
    /\ pc'[r] = "update" /\ cand'[r] = h => (pc[r] = "update" /\ cand[r] = h) \/ Claimable(h)

NamedLess(h) == \A k \in Key : Names(k, h)' => Names(k, h)

\* Whoever does not move holds what it held.
LEMMA OthersHold ==
    ASSUME NEW r \in Caller, Alone(r), NEW h \in Host, NEW s \in Request, s # r
    PROVE  /\ HoldsLess(s, h) /\ SameAsk(s)
           /\ Owns(s, h)' <=> Owns(s, h)
           /\ Keeps(s, h)' <=> Keeps(s, h)
           /\ Answered(s)' <=> Answered(s)
           /\ pc'[s] = pc[s] /\ cand'[s] = cand[s] /\ seen'[s] = seen[s]
<1>1. pc'[s] = pc[s] /\ req'[s] = req[s] /\ own'[s] = own[s] /\ cand'[s] = cand[s] /\ seen'[s] = seen[s]
  BY DEF Alone, Caller
<1> QED BY <1>1 DEF HoldsLess, Owns, Keeps, SameAsk, Answered

\* What is taken stays so, and whoever claims, claims a host of the pool.
LEMMA KeptRows ==
    ASSUME NEW h \in Host, Kept(h)
    PROVE  /\ Taken(h) => Taken(h)'
           /\ Exists(h)' => Exists(h) /\ host'[h].account = host[h].account
           /\ (host[h].status # "unborn" /\ (Exists(h) => host[h].pool))
                => (host'[h].status # "unborn" /\ (Exists(h)' => host'[h].pool))
           /\ Claimable(h) => host[h].status # "unborn" /\ (Exists(h) => host[h].pool)
BY DEF Kept, Taken, Exists, Claimable

\* Whoever holds less of a host that stays what it is breaks no promise about it.
LEMMA HandsKept ==
    ASSUME NEW h \in Host, HandAt(h), Kept(h), \A s \in Request : HoldsLess(s, h), NamedLess(h)
    PROVE  HandAt(h)'
<1>1. HeldIsTaken(h)'
  BY KeptRows DEF HandAt, HeldIsTaken, HoldsLess, NamedLess
<1>2. PickedIsWarm(h)'
  <2> SUFFICES ASSUME NEW r \in Request, pc'[r] = "update", cand'[r] = h
               PROVE  host'[h].status # "unborn" /\ (Exists(h)' => host'[h].pool)
    BY DEF PickedIsWarm
  <2>1. (pc[r] = "update" /\ cand[r] = h) \/ Claimable(h)
    BY DEF HoldsLess
  <2> QED BY <2>1, KeptRows DEF HandAt, PickedIsWarm
<1>3. OwnedAlone(h)'
  BY DEF HandAt, OwnedAlone, HoldsLess, NamedLess
<1>4. HeldByAccount(h)'
  <2> SUFFICES ASSUME NEW r \in Request, Exists(h)', Owns(r, h)' \/ (Keeps(r, h)' /\ Answered(r)')
               PROVE  host'[h].account = req'[r].account
    BY DEF HeldByAccount, SameAccount
  <2>1. Exists(h) /\ host'[h].account = host[h].account
    BY KeptRows
  <2>2. SameAsk(r) /\ SameAccount(r, h)
    BY <2>1 DEF HandAt, HeldByAccount, HoldsLess
  <2> QED BY <2>1, <2>2 DEF SameAsk, SameAccount
<1>5. SharedByKey(h)'
  <2>1. ASSUME NEW r \in Request, NEW s \in Request, Keeps(r, h)', Keeps(s, h)', r # s
        PROVE  req'[r].key = req'[s].key /\ req'[r].key # NoKey
    BY <2>1 DEF HandAt, SharedByKey, HoldsLess, SameAsk
  <2>2. ASSUME NEW r \in Request, NEW k \in Key, Keeps(r, h)', Names(k, h)'
        PROVE  req'[r].key = k
    BY <2>2 DEF HandAt, SharedByKey, HoldsLess, SameAsk, NamedLess
  <2>3. ASSUME NEW j \in Key, NEW k \in Key, Names(j, h)', Names(k, h)'
        PROVE  j = k
    BY <2>3 DEF HandAt, SharedByKey, NamedLess
  <2>4. ASSUME NEW r \in Request, NEW s \in Request, Keeps(r, h)', Keeps(s, h)',
               Answered(r)', Answered(s)'
        PROVE  req'[r].account = req'[s].account
    <3>1. Keeps(r, h) /\ Keeps(s, h) /\ SameAsk(r) /\ SameAsk(s)
      BY <2>4 DEF HoldsLess
    <3>2. Answered(r) \/ (Exists(h) /\ SameAccount(r, h))
      BY <2>4 DEF HoldsLess
    <3>3. Answered(s) \/ (Exists(h) /\ SameAccount(s, h))
      BY <2>4 DEF HoldsLess
    <3>4. req[r].account = req[s].account
      BY <3>1, <3>2, <3>3 DEF HandAt, HeldByAccount, SharedByKey, SameAccount
    <3> QED BY <3>1, <3>4 DEF SameAsk
  <2> QED BY <2>1, <2>2, <2>3, <2>4 DEF SharedByKey
<1> QED BY <1>1, <1>2, <1>3, <1>4, <1>5 DEF HandAt

\* A step of r that gives it no host, changes no row's owner and records no key.
LEMMA StepHands ==
    ASSUME HandInv, NEW r \in Caller, Alone(r), NEW h \in Host, r \in Request => HoldsLess(r, h),
           Kept(h), NamedLess(h)
    PROVE  HandAt(h)'
<1>1. \A s \in Request : HoldsLess(s, h)
  BY OthersHold
<1> QED BY <1>1, HandsKept DEF HandInv

\* Untouched keys name what they named.
LEMMA NamesKept == UNCHANGED keys => \A h \in Host : NamedLess(h)
BY DEF Names, NamedLess

\* Whoever is on its way to a host, or has lost it, holds none.
LEMMA Empty ==
    ASSUME NEW r \in Caller, NEW h \in Host, pc'[r] \notin Owning \cup {"read", "answered",
           "update"}
    PROVE  HoldsLess(r, h)
BY DEF HoldsLess, Owns, Keeps

\* A request that ends gives up what it held.
LEMMA EndsHolds ==
    ASSUME BaseInv, NEW r \in Caller, Ends(r), NEW h \in Host
    PROVE  HoldsLess(r, h)
<1>1. pc'[r] = "ended"
  BY EndsValue DEF BaseInv
<1> QED BY <1>1, Empty DEF Owning

\* A request that goes on holds what it held.
LEMMA GoesOnHolds ==
    ASSUME BaseInv, NEW r \in Caller, NEW to \in Pc \ {"read", "answered", "update"}, GoesOn(r,
           to),
           to \in Owning => pc[r] \in Owning, NEW h \in Host
    PROVE  HoldsLess(r, h)
<1>1. pc'[r] = to /\ UNCHANGED <<req, own>>
  BY GoesOnValue DEF BaseInv
<1> QED BY <1>1 DEF HoldsLess, Owns, Keeps, SameAsk, Owning

\* Untouched rows stay what they are.
LEMMA SameRowsKept == UNCHANGED host => \A h \in Host : Kept(h)
BY DEF Kept, Exists

\* So do the rows of a step that only changes leases and statuses.
LEMMA QuietKept == Quiet => \A h \in Host : Kept(h)
BY DEF Quiet

\* The steps that look for a host and hold none yet, or lose the one they had.
LEMMA PlainHands ==
    ASSUME BaseInv, HandInv, NEW r \in Caller,
           \/ \E a \in Account, k \in Key \cup {NoKey}, plain \in BOOLEAN : Arrive(r, a, k, plain)
           \/ Admit(r) \/ SelectWarm(r) \/ Check(r) \/ TopUp(r) \/ Die(r) \/ Collect(r) \/ ReadHost(r)
    PROVE  HandInv'
<1>1. CASE \E a \in Account, k \in Key \cup {NoKey}, plain \in BOOLEAN : Arrive(r, a, k, plain)
  <2>1. Alone(r) /\ pc'[r] \in {"admit", "lookup"} /\ UNCHANGED <<host, keys>>
    BY <1>1, ArriveBase DEF Arrive
  <2>2. \A h \in Host : HoldsLess(r, h)
    BY <2>1, Empty DEF Owning
  <2> QED BY <2>1, <2>2, StepHands, SameRowsKept, NamesKept DEF HandInv
<1>2. CASE Admit(r)
  <2>1. Alone(r) /\ pc'[r] \in {"claim", "check", "ended"} /\ UNCHANGED <<host, keys>>
    BY <1>2, AdmitBase DEF Admit, Untouched
  <2>2. \A h \in Host : HoldsLess(r, h)
    BY <2>1, Empty DEF Owning
  <2> QED BY <2>1, <2>2, StepHands, SameRowsKept, NamesKept DEF HandInv
<1>3. CASE SelectWarm(r)
  <2>1. Alone(r) /\ pc'[r] \in {"update", "check"} /\ UNCHANGED <<host, keys>>
        /\ (pc'[r] = "update" => Claimable(cand'[r]))
    BY <1>3, SelectWarmBase DEF SelectWarm, Untouched
  <2>2. \A h \in Host : HoldsLess(r, h)
    BY <2>1 DEF HoldsLess, Owns, Keeps, Owning
  <2> QED BY <2>1, <2>2, StepHands, SameRowsKept, NamesKept DEF HandInv
<1>4. CASE Check(r)
  <2>1. Alone(r) /\ pc'[r] \in {"insert", "ended"} /\ UNCHANGED <<host, keys>>
    BY <1>4, CheckBase DEF Check, Untouched
  <2>2. \A h \in Host : HoldsLess(r, h)
    BY <2>1, Empty DEF Owning
  <2> QED BY <2>1, <2>2, StepHands, SameRowsKept, NamesKept DEF HandInv
<1>5. CASE TopUp(r) \/ Die(r)
  <2>1. Alone(r) /\ pc'[r] \in {"check", "ended"} /\ UNCHANGED <<host, keys>>
    BY <1>5, TopUpBase, DieBase DEF TopUp, Die, Untouched
  <2>2. \A h \in Host : HoldsLess(r, h)
    BY <2>1, Empty DEF Owning
  <2> QED BY <2>1, <2>2, StepHands, SameRowsKept, NamesKept DEF HandInv
<1>6. CASE Collect(r)
  <2>1. Alone(r) /\ pc'[r] \in {"admit", "ended"} /\ UNCHANGED host
    BY <1>6, CollectBase DEF Collect
  <2>2. \A h \in Host : HoldsLess(r, h)
    BY <2>1, Empty DEF Owning
  <2>3. \A k \in Key : keys'[k] = keys[k] \/ keys'[k] = NoRecord
    BY <1>6 DEF Collect, BaseInv, TypeOK
  <2>4. \A h \in Host : NamedLess(h)
    BY <2>3, LimitsAssumption DEF NamedLess, Names, NoRecord, NoHost, Host
  <2> QED BY <2>1, <2>2, <2>4, StepHands, SameRowsKept DEF HandInv
<1>7. CASE ReadHost(r)
  <2>1. Alone(r) /\ pc'[r] \in {"answered", "collect", "ended"} /\ UNCHANGED <<host, keys>>
        /\ pc[r] = "read" /\ seen[r] \in [host: Host \cup {NoHost}, epoch: Nat]
    BY <1>7, ReadHostBase DEF ReadHost, Untouched, BaseInv, TypeOK
  <2>2. \A h \in Host : HoldsLess(r, h)
    <3>1. CASE pc'[r] # "answered"
      BY <2>1, <3>1 DEF HoldsLess, Owns, Keeps, Owning
    <3>2. CASE pc'[r] = "answered"
      <4>1. Answer(r, seen[r]) /\ Exists(seen[r].host) /\ SameAccount(r, seen[r].host)
        BY <1>7, <3>2 DEF ReadHost, Ends, GoesOn, Goto, BaseInv, TypeOK
      <4>2. SameAsk(r) /\ seen'[r] = seen[r]
        BY <2>1, <4>1, AnswerValue DEF BaseInv
      <4> QED BY <2>1, <3>2, <4>1, <4>2 DEF HoldsLess, Owns, Keeps, Owning
    <3> QED BY <3>1, <3>2
  <2> QED BY <2>1, <2>2, StepHands, SameRowsKept, NamesKept DEF HandInv
<1> QED BY <1>1, <1>2, <1>3, <1>4, <1>5, <1>6, <1>7

\* Provisioning keeps the request's own host, or loses it.
LEMMA ProvisionHands ==
    ASSUME BaseInv, HandInv, NEW r \in Caller, Provision(r) \/ Stamp(r)
    PROVE  HandInv'
<1>1. pc[r] \in Owning /\ own[r] \in Host /\ UNCHANGED keys
  BY DEF Provision, Stamp, Untouched, BaseInv, Equipped, Owning
<1>2. Alone(r) /\ Quiet
  BY <1>1, ProvisionRows, StampRows, ProvisionBase, StampBase DEF BaseInv
<1>3. \A h \in Host : HoldsLess(r, h)
  <2>1. CASE Ends(r)
    BY <2>1, EndsHolds
  <2>2. CASE \E to \in {"provision", "stamp", "record"} : GoesOn(r, to)
    BY <1>1, <2>2, GoesOnHolds DEF Pc
  <2> QED BY <2>1, <2>2 DEF Provision, Stamp
<1> QED BY <1>1, <1>2, <1>3, StepHands, QuietKept, NamesKept DEF HandInv

\* Reading the key's record gives a request the host that the key names
\* (_lookup_idempotency_key).
LEMMA LookUpHands ==
    ASSUME BaseInv, HandInv, NEW r \in Caller, LookUp(r)
    PROVE  HandInv'
<1>1. /\ Alone(r) /\ UNCHANGED <<host, keys>> /\ r \in Request /\ req[r].key \in Key
      /\ pc'[r] \in {"read", "admit", "collect", "ended"}
  BY LookUpBase DEF LookUp, Untouched, BaseInv, Equipped
<1>2. CASE pc'[r] # "read"
  <2>1. \A h \in Host : HoldsLess(r, h)
    BY <1>1, <1>2, Empty DEF Owning
  <2> QED BY <1>1, <2>1, StepHands, SameRowsKept, NamesKept DEF HandInv
<1>3. CASE pc'[r] = "read"
  <2>1. keys[req[r].key].fresh /\ seen' = [seen EXCEPT ![r] =
            [host |-> keys[req[r].key].host, epoch |-> epoch[req[r].key]]] /\ UNCHANGED req
    BY <1>3 DEF LookUp, Unknown, GoesOn, Ends, Goto, BaseInv, TypeOK
  <2>2. PICK n \in Host : n = keys[req[r].key].host
    BY <1>1, <2>1 DEF BaseInv, KeysInv
  <2>3. seen'[r].host = n
    BY <2>1, <2>2 DEF BaseInv, TypeOK
  <2>4. ASSUME NEW h \in Host, h # n PROVE HandAt(h)'
    <3>1. HoldsLess(r, h)
      BY <1>3, <2>3, <2>4 DEF HoldsLess, Owns, Keeps, Owning
    <3> QED BY <1>1, <3>1, StepHands, SameRowsKept, NamesKept
  <2>5. HandAt(n) /\ Names(req[r].key, n)
    BY <2>2 DEF HandInv, Names
  <2>6. \A s \in Request : ~Owns(s, n)
    BY <1>1, <2>5 DEF HandAt, OwnedAlone
  <2>7. \A s \in Request \ {r} : /\ Keeps(s, n)' <=> Keeps(s, n)
                                 /\ Owns(s, n)' <=> Owns(s, n)
                                 /\ Answered(s)' <=> Answered(s)
                                 /\ pc'[s] = pc[s] /\ cand'[s] = cand[s]
    BY <1>1, OthersHold
  <2>8. ~Owns(r, n)' /\ ~Answered(r)'
    BY <1>3 DEF Owns, Owning, Answered
  <2>9. Taken(n)' /\ (Exists(n)' <=> Exists(n)) /\ \A k \in Key : Names(k, n)' <=> Names(k, n)
    BY <1>1, <2>5 DEF HandAt, HeldIsTaken, Taken, Exists, Names
  <2>10. HeldIsTaken(n)'
    BY <2>9 DEF HeldIsTaken
  <2>11. PickedIsWarm(n)'
    BY <1>1, <1>3, <2>5, <2>7 DEF HandAt, PickedIsWarm, Exists
  <2>12. OwnedAlone(n)' /\ HeldByAccount(n)'
    BY <1>1, <2>1, <2>5, <2>6, <2>7, <2>8, <2>9
       DEF OwnedAlone, HeldByAccount, HandAt, SameAccount
  <2>13. SharedByKey(n)'
    <3>1. req[r].key # NoKey
      BY <1>1, NamesAssumption
    <3>2. \A s \in Request : Keeps(s, n) => req[s].key = req[r].key
      BY <1>1, <2>5 DEF HandAt, SharedByKey
    <3>3. \A k \in Key : Names(k, n) => k = req[r].key
      BY <1>1, <2>5 DEF HandAt, SharedByKey
    <3> QED BY <2>1, <2>5, <2>7, <2>8, <2>9, <3>1, <3>2, <3>3 DEF SharedByKey, HandAt
  <2>14. HandAt(n)'
    BY <2>10, <2>11, <2>12, <2>13 DEF HandAt
  <2> QED BY <2>4, <2>14 DEF HandInv
<1> QED BY <1>2, <1>3

\* Recording the key hands the request's own host over to its answer
\* (_record_idempotency_key).
LEMMA RecordHands ==
    ASSUME BaseInv, HandInv, NEW r \in Caller, Record(r)
    PROVE  HandInv'
<1>1. /\ Alone(r) /\ UNCHANGED host /\ pc[r] = "record" /\ own[r] \in Host
      /\ pc'[r] \in {"answered", "release"}
  BY RecordBase DEF Record, BaseInv, Equipped
<1>2. CASE pc'[r] = "release"
  <2>1. GoesOn(r, "release") /\ UNCHANGED keys
    BY <1>2 DEF Record, Answer, Goto, BaseInv, TypeOK
  <2>2. \A h \in Host : HoldsLess(r, h)
    BY <1>1, <2>1, GoesOnHolds DEF Pc, Owning
  <2> QED BY <1>1, <2>1, <2>2, StepHands, SameRowsKept, NamesKept DEF HandInv
<1>3. CASE pc'[r] = "answered"
  <2>1. PICK n \in Host : n = own[r]
    BY <1>1
  <2>2. /\ \/ req[r].key = NoKey /\ UNCHANGED keys
           \/ req[r].key # NoKey /\ keys' = [keys EXCEPT ![req[r].key] = [host |-> n, fresh |-> TRUE]]
        /\ \E e \in Nat : Answer(r, [host |-> n, epoch |-> e])
    <3>1. req[r].key # NoKey => epoch[req[r].key] \in Nat
      BY DEF BaseInv, TypeOK, Ask
    <3> QED BY <1>3, <2>1, <3>1 DEF Record, GoesOn, Goto, BaseInv, TypeOK
  <2>3. PICK e \in Nat : Answer(r, [host |-> n, epoch |-> e])
    BY <2>2
  <2>4. [host |-> n, epoch |-> e] \in [host: Host \cup {NoHost}, epoch: Nat]
    BY <2>3
  <2>5. SameAsk(r) /\ own'[r] = NoHost /\ seen'[r] = [host |-> n, epoch |-> e]
    BY <2>3, <2>4, AnswerValue DEF BaseInv
  <2>6. seen'[r].host = n
    BY <2>5
  <2>7. \A k \in Key : keys'[k] = keys[k] \/ (k = req[r].key /\ keys'[k].host = n)
    BY <2>2 DEF BaseInv, TypeOK
  <2>8. ASSUME NEW h \in Host, h # n PROVE HandAt(h)'
    <3>1. HoldsLess(r, h)
      BY <1>3, <2>6, <2>8 DEF HoldsLess, Owns, Keeps, Owning
    <3>2. NamedLess(h)
      BY <2>7, <2>8 DEF NamedLess, Names
    <3> QED BY <1>1, <3>1, <3>2, StepHands, SameRowsKept
  <2>9. HandAt(n)'
    <3>1. HandAt(n)
      BY DEF HandInv
    <3>2. CASE r \notin Request
      <4>1. req[r].key = NoKey /\ UNCHANGED keys
        BY <2>2, <3>2 DEF BaseInv, Equipped, Caller
      <4> QED BY <1>1, <3>2, <4>1, StepHands, SameRowsKept, NamesKept
    <3>3. CASE r \in Request
      <4>1. Owns(r, n)
        BY <1>1, <2>1 DEF Owns, Owning
      <4>2. /\ \A s \in Request : ~Keeps(s, n) /\ (Owns(s, n) => s = r)
            /\ \A k \in Key : ~Names(k, n)
            /\ Taken(n) /\ (Exists(n) => SameAccount(r, n))
        BY <3>1, <3>3, <4>1 DEF HandAt, OwnedAlone, HeldIsTaken, HeldByAccount
      <4>3. \A s \in Request \ {r} : ~Keeps(s, n)' /\ ~Owns(s, n)' /\ pc'[s] = pc[s] /\ cand'[s] = cand[s]
        BY <1>1, <4>2, OthersHold
      <4>4. ~Owns(r, n)' /\ Keeps(r, n)' /\ pc'[r] # "update"
        BY <1>3, <2>6 DEF Owns, Keeps, Owning
      <4>5. \A k \in Key : Names(k, n)' => k = req[r].key
        BY <2>7, <4>2 DEF Names
      <4>6. Taken(n)' /\ (Exists(n)' => SameAccount(r, n)')
        BY <1>1, <2>5, <4>2 DEF Taken, Exists, SameAccount, SameAsk
      <4>7. HeldIsTaken(n)' /\ OwnedAlone(n)' /\ HeldByAccount(n)'
        BY <4>3, <4>4, <4>6 DEF HeldIsTaken, OwnedAlone, HeldByAccount
      <4>8. PickedIsWarm(n)'
        BY <1>1, <3>1, <4>3, <4>4 DEF HandAt, PickedIsWarm, Exists
      <4>9. SharedByKey(n)'
        BY <2>5, <4>3, <4>4, <4>5 DEF SharedByKey, SameAsk
      <4> QED BY <4>7, <4>8, <4>9 DEF HandAt
    <3> QED BY <3>2, <3>3
  <2> QED BY <2>8, <2>9 DEF HandInv
<1> QED BY <1>1, <1>2, <1>3

\* The loser of a race gives its host back, which nobody else holds
\* (_release_idempotency_loser).
LEMMA ReleaseHands ==
    ASSUME BaseInv, HandInv, NEW r \in Caller, Release(r)
    PROVE  HandInv'
<1>1. /\ Alone(r) /\ pc'[r] = "lookup" /\ pc[r] = "release" /\ own[r] \in Host
      /\ r \in Request /\ UNCHANGED keys
  BY ReleaseBase, NamesAssumption DEF Release, BaseInv, Equipped, Caller
<1>2. PICK n \in Host : n = own[r]
  BY <1>1
<1>3. /\ \A g \in Host \ {n} : Kept(g)
      /\ \/ Kept(n)
         \/ /\ host'[n].status = host[n].status /\ Exists(n)
            /\ host'[n].pool = host[n].pool
  BY <1>2, ReleaseRows DEF BaseInv
<1>4. \A h \in Host : HoldsLess(r, h)
  BY <1>1, Empty DEF Owning
<1>5. \A h \in Host : Kept(h) => HandAt(h)'
  BY <1>1, <1>4, StepHands, NamesKept
<1>6. ASSUME ~Kept(n) PROVE HandAt(n)'
  <2>1. HandAt(n) /\ Owns(r, n)
    BY <1>1, <1>2 DEF HandInv, Owns, Owning
  <2>2. (\A s \in Request \ {r} : ~Keeps(s, n) /\ ~Owns(s, n)) /\ \A k \in Key : ~Names(k, n)
    BY <1>1, <2>1 DEF HandAt, OwnedAlone
  <2>3. (\A s \in Request \ {r} : ~Keeps(s, n)' /\ ~Owns(s, n)' /\ pc'[s] = pc[s] /\ cand'[s] = cand[s])
        /\ \A k \in Key : ~Names(k, n)'
    BY <1>1, <2>2, OthersHold DEF Names
  <2>4. ~Keeps(r, n)' /\ ~Owns(r, n)' /\ pc'[r] # "update"
    BY <1>1 DEF Keeps, Owns, Owning
  <2>5. PickedIsWarm(n)'
    BY <1>3, <1>6, <2>1, <2>3, <2>4 DEF HandAt, PickedIsWarm, Exists
  <2>6. \A s \in Request : ~Keeps(s, n)' /\ ~Owns(s, n)'
    BY <2>3, <2>4
  <2> QED BY <2>3, <2>5, <2>6 DEF HandAt, HeldIsTaken, OwnedAlone, HeldByAccount, SharedByKey
<1> QED BY <1>3, <1>5, <1>6 DEF HandInv

\* A claim that wins takes a host that is not taken (the WHERE on claimed_at).
LEMMA ClaimWarmHands ==
    ASSUME BaseInv, HandInv, NEW r \in Caller, ClaimWarm(r)
    PROVE  HandInv'
<1>1. /\ Alone(r) /\ pc[r] = "update" /\ cand[r] \in Host /\ r \in Request /\ UNCHANGED keys
  BY ClaimWarmBase DEF ClaimWarm, BaseInv, Equipped
<1>2. CASE ~StillUnclaimed(cand[r])
  <2>1. GoesOn(r, "check") /\ UNCHANGED host
    BY <1>2 DEF ClaimWarm
  <2>2. \A h \in Host : HoldsLess(r, h)
    BY <2>1, GoesOnHolds DEF Pc, Owning
  <2> QED BY <1>1, <2>1, <2>2, StepHands, SameRowsKept, NamesKept DEF HandInv
<1>3. CASE StillUnclaimed(cand[r])
  <2>1. PICK n \in Host : n = cand[r]
    BY <1>1
  <2>2. /\ \A g \in Host \ {n} : host'[g] = host[g]
        /\ host'[n].status = host[n].status /\ host'[n].account = req[r].account
        /\ host'[n].pool = host[n].pool /\ host'[n].claimed
    BY <1>3, <2>1, ClaimRows DEF BaseInv
  <2>3. pc'[r] = "record" /\ own'[r] = n /\ UNCHANGED req
    BY <1>3, <2>1 DEF ClaimWarm, Goto, BaseInv, TypeOK
  <2>4. ASSUME NEW h \in Host, h # n PROVE HandAt(h)'
    <3>1. HoldsLess(r, h)
      BY <2>3, <2>4 DEF HoldsLess, Owns, Keeps, Owning
    <3>2. Kept(h)
      BY <2>2, <2>4 DEF Kept, Exists
    <3> QED BY <1>1, <3>1, <3>2, StepHands, NamesKept
  <2>5. HandAt(n) /\ Exists(n) /\ ~host[n].claimed
    BY <1>3, <2>1 DEF HandInv, StillUnclaimed
  <2>6. ~Taken(n)
    BY <1>1, <2>1, <2>5 DEF HandAt, PickedIsWarm, Taken, Exists
  <2>7. (\A s \in Request : ~Keeps(s, n) /\ ~Owns(s, n)) /\ \A k \in Key : ~Names(k, n)
    BY <2>5, <2>6 DEF HandAt, HeldIsTaken
  <2>8. (\A s \in Request \ {r} : ~Keeps(s, n)' /\ ~Owns(s, n)' /\ pc'[s] = pc[s] /\ cand'[s] = cand[s])
        /\ \A k \in Key : ~Names(k, n)'
    BY <1>1, <2>7, OthersHold DEF Names
  <2>9. Owns(r, n)' /\ ~Keeps(r, n)' /\ pc'[r] # "update"
    BY <2>3 DEF Owns, Owning, Keeps
  <2>10. Taken(n)' /\ SameAccount(r, n)'
    BY <2>2, <2>3, <2>5 DEF Taken, Exists, SameAccount
  <2>11. HeldIsTaken(n)' /\ OwnedAlone(n)' /\ HeldByAccount(n)' /\ SharedByKey(n)'
    BY <2>8, <2>9, <2>10 DEF HeldIsTaken, OwnedAlone, HeldByAccount, SharedByKey
  <2>12. PickedIsWarm(n)'
    BY <2>2, <2>5, <2>8, <2>9 DEF HandAt, PickedIsWarm, Exists
  <2>13. HandAt(n)'
    BY <2>11, <2>12 DEF HandAt
  <2> QED BY <2>4, <2>13 DEF HandInv
<1> QED BY <1>2, <1>3

\* A new row is nobody's but the request's that inserted it (create_host).
LEMMA InsertHands ==
    ASSUME BaseInv, HandInv, NEW r \in Caller, Insert(r)
    PROVE  HandInv'
<1>1. Alone(r) /\ pc'[r] = "provision" /\ UNCHANGED <<keys, req>>
  BY InsertBase DEF Insert
<1>2. PICK n \in Host :
        /\ host[n].status = "unborn" /\ host'[n].status = "preparing"
        /\ host'[n].account = req[r].account /\ host'[n].pool = (r \in Filler)
        /\ \A g \in Host \ {n} : host'[g] = host[g]
        /\ own' = [own EXCEPT ![r] = n]
  BY InsertRows DEF BaseInv
<1>3. own'[r] = n
  BY <1>2 DEF BaseInv, TypeOK
<1>4. ASSUME NEW h \in Host, h # n PROVE HandAt(h)'
  <2>1. HoldsLess(r, h)
    BY <1>1, <1>3, <1>4 DEF HoldsLess, Owns, Keeps, Owning
  <2>2. Kept(h)
    BY <1>2, <1>4 DEF Kept, Exists
  <2> QED BY <1>1, <2>1, <2>2, StepHands, NamesKept
<1>5. HandAt(n) /\ ~Taken(n)
  BY <1>2 DEF HandInv, Taken, Exists
<1>6. /\ \A s \in Request : ~Keeps(s, n) /\ ~Owns(s, n) /\ ~(pc[s] = "update" /\ cand[s] = n)
      /\ \A k \in Key : ~Names(k, n)
  BY <1>2, <1>5 DEF HandAt, HeldIsTaken, PickedIsWarm
<1>7. /\ \A s \in Request \ {r} : ~Keeps(s, n)' /\ ~Owns(s, n)' /\ ~(pc'[s] = "update" /\ cand'[s] = n)
      /\ \A k \in Key : ~Names(k, n)'
  BY <1>1, <1>6, OthersHold DEF Names
<1>8. ~Keeps(r, n)' /\ ~Answered(r)' /\ pc'[r] # "update"
  BY <1>1 DEF Keeps, Answered
<1>9. r \in Request => Taken(n)' /\ SameAccount(r, n)'
  BY <1>1, <1>2, NamesAssumption DEF Taken, Exists, SameAccount
<1>10. HeldIsTaken(n)' /\ OwnedAlone(n)' /\ HeldByAccount(n)' /\ SharedByKey(n)'
  BY <1>7, <1>8, <1>9 DEF HeldIsTaken, OwnedAlone, HeldByAccount, SharedByKey
<1>11. PickedIsWarm(n)'
  BY <1>7, <1>8 DEF PickedIsWarm
<1>12. HandAt(n)'
  BY <1>10, <1>11 DEF HandAt
<1> QED BY <1>4, <1>12 DEF HandInv

\* Nobody comes to hold a host while a lease ends, a host goes or a key expires.
LEMMA OutsideHands ==
    ASSUME HandInv, UNCHANGED <<req, pc, own, cand, seen>>,
           \A h \in Host : Kept(h) /\ NamedLess(h)
    PROVE  HandInv'
<1>1. \A h \in Host, s \in Request : HoldsLess(s, h)
  BY DEF HoldsLess, Owns, Keeps, Answered, SameAsk
<1> QED BY <1>1, HandsKept DEF HandInv

\* delete_host takes the host's keys along, and a key that expires names what it named.
LEMMA NextHands ==
    ASSUME BaseInv, HandInv, [Next]_vars
    PROVE  HandInv'
<1>1. ASSUME NEW r \in Caller, Step(r) PROVE HandInv'
  BY <1>1, PlainHands, ProvisionHands, LookUpHands, RecordHands, ReleaseHands, ClaimWarmHands,
     InsertHands DEF Step, Advance
<1>2. ASSUME NEW h \in Host, World(h) PROVE HandInv'
  <2>1. UNCHANGED <<req, pc, own, cand, seen>>
    BY <1>2 DEF World, Lapse, Renew, Remove, Outside
  <2>2. Quiet
    BY <1>2, LapseRows, RenewRows, RemoveRows DEF World, BaseInv
  <2>3. \A k \in Key : keys'[k] = keys[k] \/ keys'[k] = NoRecord
    BY <1>2 DEF World, Lapse, Renew, Remove, BaseInv, TypeOK
  <2>4. \A g \in Host : NamedLess(g)
    BY <2>3, LimitsAssumption DEF NamedLess, Names, NoRecord, NoHost, Host
  <2> QED BY <2>1, <2>2, <2>4, QuietKept, OutsideHands
<1>3. ASSUME NEW k \in Key, ExpireKey(k) PROVE HandInv'
  <2>1. UNCHANGED <<host, req, pc, own, cand, seen>> /\ keys' = [keys EXCEPT ![k].fresh = FALSE]
    BY <1>3 DEF ExpireKey, Outside
  <2>2. \A j \in Key : keys'[j].host = keys[j].host
    BY <2>1 DEF BaseInv, TypeOK, KeyRow
  <2>3. \A g \in Host : NamedLess(g)
    BY <2>2 DEF NamedLess, Names
  <2> QED BY <2>1, <2>3, SameRowsKept, OutsideHands
<1>4. CASE UNCHANGED vars
  <2>1. UNCHANGED <<host, keys, req, pc, own, cand, seen>>
    BY <1>4 DEF vars
  <2> QED BY <2>1, SameRowsKept, NamesKept, OutsideHands
<1> QED BY <1>1, <1>2, <1>3, <1>4 DEF Next

\* To begin with nobody holds a host and no key names one.
LEMMA InitHands == Init => HandInv
<1> SUFFICES ASSUME Init, NEW h \in Host PROVE HandAt(h)
  BY DEF HandInv
<1>1. h # NoHost
  BY LimitsAssumption DEF Host, NoHost
<1>2. \A r \in Request : pc[r] = "idle" /\ ~Owns(r, h) /\ ~Keeps(r, h)
  BY DEF Init, Owns, Keeps, Owning, Caller
<1>3. \A k \in Key : ~Names(k, h)
  BY <1>1 DEF Init, Names, NoRecord
<1> QED BY <1>2, <1>3 DEF HandAt, HeldIsTaken, PickedIsWarm, OwnedAlone, HeldByAccount, SharedByKey

\* The invariant that the hand-outs rest on.
LEMMA HandsInductive == Spec => [](BaseInv /\ HandInv)
<1>1. Init => BaseInv /\ HandInv
  BY InitInv, InitHands
<1>2. BaseInv /\ HandInv /\ [Next]_vars => (BaseInv /\ HandInv)'
  BY NextBase, NextHands
<1> QED BY <1>1, <1>2, PTL DEF Spec

\* A host is handed to one caller, for every number of requests, keys and hosts: two answers
\* that name it are answers to one key of one account (the warm claim's guard on claimed_at,
\* the unique key, and the loser that gives its own host back: _claim_warm_host,
\* _record_idempotency_key and _release_idempotency_loser).
THEOREM HostsGoToOneCaller == Spec => []OneCallerPerHost
<1>1. BaseInv /\ HandInv => OneCallerPerHost
  <2> SUFFICES ASSUME BaseInv, HandInv, NEW r \in Request, NEW s \in Request,
                      Answered(r), Answered(s), r # s, seen[r].host = seen[s].host
               PROVE  req[r].key = req[s].key /\ req[r].key # NoKey /\ req[r].account = req[s].account
    BY DEF OneCallerPerHost
  <2>1. PICK h \in Host : h = seen[r].host
    BY DEF BaseInv, Equipped, Answered, Caller
  <2>2. SharedByKey(h) /\ Keeps(r, h) /\ Keeps(s, h)
    BY <2>1 DEF HandInv, HandAt, Keeps, Answered
  <2> QED BY <2>2 DEF SharedByKey
<1> QED BY <1>1, HandsInductive, PTL

-----------------------------------------------------------------------------
(* What one key answers.                                                   *)

\* A request that has read the record of k, or that k has answered.
OfKey(r, k) == pc[r] \in {"read", "answered"} /\ req[r].key = k

\* Who got his host from the record k has now, got the host that it names.
RecordTells(k) ==
    \A r \in Request : OfKey(r, k) =>
        /\ seen[r].epoch <= epoch[k]
        /\ k \notin swept /\ seen[r].epoch = epoch[k] /\ Exists(seen[r].host) =>
              keys[k].fresh /\ keys[k].host = seen[r].host

\* Within one life of the key's record its callers got one host.
SameHost(k) ==
    \A r, s \in Request :
        OfKey(r, k) /\ OfKey(s, k) /\ k \notin swept /\ seen[r].epoch = seen[s].epoch
        /\ Exists(seen[r].host) /\ Exists(seen[s].host) => seen[r].host = seen[s].host

KeyAt(k) == RecordTells(k) /\ SameHost(k)

KeyInv == \A k \in Key : KeyAt(k)

\* No host that somebody holds comes back.
NoneBack == \A h \in Host : Taken(h) /\ Exists(h)' => Exists(h)

\* r has of k only what it had.
ToldLess(r, k) == OfKey(r, k)' => OfKey(r, k) /\ seen'[r] = seen[r]

\* A fresh record stays, is swept, or goes with its host.
RecordStays(k) ==
    /\ epoch'[k] = epoch[k] /\ (k \in swept => k \in swept')
    /\ keys[k].fresh => \/ keys'[k] = keys[k] \/ k \in swept'
                       \/ \E h \in Host : keys[k].host = h /\ ~Exists(h)'

\* Whoever has a host of a key has one that is taken.
LEMMA ToldIsTaken ==
    ASSUME BaseInv, HandInv, NEW r \in Request, NEW k \in Key, OfKey(r, k)
    PROVE  seen[r].host \in Host /\ Taken(seen[r].host)
<1>1. seen[r].host \in Host
  BY DEF BaseInv, Equipped, OfKey, Caller
<1>2. PICK h \in Host : h = seen[r].host
  BY <1>1
<1>3. Keeps(r, h)
  BY <1>2 DEF Keeps, OfKey
<1> QED BY <1>2, <1>3 DEF HandInv, HandAt, HeldIsTaken

\* What a key has told nobody new, and still says, stays true.
LEMMA KeyKept ==
    ASSUME BaseInv, HandInv, NEW k \in Key, KeyAt(k), NoneBack, RecordStays(k),
           \A r \in Request : ToldLess(r, k)
    PROVE  KeyAt(k)'
<1>1. ASSUME NEW r \in Request, OfKey(r, k)'
      PROVE  OfKey(r, k) /\ seen'[r] = seen[r] /\ (Exists(seen[r].host)' => Exists(seen[r].host))
  <2>1. OfKey(r, k) /\ seen'[r] = seen[r]
    BY <1>1 DEF ToldLess
  <2>2. PICK h \in Host : h = seen[r].host /\ Taken(h)
    BY <2>1, ToldIsTaken
  <2>3. Exists(h)' => Exists(h)
    BY <2>2 DEF NoneBack
  <2> QED BY <2>1, <2>2, <2>3
<1>2. RecordTells(k)'
  <2> SUFFICES ASSUME NEW r \in Request, OfKey(r, k)'
               PROVE  /\ seen'[r].epoch <= epoch'[k]
                      /\ k \notin swept' /\ seen'[r].epoch = epoch'[k] /\ Exists(seen[r].host)' =>
                            keys'[k].fresh /\ keys'[k].host = seen'[r].host
    BY DEF RecordTells
  <2>1. OfKey(r, k) /\ seen'[r] = seen[r] /\ (Exists(seen[r].host)' => Exists(seen[r].host))
    BY <1>1
  <2>2. seen[r].epoch <= epoch[k]
    BY <2>1 DEF KeyAt, RecordTells
  <2>3. ASSUME k \notin swept', seen'[r].epoch = epoch'[k], Exists(seen[r].host)'
        PROVE  keys'[k].fresh /\ keys'[k].host = seen'[r].host
    <3>1. keys[k].fresh /\ keys[k].host = seen[r].host
      BY <2>1, <2>3 DEF KeyAt, RecordTells, RecordStays
    <3>2. keys'[k] = keys[k]
      BY <2>1, <2>3, <3>1 DEF RecordStays
    <3> QED BY <2>1, <3>1, <3>2
  <2> QED BY <2>1, <2>2, <2>3 DEF RecordStays
<1>3. SameHost(k)'
  <2> SUFFICES ASSUME NEW r \in Request, NEW s \in Request, OfKey(r, k)', OfKey(s, k)',
                      k \notin swept', seen'[r].epoch = seen'[s].epoch,
                      Exists(seen[r].host)', Exists(seen[s].host)'
               PROVE  seen'[r].host = seen'[s].host
    BY DEF SameHost
  <2>1. OfKey(r, k) /\ seen'[r] = seen[r] /\ Exists(seen[r].host)
    BY <1>1
  <2>2. OfKey(s, k) /\ seen'[s] = seen[s] /\ Exists(seen[s].host)
    BY <1>1
  <2>3. k \notin swept
    BY DEF RecordStays
  <2> QED BY <2>1, <2>2, <2>3 DEF KeyAt, SameHost
<1> QED BY <1>2, <1>3 DEF KeyAt

\* Every step of a request leaves the hosts that somebody holds as gone as they were.
LEMMA NextNoneBack ==
    ASSUME BaseInv, [Next]_vars
    PROVE  NoneBack
<1>1. ASSUME NEW r \in Caller, Step(r) PROVE NoneBack
  <2>1. CASE UNCHANGED host
    BY <2>1 DEF NoneBack, Exists
  <2>2. CASE Provision(r) \/ Stamp(r)
    <3>1. own[r] \in Host
      BY <2>2 DEF Provision, Stamp, BaseInv, Equipped
    <3>2. Quiet
      BY <2>2, <3>1, ProvisionRows, StampRows DEF BaseInv
    <3> QED BY <3>2, QuietKept DEF Kept, NoneBack
  <2>3. CASE Release(r)
    <3>1. PICK n \in Host : n = own[r]
      BY <2>3 DEF Release, BaseInv, Equipped
    <3>2. /\ \A g \in Host \ {n} : Kept(g)
          /\ Kept(n) \/ (host'[n].status = host[n].status /\ Exists(n))
      BY <2>3, <3>1, ReleaseRows DEF BaseInv
    <3> QED BY <3>2 DEF Kept, NoneBack
  <2>4. CASE ClaimWarm(r) /\ StillUnclaimed(cand[r])
    <3>1. PICK n \in Host : n = cand[r]
      BY <2>4 DEF ClaimWarm, BaseInv, Equipped
    <3>2. (\A g \in Host \ {n} : host'[g] = host[g]) /\ host'[n].status = host[n].status
      BY <2>4, <3>1, ClaimRows DEF BaseInv
    <3> QED BY <3>2 DEF Exists, NoneBack
  <2>5. CASE Insert(r)
    <3>1. PICK n \in Host : host[n].status = "unborn" /\ \A g \in Host \ {n} : host'[g] = host[g]
      BY <2>5, InsertRows DEF BaseInv
    <3> QED BY <3>1 DEF Exists, Taken, NoneBack
  <2> QED BY <1>1, <2>1, <2>2, <2>3, <2>4, <2>5
       DEF Step, Advance, Arrive, TopUp, LookUp, ReadHost, Collect, Record, Admit, SelectWarm,
           ClaimWarm, Check, Die
<1>2. ASSUME NEW h \in Host, World(h) PROVE NoneBack
  <2>1. Quiet
    BY <1>2, LapseRows, RenewRows, RemoveRows DEF World, BaseInv
  <2> QED BY <2>1, QuietKept DEF Kept, NoneBack
<1>3. CASE UNCHANGED host
  BY <1>3 DEF NoneBack, Exists
<1> QED BY <1>1, <1>2, <1>3 DEF Next, ExpireKey, Outside, vars

\* Whoever does not move was told nothing new.
LEMMA OthersTold ==
    ASSUME NEW r \in Caller, Alone(r), NEW k \in Key, NEW s \in Request, s # r
    PROVE  ToldLess(s, k) /\ (OfKey(s, k)' <=> OfKey(s, k)) /\ seen'[s] = seen[s]
<1>1. pc'[s] = pc[s] /\ req'[s] = req[s] /\ seen'[s] = seen[s]
  BY DEF Alone, Caller
<1> QED BY <1>1 DEF ToldLess, OfKey

\* A step that tells its request nothing new and leaves the record alone, or sweeps it.
LEMMA StepKeys ==
    ASSUME BaseInv, HandInv, NEW r \in Caller, Alone(r), NEW k \in Key, KeyAt(k), NoneBack,
           RecordStays(k), r \in Request => ToldLess(r, k)
    PROVE  KeyAt(k)'
<1>1. \A s \in Request : ToldLess(s, k)
  BY OthersTold
<1> QED BY <1>1, KeyKept

\* Untouched records stay.
LEMMA RecordsKept == UNCHANGED <<keys, epoch, swept>> => \A k \in Key : RecordStays(k)
BY DEF RecordStays

\* The steps that read no record and write none, but may sweep one.
LEMMA PlainKeys ==
    ASSUME BaseInv, HandInv, KeyInv, NoneBack, NEW r \in Caller,
           \/ \E a \in Account, k \in Key \cup {NoKey}, plain \in BOOLEAN : Arrive(r, a, k, plain)
           \/ Admit(r) \/ SelectWarm(r) \/ Check(r) \/ TopUp(r) \/ Die(r) \/ Collect(r) \/ Release(r)
           \/ ClaimWarm(r) \/ Insert(r) \/ Provision(r) \/ Stamp(r)
    PROVE  KeyInv'
<1>1. Alone(r)
  BY StepBaseInv DEF Step, Advance
<1>2. pc'[r] \notin {"read", "answered"}
  BY DEF Arrive, Admit, SelectWarm, Check, TopUp, Die, Collect, Release, ClaimWarm, Insert,
     Provision,
         Stamp, Unknown, GoesOn, Ends, Goto, BaseInv, TypeOK
<1>3. \A k \in Key : ToldLess(r, k)
  BY <1>2 DEF ToldLess, OfKey
<1>4. \A k \in Key : RecordStays(k)
  <2>1. CASE UNCHANGED <<keys, epoch, swept>>
    BY <2>1, RecordsKept
  <2>2. CASE Collect(r)
    BY <2>2 DEF Collect, RecordStays, BaseInv, TypeOK
  <2> QED BY <2>1, <2>2 DEF Arrive, Admit, SelectWarm, Check, TopUp, Die, Release, ClaimWarm, Insert,
            Provision, Stamp, Untouched
<1> QED BY <1>1, <1>3, <1>4, StepKeys DEF KeyInv

\* What the record was told of the host, the answer repeats.
LEMMA ReadHostKeys ==
    ASSUME BaseInv, HandInv, KeyInv, NoneBack, NEW r \in Caller, ReadHost(r)
    PROVE  KeyInv'
<1>1. Alone(r) /\ UNCHANGED <<keys, epoch, swept>>
  BY ReadHostBase DEF ReadHost, Untouched
<1>2. \A k \in Key : ToldLess(r, k)
  <2>1. CASE pc'[r] # "answered"
    <3>1. pc'[r] \in {"collect", "ended"}
      BY <2>1, ReadHostBase
    <3> QED BY <3>1 DEF ToldLess, OfKey
  <2>2. CASE pc'[r] = "answered"
    <3>1. Answer(r, seen[r]) /\ pc[r] = "read"
      BY <2>2 DEF ReadHost, Ends, GoesOn, Goto, BaseInv, TypeOK
    <3>2. seen[r] \in [host: Host \cup {NoHost}, epoch: Nat]
      BY DEF BaseInv, TypeOK
    <3>3. SameAsk(r) /\ seen'[r] = seen[r]
      BY <3>1, <3>2, AnswerValue DEF BaseInv
    <3> QED BY <3>1, <3>3 DEF ToldLess, OfKey, SameAsk
  <2> QED BY <2>1, <2>2
<1> QED BY <1>1, <1>2, RecordsKept, StepKeys DEF KeyInv

\* A request that reads the record is told what whoever agrees with the record was told
\* (_lookup_idempotency_key).
LEMMA LookUpKeys ==
    ASSUME BaseInv, HandInv, KeyInv, NoneBack, NEW r \in Caller, LookUp(r)
    PROVE  KeyInv'
<1>1. /\ Alone(r) /\ UNCHANGED <<keys, epoch, swept>> /\ UNCHANGED host
      /\ pc'[r] \in {"read", "admit", "collect", "ended"}
      /\ r \in Request /\ req[r].key \in Key
  BY LookUpBase DEF LookUp, Untouched, BaseInv, Equipped
<1>2. CASE pc'[r] # "read"
  <2>1. \A k \in Key : ToldLess(r, k)
    BY <1>1, <1>2 DEF ToldLess, OfKey
  <2> QED BY <1>1, <2>1, RecordsKept, StepKeys DEF KeyInv
<1>3. CASE pc'[r] = "read"
  <2>1. PICK j \in Key : j = req[r].key
    BY <1>1
  <2>2. keys[j].fresh /\ UNCHANGED req
        /\ seen' = [seen EXCEPT ![r] = [host |-> keys[j].host, epoch |-> epoch[j]]]
    BY <1>3, <2>1 DEF LookUp, Unknown, GoesOn, Ends, Goto, BaseInv, TypeOK
  <2>3. seen'[r].host = keys[j].host /\ seen'[r].epoch = epoch[j] /\ epoch[j] \in Nat
    BY <2>2 DEF BaseInv, TypeOK
  <2>4. ASSUME NEW k \in Key, k # j PROVE KeyAt(k)'
    <3>1. ToldLess(r, k)
      BY <2>1, <2>2, <2>4 DEF ToldLess, OfKey
    <3> QED BY <1>1, <3>1, RecordsKept, StepKeys DEF KeyInv
  <2>5. KeyAt(j)
    BY DEF KeyInv
  <2>6. \A s \in Request \ {r} : (OfKey(s, j)' <=> OfKey(s, j)) /\ seen'[s] = seen[s]
    BY <1>1, OthersTold
  <2>7. RecordTells(j)'
    BY <1>1, <2>2, <2>3, <2>5, <2>6 DEF KeyAt, RecordTells, Exists
  <2>8. SameHost(j)'
    <3>1. \A s \in Request \ {r} : OfKey(s, j) /\ j \notin swept /\ seen[s].epoch = epoch[j]
              /\ Exists(seen[s].host) => keys[j].host = seen[s].host
      BY <2>5 DEF KeyAt, RecordTells
    <3> QED BY <1>1, <2>3, <2>5, <2>6, <3>1 DEF KeyAt, SameHost, Exists
  <2>9. KeyAt(j)'
    BY <2>7, <2>8 DEF KeyAt
  <2> QED BY <2>4, <2>9 DEF KeyInv
<1> QED BY <1>2, <1>3

\* The key is recorded only where no record is: whoever was answered in this life of it has
\* a host that is gone (the primary key of idempotency_keys).
LEMMA RecordKeys ==
    ASSUME BaseInv, HandInv, KeyInv, NoneBack, NEW r \in Caller, Record(r)
    PROVE  KeyInv'
<1>1. Alone(r) /\ UNCHANGED <<host, epoch, swept>> /\ pc'[r] \in {"answered", "release"}
  BY RecordBase DEF Record
<1>2. CASE pc'[r] = "release"
  <2>1. UNCHANGED keys
    BY <1>2 DEF Record, Answer, Goto, BaseInv, TypeOK
  <2>2. \A k \in Key : ToldLess(r, k)
    BY <1>2 DEF ToldLess, OfKey
  <2> QED BY <1>1, <2>1, <2>2, RecordsKept, StepKeys DEF KeyInv
<1>3. CASE pc'[r] = "answered" /\ req[r].key \notin Key
  <2>1. SameAsk(r) /\ UNCHANGED keys
    <3>1. req[r].key = NoKey
      BY <1>3 DEF BaseInv, TypeOK, Ask
    <3>2. Answer(r, [host |-> own[r], epoch |-> 0]) /\ UNCHANGED keys
      BY <1>3, <3>1 DEF Record, GoesOn, Goto, BaseInv, TypeOK
    <3>3. [host |-> own[r], epoch |-> 0] \in [host: Host \cup {NoHost}, epoch: Nat]
      BY DEF BaseInv, TypeOK
    <3> QED BY <3>2, <3>3, AnswerValue DEF BaseInv
  <2>2. \A k \in Key : ToldLess(r, k)
    BY <1>3, <2>1 DEF ToldLess, OfKey, SameAsk
  <2> QED BY <1>1, <2>1, <2>2, RecordsKept, StepKeys DEF KeyInv
<1>4. CASE pc'[r] = "answered" /\ req[r].key \in Key
  <2>1. PICK j \in Key : j = req[r].key
    BY <1>4
  <2>2. PICK n \in Host : n = own[r]
    BY DEF Record, BaseInv, Equipped
  <2>3. /\ keys[j] = NoRecord /\ Answer(r, [host |-> n, epoch |-> epoch[j]])
        /\ keys' = [keys EXCEPT ![j] = [host |-> n, fresh |-> TRUE]]
    BY <1>4, <2>1, <2>2, NamesAssumption DEF Record, KeyFree, GoesOn, Goto, BaseInv, TypeOK
  <2>4. epoch[j] \in Nat
    BY DEF BaseInv, TypeOK
  <2>5. [host |-> n, epoch |-> epoch[j]] \in [host: Host \cup {NoHost}, epoch: Nat]
    BY <2>4
  <2>6. SameAsk(r) /\ seen'[r] = [host |-> n, epoch |-> epoch[j]]
    BY <2>3, <2>5, AnswerValue DEF BaseInv
  <2>7. seen'[r].host = n /\ seen'[r].epoch = epoch[j] /\ keys'[j].fresh /\ keys'[j].host = n
    BY <2>3, <2>6 DEF BaseInv, TypeOK
  <2>8. ASSUME NEW k \in Key, k # j PROVE KeyAt(k)'
    <3>1. ToldLess(r, k)
      BY <2>1, <2>6, <2>8 DEF ToldLess, OfKey, SameAsk
    <3>2. RecordStays(k)
      BY <1>1, <2>3, <2>8 DEF RecordStays, BaseInv, TypeOK
    <3> QED BY <1>1, <3>1, <3>2, StepKeys DEF KeyInv
  <2>9. KeyAt(j) /\ ~keys[j].fresh
    BY <2>3 DEF KeyInv, NoRecord
  <2>10. \A s \in Request \ {r} : (OfKey(s, j)' <=> OfKey(s, j)) /\ seen'[s] = seen[s]
    BY <1>1, OthersTold
  <2>11. \A s \in Request : OfKey(s, j) =>
             seen[s].epoch <= epoch[j] /\ (j \in swept \/ seen[s].epoch # epoch[j] \/ ~Exists(seen[s].host))
    BY <2>9 DEF KeyAt, RecordTells
  <2>12. RecordTells(j)'
    BY <1>1, <2>4, <2>7, <2>10, <2>11 DEF RecordTells, Exists
  <2>13. SameHost(j)'
    BY <1>1, <2>7, <2>9, <2>10, <2>11 DEF KeyAt, SameHost, Exists
  <2>14. KeyAt(j)'
    BY <2>12, <2>13 DEF KeyAt
  <2> QED BY <2>8, <2>14 DEF KeyInv
<1> QED BY <1>1, <1>2, <1>3, <1>4

\* The key of a host that is deleted goes with it, and a record that expires starts a new
\* life of its key, of which nobody was told yet.
LEMMA NextKeys ==
    ASSUME BaseInv, HandInv, KeyInv, [Next]_vars
    PROVE  KeyInv'
<1> NoneBack
  BY NextNoneBack
<1>1. ASSUME NEW r \in Caller, Step(r) PROVE KeyInv'
  BY <1>1, PlainKeys, ReadHostKeys, LookUpKeys, RecordKeys DEF Step, Advance
<1>2. ASSUME UNCHANGED <<req, pc, seen>> PROVE \A k \in Key, s \in Request : ToldLess(s, k)
  BY <1>2 DEF ToldLess, OfKey
<1>3. ASSUME NEW h \in Host, World(h) PROVE KeyInv'
  <2>1. UNCHANGED <<req, pc, seen, epoch, swept>>
    BY <1>3 DEF World, Lapse, Renew, Remove, Outside
  <2>2. CASE UNCHANGED keys
    BY <1>2, <2>1, <2>2, RecordsKept, KeyKept DEF KeyInv
  <2>3. CASE Remove(h)
    <3>1. ~Exists(h)'
      BY <2>3, RemoveRows DEF Exists, BaseInv
    <3>2. \A k \in Key : keys'[k] = keys[k] \/ keys[k].host = h
      BY <2>3 DEF Remove, BaseInv, TypeOK
    <3>3. \A k \in Key : RecordStays(k)
      BY <2>1, <3>1, <3>2 DEF RecordStays
    <3> QED BY <1>2, <2>1, <3>3, KeyKept DEF KeyInv
  <2> QED BY <1>3, <2>2, <2>3 DEF World, Lapse, Renew
<1>4. ASSUME NEW j \in Key, ExpireKey(j) PROVE KeyInv'
  <2>1. /\ UNCHANGED <<req, pc, seen, swept, host>>
        /\ keys' = [keys EXCEPT ![j].fresh = FALSE] /\ epoch' = [epoch EXCEPT ![j] = @ + 1]
    BY <1>4 DEF ExpireKey, Outside
  <2>2. /\ \A k \in Key \ {j} : keys'[k] = keys[k] /\ epoch'[k] = epoch[k]
        /\ epoch[j] \in Nat /\ epoch'[j] = epoch[j] + 1
    BY <2>1 DEF BaseInv, TypeOK
  <2>3. ASSUME NEW k \in Key, k # j PROVE KeyAt(k)'
    <3>1. RecordStays(k)
      BY <2>1, <2>2, <2>3 DEF RecordStays
    <3> QED BY <1>2, <2>1, <3>1, KeyKept DEF KeyInv
  <2>4. KeyAt(j) /\ \A s \in Request : seen[s].epoch \in Nat
    BY DEF KeyInv, BaseInv, TypeOK, Caller
  <2>5. RecordTells(j)'
    BY <2>1, <2>2, <2>4 DEF KeyAt, RecordTells, OfKey, Exists
  <2>6. SameHost(j)'
    BY <2>1, <2>4 DEF KeyAt, SameHost, OfKey, Exists
  <2>7. KeyAt(j)'
    BY <2>5, <2>6 DEF KeyAt
  <2> QED BY <2>3, <2>7 DEF KeyInv
<1>5. CASE UNCHANGED vars
  <2>1. UNCHANGED <<req, pc, seen, keys, epoch, swept>>
    BY <1>5 DEF vars
  <2> QED BY <1>2, <2>1, RecordsKept, KeyKept DEF KeyInv
<1> QED BY <1>1, <1>3, <1>4, <1>5 DEF Next

\* To begin with no key has answered anybody.
LEMMA InitKeys == Init => KeyInv
<1>1. Init => \A r \in Request, k \in Key : ~OfKey(r, k)
  BY DEF Init, OfKey, Caller
<1> QED BY <1>1 DEF KeyInv, KeyAt, RecordTells, SameHost

\* Requests with one key get one host within one life of its record, for every number of
\* requests, keys and hosts, unless a collection of a stale record has swept a fresh one
\* away (_lookup_idempotency_key, _record_idempotency_key, service.py:341).
THEOREM KeysGiveOneHost == Spec => []OneHostPerKey
<1>1. Init => BaseInv /\ HandInv /\ KeyInv
  BY InitInv, InitHands, InitKeys
<1>2. BaseInv /\ HandInv /\ KeyInv /\ [Next]_vars => (BaseInv /\ HandInv /\ KeyInv)'
  BY NextBase, NextHands, NextKeys
<1>3. BaseInv /\ KeyInv => OneHostPerKey
  <2> SUFFICES ASSUME BaseInv, KeyInv, NEW r \in Request, NEW s \in Request, SameKey(r, s),
                      req[r].key \notin swept
               PROVE  seen[r].host = seen[s].host
    BY DEF OneHostPerKey
  <2>1. PICK k \in Key : k = req[r].key
    BY DEF SameKey, BaseInv, TypeOK, Caller, Ask
  <2>2. SameHost(k) /\ OfKey(r, k) /\ OfKey(s, k)
    BY <2>1 DEF KeyInv, KeyAt, OfKey, SameKey, Answered
  <2> QED BY <2>1, <2>2 DEF SameHost, SameKey
<1> QED BY <1>1, <1>2, <1>3, PTL DEF Spec

=============================================================================
