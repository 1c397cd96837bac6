-------------------------- MODULE SecretsExchange --------------------------
(***************************************************************************)
(* The secrets exchange, src/secrets_exchange: one refreshable secret of   *)
(* one host.  Coroutines of one process share a RefreshableSecret, which   *)
(* an ordered refresh replaces by a new one while others still work on the *)
(* old: requests of the proxy (Secrets.current), the timer (Secrets.push), *)
(* orders (Secrets.refresh) and background fetches.  Between two awaits a  *)
(* coroutine is one step; the awaits are the reads of the hosts table and  *)
(* the fetch from the issuer.  push_secret writes a file without awaiting, *)
(* so what a fetch brought is written in the step it arrives.              *)
(*                                                                         *)
(* The issuer ends its values early by beginning a new epoch.  A value is  *)
(* fresh, then within MARGIN of its end, then over.                        *)
(*                                                                         *)
(* A definition whose comment says "Mutation" is no part of the system.    *)
(***************************************************************************)
EXTENDS Integers, FiniteSets

CONSTANTS
    Caller,       \* /authorize requests
    Order,        \* /refresh requests
    Timer,        \* the coroutine of push_on_expiry
    Record,       \* bound: RefreshableSecrets in use at once; one is also its own fetch
    MaxValues,    \* bound: fetched Secret objects known at once
    NoRecord,
    MaxEpoch      \* bound: how often the issuer ends its values

\* The fetched Secret objects, numbered in the order they came, without gaps.
Value == 1..MaxValues
NoValue == 0

Proc == Caller \cup Order \cup {Timer} \cup Record

ASSUME ExchangeAssumption ==
    /\ MaxEpoch \in Nat \ {0}
    /\ MaxValues \in Nat \ {0} /\ NoRecord \notin Record
    /\ Timer \notin Caller \cup Order \cup Record
    /\ Caller \cap Order = {} /\ Record \cap (Caller \cup Order) = {}

VARIABLES
    holds,     \* the host's provider holds the value (needs_value)
    host,      \* the host, from its row to its end
    held,      \* the value in the provider's store
    slot,      \* the entry's record in Secrets._refreshable
    rec,       \* the records
    val,       \* the fetched values
    proc,      \* where each coroutine is
    epoch,     \* the issuer's values of earlier epochs have ended
    ordered,   \* history: the newest epoch for which an order was answered 200
    late       \* history: a record that was replaced wrote to the provider last

vars == <<holds, host, held, slot, rec, val, proc, epoch, ordered, late>>
world == <<holds, host, epoch>>

Blank == [latest |-> NoValue, pushed |-> NoValue, waits |-> FALSE]
NoSecret == [epoch |-> 0, life |-> "over"]
Idle == [pc |-> "idle", rec |-> NoRecord, epoch |-> 0, floor |-> 0]

InUse == {slot} \cup {proc[x].rec : x \in Proc}
Known(records, store) ==
    ({records[r].latest : r \in Record} \cup {records[r].pushed : r \in Record} \cup {store})
        \ {NoValue}

\* A provider that asks the exchange holds nothing, and one that holds values never asks.
TypeOK ==
    /\ holds \in BOOLEAN /\ (~holds => held = NoValue)
    /\ host \in {"active", "ending", "gone"}
    /\ held \in Value \cup {NoValue}
    /\ slot \in Record \cup {NoRecord}
    /\ rec \in [Record -> [latest : Value \cup {NoValue}, pushed : Value \cup {NoValue},
                           waits : BOOLEAN]]
    /\ val \in [Value -> [epoch : 0..MaxEpoch, life : {"fresh", "stale", "over"}]]
    /\ proc \in [Proc -> [pc : {"idle", "visit", "fetch", "answered"},
                          rec : Record \cup {NoRecord}, epoch : 0..MaxEpoch,
                          floor : 0..MaxEpoch]]
    /\ epoch \in 1..MaxEpoch /\ ordered \in 0..epoch
    /\ late \in BOOLEAN

\* The process starts with nothing in memory, be it first or again, and with a host whose
\* provider has the boot value of put_secrets or whatever an earlier process left there.
Init ==
    /\ holds \in BOOLEAN /\ host \in {"active", "ending"}
    /\ held = IF holds /\ host = "active" THEN 1 ELSE NoValue
    /\ slot = NoRecord /\ rec = [r \in Record |-> Blank]
    /\ epoch \in 1..MaxEpoch
    /\ \E e \in 1..epoch, life \in {"fresh", "stale", "over"} :
          val = [v \in Value |-> IF v = held THEN [epoch |-> e, life |-> life] ELSE NoSecret]
    /\ proc = [x \in Proc |-> Idle]
    /\ ordered = 0 /\ late = FALSE

\* What nothing refers to any more is collected, and the values keep their order.
Becomes(records, values, store) ==
    LET used == InUse'
        kept == [r \in Record |-> IF r \in used THEN records[r] ELSE Blank]
        known == Known(kept, store)
        Number(v) == Cardinality({w \in known : w <= v})
    IN
    /\ rec' = [r \in Record |-> [kept[r] EXCEPT !.latest = Number(@), !.pushed = Number(@)]]
    /\ held' = Number(store)
    /\ val' = [n \in Value |-> IF n <= Cardinality(known)
                                THEN values[CHOOSE v \in known : Number(v) = n] ELSE NoSecret]

Fetch(r, floor) == [pc |-> "fetch", rec |-> r, epoch |-> epoch, floor |-> floor]

Fetches(x, r, floor) == proc' = [proc EXCEPT ![x] = Fetch(r, floor)]

Ends(x) == proc' = [proc EXCEPT ![x] = Idle]

Valid(v, values) == v # NoValue /\ values[v].life # "over"

Stale(v) == v # NoValue /\ val[v].life # "fresh"

-----------------------------------------------------------------------------
(* Records.                                                                *)

New == CHOOSE r \in Record : r \notin InUse

\* dict.setdefault
Found == IF slot = NoRecord THEN New ELSE slot

CanFind == slot # NoRecord \/ Record \ InUse # {}

\* Mutation: an order clears the record instead of replacing it.
ReplacementCleared == Found

Replacement == New

\* Mutation: the provider is given a value once.
DueOnce(r) == ~rec[r].waits /\ rec[r].pushed = NoValue

\* RefreshableSecret.is_due
Due(r) == ~rec[r].waits /\ (rec[r].pushed = NoValue \/ Stale(rec[r].pushed))

\* A value that the provider was not given.
HasAnother(r) == rec[r].latest # rec[r].pushed /\ Valid(rec[r].latest, val)

Visits == holds

\* put_secret makes the directory of the value files and delete_secrets removes it.
HasDirectory == host = "active"

\* Mutation: what is about to be written is already called pushed.
RefusedAsPushed(records, r) ==
    [records EXCEPT ![r].waits = TRUE, ![r].pushed = records[r].latest]

\* A write that fails waits like a fetch that fails.
Refused(records, r) == [records EXCEPT ![r].waits = TRUE]

Accepted(records, r) == [records EXCEPT ![r].pushed = records[r].latest]

\* The order of x is answered 200.
Fulfilled(x) ==
    ordered' = IF x \in Order /\ proc[x].floor > ordered THEN proc[x].floor ELSE ordered

\* The second half of RefreshableSecret.push, with a write that succeeds or does not.
Deliver(x, r, records, values, written) ==
    LET v == records[r].latest IN
    IF v = records[r].pushed \/ ~Valid(v, values)
    THEN UNCHANGED <<late, ordered>> /\ Becomes(records, values, held)
    ELSE IF written
    THEN /\ HasDirectory
         /\ late' = (r # slot') /\ Fulfilled(x)
         /\ Becomes(Accepted(records, r), values, v)
    ELSE UNCHANGED <<late, ordered>> /\ Becomes(Refused(records, r), values, held)

-----------------------------------------------------------------------------
(* Requests, orders and the timer.                                         *)

\* Secrets.current: serve what is valid, fetch in the background what nears its end, and
\* wait for a fetch when there is nothing to serve.
Current(c) ==
    LET r == Found
        v == rec[r].latest
    IN
    /\ c \in Caller /\ ~holds /\ host # "gone" /\ proc[c] = Idle /\ CanFind
    /\ slot' = r
    /\ IF Valid(v, val)
       THEN proc' = [proc EXCEPT ![c].pc = "answered", ![c].epoch = val[v].epoch,
                                 ![c].floor = ordered,
                                 ![r] = IF Stale(v) /\ @ = Idle /\ ~rec[r].waits
                                        THEN Fetch(r, 0) ELSE @]
       ELSE IF rec[r].waits THEN Ends(c) ELSE Fetches(c, r, ordered)
    /\ UNCHANGED <<ordered, late, world>>
    /\ Becomes(rec, val, held)

\* Secrets.refresh: a new record takes the place of the one whose value has ended.
Refresh(o) ==
    /\ o \in Order /\ host # "gone" /\ proc[o] = Idle /\ Record \ InUse # {}
    /\ slot' = Replacement /\ Fetches(o, Replacement, epoch)
    /\ UNCHANGED <<ordered, late, world>>
    /\ Becomes([rec EXCEPT ![Replacement] = Blank], val, held)

\* push_active_hosts reads the hosts table, forgets the hosts it does not find, and visits
\* the others.  For a provider that holds nothing a visit at most makes an empty record,
\* which Found makes as well.
Tick ==
    /\ proc[Timer] = Idle
    /\ IF host = "gone" THEN slot' = NoRecord /\ UNCHANGED proc
       ELSE Visits /\ proc' = [proc EXCEPT ![Timer].pc = "visit"] /\ UNCHANGED slot
    /\ UNCHANGED <<ordered, late, world>>
    /\ Becomes(rec, val, held)

\* Secrets.push and the first half of RefreshableSecret.push.
Push(written) ==
    LET r == Found IN
    /\ proc[Timer].pc = "visit" /\ CanFind
    /\ slot' = r /\ UNCHANGED world
    /\ \/ /\ ~Due(r) /\ Ends(Timer)
          /\ UNCHANGED <<late, ordered>> /\ Becomes(rec, val, held)
       \/ /\ Due(r) /\ HasAnother(r) /\ Ends(Timer)
          /\ Deliver(Timer, r, rec, val, written)
       \/ /\ Due(r) /\ ~HasAnother(r) /\ Fetches(Timer, r, 0)
          /\ UNCHANGED <<late, ordered>> /\ Becomes(rec, val, held)

-----------------------------------------------------------------------------
(* Fetches.                                                                *)

\* What the coroutine does after RefreshableSecret.refresh.
Resume(x, records, values, written) ==
    LET r == proc[x].rec
        v == records[r].latest
    IN
    /\ UNCHANGED <<slot, world>>
    /\ \/ x \in Record /\ Ends(x) /\ UNCHANGED <<late, ordered>> /\ Becomes(records, values, held)
       \/ /\ x \in Caller
          /\ IF Valid(v, values)
             THEN proc' = [proc EXCEPT ![x].pc = "answered", ![x].epoch = values[v].epoch,
                                       ![x].rec = NoRecord]
             ELSE Ends(x)
          /\ UNCHANGED <<late, ordered>> /\ Becomes(records, values, held)
       \/ /\ x \in Order /\ ~Visits /\ Ends(x)
          /\ UNCHANGED late /\ Becomes(records, values, held)
          /\ IF v # NoValue THEN Fulfilled(x) ELSE UNCHANGED ordered
       \/ /\ x \in Order \cup {Timer} /\ Visits /\ Ends(x)
          /\ Deliver(x, r, records, values, written)

\* The issuer answered while the fetch was under way, with a value of its epoch then.
Fetched(x, written) ==
    LET v == Cardinality(Known(rec, held)) + 1 IN
    /\ proc[x].pc = "fetch" /\ v \in Value
    /\ \E e \in proc[x].epoch..epoch :
          Resume(x, [rec EXCEPT ![proc[x].rec].latest = v],
                    [val EXCEPT ![v] = [epoch |-> e, life |-> "fresh"]], written)

\* The issuer fails, its answer is lost or no use, or over by the time it is here.
FetchFails(x, written) ==
    /\ proc[x].pc = "fetch"
    /\ Resume(x, [rec EXCEPT ![proc[x].rec].waits = TRUE], val, written)

\* The proxy has its answer.
Leave(c) ==
    /\ c \in Caller /\ proc[c].pc = "answered" /\ Ends(c)
    /\ UNCHANGED <<held, slot, rec, val, ordered, late, world>>

-----------------------------------------------------------------------------
(* The API process, the issuer and time.                                   *)

HostBecomes(state) == host' = state /\ UNCHANGED <<holds, slot, proc, epoch, ordered, late>>

\* delete_host: delete_secrets, where there is something to delete, and later the row.
DeleteSecrets ==
    holds /\ host = "active" /\ HostBecomes("ending") /\ Becomes(rec, val, NoValue)

DropRow ==
    /\ host = IF holds THEN "ending" ELSE "active"
    /\ HostBecomes("gone") /\ Becomes(rec, val, held)

\* The issuer ends its values early.
EndEarly ==
    /\ epoch < MaxEpoch /\ epoch' = epoch + 1
    /\ UNCHANGED <<holds, host, held, slot, rec, val, proc, ordered, late>>

Age(v) ==
    /\ v \in Known(rec, held) /\ val[v].life # "over"
    /\ val' = [val EXCEPT ![v].life = IF @ = "fresh" THEN "stale" ELSE "over"]
    /\ UNCHANGED <<holds, host, held, slot, rec, proc, epoch, ordered, late>>

WaitOver(r) ==
    /\ rec[r].waits /\ rec' = [rec EXCEPT ![r].waits = FALSE]
    /\ UNCHANGED <<holds, host, held, slot, val, proc, epoch, ordered, late>>

ValuesAge == \E v \in Value : Age(v)

WaitsEnd == \E r \in Record : WaitOver(r)

Step(x) ==
    \/ Current(x) \/ Refresh(x) \/ Leave(x)
    \/ \E written \in BOOLEAN : Fetched(x, written) \/ FetchFails(x, written)

TimerStep == Tick \/ Push(TRUE) \/ Push(FALSE) \/ Step(Timer)

Next ==
    \/ \E x \in Caller \cup Order \cup Record : Step(x)
    \/ TimerStep
    \/ DeleteSecrets \/ DropRow \/ EndEarly
    \/ ValuesAge \/ WaitsEnd

Spec == Init /\ [][Next]_vars

\* The fetch of a push is answered and what it brings is written.
Delivers == Visits /\ \E x \in Order \cup {Timer} : Fetched(x, TRUE)

\* The timer and the clock go on, and of pushes tried for ever some deliver.
FairSpec ==
    /\ Spec
    /\ WF_vars(TimerStep) /\ WF_vars(ValuesAge) /\ WF_vars(WaitsEnd) /\ SF_vars(Delivers)

-----------------------------------------------------------------------------
\* "No request carries it again" (app.py, refresh): a request that came in after an order
\* was answered gets no value that had ended when the order was given.
OrderIsObeyed == \A c \in Caller : proc[c].pc = "answered" => proc[c].epoch >= proc[c].floor

\* "The value the provider has" (RefreshableSecret.pushed): the record that decides whether
\* the provider needs a value knows the one it has, unless a record that an order replaced
\* was written after it.
PushedIsHeld ==
    slot # NoRecord /\ rec[slot].pushed # NoValue /\ host = "active" /\ ~late =>
        rec[slot].pushed = held

\* "A provider that holds the value gets the new one at once" (app.py, refresh): once an
\* order was answered 200, the provider has no value that had ended when it was given, unless
\* a record that the order replaced was written after it (secrets.py:131, see the README).
OrderReachesProvider ==
    holds /\ host = "active" /\ ordered > 0 /\ ~late => val[held].epoch >= ordered

\* "A push after teardown finds no directory and fails, so it brings nothing back"
\* (SbxInjection.push_secret): no value file outlives delete_secrets, whatever push was
\* under way.
TeardownIsFinal == host \in {"ending", "gone"} => held = NoValue

\* What the record and the provider know of each other agrees, also after a teardown
\* (RefreshableSecret.push and delete_secrets).
ExchangeInv == TypeOK /\ PushedIsHeld /\ TeardownIsFinal

\* A provider that holds the value of an active host has a valid one of the issuer's
\* epoch again and again, however often fetches, writes and the process fail, and although
\* a late write may have put an ended value over it.
HeldIsRenewed ==
    []<>(holds /\ host = "active" => Valid(held, val) /\ val[held].epoch = epoch)

=============================================================================
