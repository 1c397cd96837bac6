--------------------------- MODULE TailnetProofs ---------------------------
(***************************************************************************)
(* For every set of hosts and every lifetime, buffer and latency that the  *)
(* assumption of Tailnet allows: no waiter lacks its poller, and a refusal *)
(* is Tailscale's own.                                                     *)
(*                                                                         *)
(* The invariant adds what the two rest on.  Only a host that asks for a   *)
(* key or releases its device has a request of its own, so that no answer  *)
(* moves a host that waits.  A token in use ends later than any request    *)
(* that could carry it, and a request that carries one is sooner over than *)
(* its token.                                                              *)
(***************************************************************************)
EXTENDS Tailnet, TLAPS

AsksWhen == \A h \in Host : call[h].pc # "none" => stage[h] \in {"issuing", "releasing"}

UsedInTime == cached.usable > 0 => cached.left >= cached.usable + Latency

CarriedInTime == \A x \in Caller : call[x].pc = "api" => call[x].left + call[x].age > Latency

IInv ==
    /\ TypeOK /\ AsksWhen /\ WaiterHasPoller
    /\ UsedInTime /\ CarriedInTime
    /\ DenialIsReal /\ ReleasedIsGone

CallRecord == [pc : {"none", "top", "token", "api", "listed"},
               age : 0..Latency, left : 0..Ttl, listed : SUBSET Host]

-----------------------------------------------------------------------------
\* A request has its kind, and the time its token has left (_make_request).
LEMMA RequestValue ==
    ASSUME NEW pc \in {"token", "api"}, NEW left \in 0..Ttl
    PROVE  /\ Request(pc, left) \in CallRecord
           /\ Request(pc, left).pc = pc /\ Request(pc, left).age = 0
           /\ Request(pc, left).left = left
<1>1. Request(pc, left) = [pc |-> pc, age |-> 0, left |-> left, listed |-> {}]
  <2>1. [NoCall EXCEPT !.pc = pc] = [pc |-> pc, age |-> 0, left |-> 0, listed |-> {}]
    BY DEF NoCall
  <2>2. Request(pc, left) = [[NoCall EXCEPT !.pc = pc] EXCEPT !.left = left]
    BY DEF Request
  <2> QED BY <2>1, <2>2
<1>2. 0 \in 0..Latency
  BY TokenAssumption
<1>3. [pc |-> pc, age |-> 0, left |-> left, listed |-> {}] \in CallRecord
  BY <1>2 DEF CallRecord
<1> QED BY <1>1, <1>3

\* The constructors of a call give calls (get_access_token, _poll).
LEMMA CallValues ==
    ASSUME TypeOK
    PROVE  /\ NoCall \in CallRecord /\ Resting \in CallRecord /\ FirstRequest \in CallRecord
           /\ NoCall.pc = "none" /\ Resting.pc = "top"
           /\ FirstRequest.pc \in {"token", "api"} /\ FirstRequest.age = 0
           /\ FirstRequest.pc = "api" => cached.usable > 0 /\ FirstRequest.left = cached.left
           /\ call \in [Caller -> CallRecord]
<1>1. NoCall \in CallRecord /\ NoCall.pc = "none"
  BY TokenAssumption DEF NoCall, CallRecord
<1>2. Resting \in CallRecord /\ Resting.pc = "top"
  BY TokenAssumption DEF Resting, NoCall, CallRecord
<1>3. cached.left \in 0..Ttl /\ 0 \in 0..Ttl
  BY TokenAssumption DEF TypeOK
<1>5. call \in [Caller -> CallRecord]
  BY DEF TypeOK, CallRecord
<1>6. CASE cached.usable > 0
  BY <1>1, <1>2, <1>3, <1>5, <1>6, RequestValue DEF FirstRequest
<1>7. CASE ~(cached.usable > 0)
  BY <1>1, <1>2, <1>3, <1>5, <1>7, RequestValue DEF FirstRequest
<1> QED BY <1>6, <1>7

\* A request that carries a good token is honoured while the client is (_make_request).
LEMMA CarriedIsHonoured ==
    ASSUME IInv, NEW x \in Caller, call[x].pc = "api", granted
    PROVE  Honoured(x)
<1>1. call[x].age \in 0..Latency /\ call[x].left \in 0..Ttl
  BY CallValues DEF IInv, CallRecord
<1>2. call[x].left + call[x].age > Latency
  BY DEF IInv, CarriedInTime
<1> QED BY <1>1, <1>2, TokenAssumption DEF Honoured

\* The invariant holds of a client that was just made.
LEMMA InitIInv == Init => IInv
<1> SUFFICES ASSUME Init PROVE IInv
  OBVIOUS
<1>1. TypeOK
  <2>1. call \in [Caller -> CallRecord]
    BY TokenAssumption DEF Init, NoCall, CallRecord
  <2>2. cached \in [left : 0..Ttl, usable : 0..Ttl]
    BY TokenAssumption DEF Init, NoToken
  <2>3. call \in [Caller -> [pc : {"none", "top", "token", "api", "listed"},
                            age : 0..Latency, left : 0..Ttl, listed : SUBSET Host]]
    BY <2>1 DEF CallRecord
  <2> QED BY <2>2, <2>3 DEF Init, TypeOK
<1>2. \A x \in Caller : call[x].pc = "none"
  BY DEF Init, NoCall
<1>3. Host \subseteq Caller
  BY DEF Caller
<1>4. UsedInTime
  BY DEF Init, NoToken, UsedInTime
<1> QED
  BY <1>1, <1>2, <1>3, <1>4 DEF Init, IInv, AsksWhen, WaiterHasPoller, Pending, CarriedInTime,
     DenialIsReal, ReleasedIsGone

-----------------------------------------------------------------------------
\* A request of any caller gets its token (get_access_token).
LEMMA TokenKeepsIInv == ASSUME IInv, NEW x \in Caller, TokenArrives(x) PROVE IInv'
<1>1. PICK left \in Ttl - call[x].age..Ttl :
         /\ cached' = [left |-> left, usable |-> UsableFor(call[x].age)]
         /\ call' = [call EXCEPT ![x] = Request("api", left)]
  BY DEF TokenArrives
<1> DEFINE age == call[x].age
<1>2. call \in [Caller -> CallRecord] /\ age \in 0..Latency
  BY CallValues DEF IInv, CallRecord
<1>3. left \in 0..Ttl /\ left >= Ttl - age
  BY <1>2, TokenAssumption
<1>4. /\ Request("api", left) \in CallRecord
      /\ Request("api", left).pc = "api" /\ Request("api", left).age = 0
      /\ Request("api", left).left = left
  BY <1>3, RequestValue
<1>5. call' \in [Caller -> CallRecord]
  BY <1>1, <1>2, <1>4
<1>6. UsableFor(age) \in 0..Ttl /\ (UsableFor(age) > 0 => left >= UsableFor(age) + Latency)
  BY <1>2, <1>3, TokenAssumption DEF UsableFor
<1>7. cached'.left = left /\ cached'.usable = UsableFor(age) /\ cached' \in [left : 0..Ttl, usable : 0..Ttl]
  BY <1>1, <1>3, <1>6
<1>8. TypeOK'
  BY <1>5, <1>7 DEF TokenArrives, IInv, TypeOK, CallRecord, tailnet
<1>9. UsedInTime'
  BY <1>6, <1>7 DEF UsedInTime
<1>10. \A y \in Caller : y # x => call'[y] = call[y]
  BY <1>1, <1>2
<1>11. call'[x] = Request("api", left)
  BY <1>1, <1>2
<1>12. CarriedInTime'
  <2> SUFFICES ASSUME NEW y \in Caller, call'[y].pc = "api"
               PROVE  call'[y].left + call'[y].age > Latency
    BY DEF CarriedInTime
  <2>1. CASE y = x
    BY <2>1, <1>2, <1>3, <1>4, <1>11, TokenAssumption
  <2>2. CASE y # x
    BY <2>2, <1>10 DEF IInv, CarriedInTime
  <2> QED BY <2>1, <2>2
<1>13. AsksWhen'
  BY <1>10 DEF IInv, AsksWhen, TokenArrives, Caller
<1>14. WaiterHasPoller'
  BY <1>4, <1>10, <1>11 DEF IInv, WaiterHasPoller, Pending, TokenArrives, Caller
<1> QED
  BY <1>8, <1>9, <1>12, <1>13, <1>14 DEF IInv, DenialIsReal, ReleasedIsGone, TokenArrives, tailnet

\* A provision or a teardown asks, and its request ends (issue_join_credentials, delete_device).
LEMMA AskKeepsIInv ==
    ASSUME IInv, NEW h \in Host,
           Ask(h, "new", "issuing") \/ Ask(h, "known", "releasing") \/ Completes(h) \/ CallFails(h)
    PROVE  IInv'
<1>1. call \in [Caller -> CallRecord] /\ h \in Caller /\ h # Poller /\ Poller \in Caller
  BY CallValues, PollerAssumption DEF IInv, Caller
<1>2. PICK c \in {NoCall, FirstRequest} : call' = [call EXCEPT ![h] = c]
  BY DEF Ask, Completes, CallFails
<1>3. c \in CallRecord /\ (c.pc = "api" => c.left + c.age > Latency)
  BY <1>2, CallValues, TokenAssumption DEF IInv, UsedInTime, TypeOK
<1>4. call' \in [Caller -> CallRecord] /\ call'[h] = c /\ \A y \in Caller : y # h => call'[y] = call[y]
  BY <1>1, <1>2, <1>3
<1>5. CarriedInTime'
  BY <1>3, <1>4 DEF IInv, CarriedInTime
<1>6. UNCHANGED <<granted, cached, waiter, closed>>
  BY DEF Ask, Completes, CallFails, tailnet
<1>7. stage[h] # "waiting"
  BY DEF IInv, AsksWhen, Ask, Completes, CallFails, InRequest
<1>8. PICK s \in {"issuing", "releasing", "booting", "released", "failed", "known"} :
         stage' = [stage EXCEPT ![h] = s]
  BY DEF Ask, Completes, CallFails, Reaches, AfterFailure
<1>9. stage'[h] = s /\ \A g \in Host : g # h => stage'[g] = stage[g]
  BY <1>8 DEF IInv, TypeOK
<1>10. /\ device' \in [Host -> {"none", "keyed", "up", "gone"}]
       /\ \A g \in Host : g # h => device'[g] = device[g]
  BY DEF Ask, Completes, CallFails, IInv, TypeOK, tailnet
<1>11. TypeOK'
  BY <1>4, <1>6, <1>7, <1>8, <1>9, <1>10 DEF IInv, TypeOK, CallRecord
<1>12. AsksWhen'
  <2>1. CASE Ask(h, "new", "issuing") \/ Ask(h, "known", "releasing")
    BY <2>1, <1>4, <1>9 DEF Ask, Reaches, IInv, TypeOK, AsksWhen, Caller
  <2>2. CASE Completes(h) \/ CallFails(h)
    <3>1. call'[h].pc = "none"
      BY <2>2, <1>1, CallValues DEF Completes, CallFails, IInv
    <3> QED BY <3>1, <1>4, <1>9 DEF IInv, AsksWhen, Caller
  <2> QED BY <2>1, <2>2
<1>13. WaiterHasPoller'
  BY <1>1, <1>4, <1>6 DEF IInv, WaiterHasPoller, Pending
<1>14. ReleasedIsGone'
  <2>1. stage'[h] = "released" => device'[h] = "gone"
    BY <1>9 DEF Ask, Completes, CallFails, Reaches, AfterFailure, IInv, TypeOK
  <2> QED BY <2>1, <1>9, <1>10 DEF IInv, ReleasedIsGone
<1> QED BY <1>5, <1>6, <1>11, <1>12, <1>13, <1>14 DEF IInv, UsedInTime, DenialIsReal

\* A waiter registers with a poller that runs, and leaves (wait_for).
LEMMA WaitKeepsIInv ==
    ASSUME IInv, NEW h \in Host, WaitFor(h) \/ Wakes(h) \/ GivesUp(h)
    PROVE  IInv'
<1>1. call \in [Caller -> CallRecord] /\ Poller \in Caller /\ h \in Caller /\ h # Poller
  BY CallValues, PollerAssumption DEF IInv, Caller
<1>2. UNCHANGED <<cached, closed, granted, device>>
  BY DEF WaitFor, Wakes, GivesUp, Leaves, tailnet
<1>3. PICK s \in {"waiting", "known", "failed"}, w \in {"pending", "none"} :
         /\ stage' = [stage EXCEPT ![h] = s] /\ waiter' = [waiter EXCEPT ![h] = w]
         /\ w = "pending" <=> s = "waiting"
  BY DEF WaitFor, Wakes, GivesUp, Leaves, Reaches, Unregistered
<1>4. /\ stage'[h] = s /\ \A g \in Host : g # h => stage'[g] = stage[g]
      /\ waiter'[h] = w /\ \A g \in Host : g # h => waiter'[g] = waiter[g]
  BY <1>3 DEF IInv, TypeOK
<1>5. stage[h] \in {"booting", "waiting"}
  BY DEF WaitFor, Wakes, GivesUp, Leaves
<1>6. /\ call' \in [Caller -> CallRecord]
      /\ \A x \in Caller : x # Poller => call'[x] = call[x]
      /\ call'[Poller] = call[Poller] \/ call'[Poller] = Resting
  BY <1>1, CallValues DEF WaitFor, Wakes, GivesUp, Leaves, PollerForWaiter, IInv
<1>7. WaitFor(h) => call'[Poller].pc # "none"
  BY <1>1, CallValues DEF WaitFor, PollerForWaiter, IInv
<1>8. TypeOK'
  BY <1>2, <1>3, <1>4, <1>6 DEF IInv, TypeOK, CallRecord
<1>9. AsksWhen'
  BY <1>4, <1>5, <1>6, PollerAssumption DEF IInv, AsksWhen, Caller
<1>10. WaiterHasPoller'
  <2>1. CASE WaitFor(h)
    BY <2>1, <1>7 DEF WaiterHasPoller
  <2>2. CASE Wakes(h) \/ GivesUp(h)
    <3>1. w = "none" /\ call' = call
      BY <2>2, <1>4, <1>5 DEF Wakes, GivesUp, Leaves, Unregistered, IInv, TypeOK
    <3> QED BY <3>1, <1>4 DEF IInv, WaiterHasPoller, Pending
  <2> QED BY <2>1, <2>2
<1>11. CarriedInTime'
  BY <1>6, CallValues DEF IInv, CarriedInTime
<1> QED
  BY <1>2, <1>3, <1>4, <1>8, <1>9, <1>10, <1>11 DEF IInv, UsedInTime, DenialIsReal, ReleasedIsGone

\* The poller's own steps, and aclose (_poll).
LEMMA PollerKeepsIInv ==
    ASSUME IInv, PollerWakes \/ Listed \/ PollerLists \/ PollerRefused \/ PollerBreaks \/ Close
    PROVE  IInv'
<1>1. call \in [Caller -> CallRecord] /\ Poller \in Caller
  BY CallValues DEF IInv, Caller
<1>2. UNCHANGED <<cached, stage, granted, device>> /\ closed' \in BOOLEAN
  BY DEF PollerWakes, Listed, PollerLists, PollerRefused, PollerBreaks, Close, tailnet, IInv,
     TypeOK
<1>3. /\ call' \in [Caller -> CallRecord]
      /\ \A x \in Caller : x # Poller => call'[x] = call[x]
      /\ call'[Poller].pc = "api" => call'[Poller] = FirstRequest
  <2>1. CASE Listed
    <3>1. call[Poller] \in CallRecord
      BY <1>1
    <3> DEFINE seen == {h \in Host : device[h] = "up" /\ stage[h] \in {"booting", "waiting"}}
    <3>2. call' = [call EXCEPT ![Poller] = [[call[Poller] EXCEPT !.pc = "listed"] EXCEPT !.listed = seen]]
      BY <2>1, <1>1, <3>1 DEF Listed, CallRecord
    <3>3. /\ [[call[Poller] EXCEPT !.pc = "listed"] EXCEPT !.listed = seen] \in CallRecord
          /\ [[call[Poller] EXCEPT !.pc = "listed"] EXCEPT !.listed = seen].pc = "listed"
      BY <3>1 DEF CallRecord
    <3> HIDE DEF seen
    <3> QED BY <1>1, <3>2, <3>3
  <2>2. CASE PollerWakes
    BY <2>2, <1>1, CallValues DEF PollerWakes, IInv
  <2>3. CASE PollerLists \/ PollerRefused \/ PollerBreaks \/ Close
    BY <2>3, <1>1, CallValues DEF PollerLists, PollerRefused, PollerBreaks, Close, NextRound, IInv
  <2> QED BY <2>1, <2>2, <2>3
<1>4. /\ waiter' \in [Host -> {"none", "pending", "found", "denied"}]
      /\ \A h \in Host : waiter'[h] # "none" <=> waiter[h] # "none"
      /\ \A h \in Host : waiter'[h] = "pending" => waiter[h] = "pending"
  BY DEF PollerWakes, Listed, PollerLists, PollerRefused, PollerBreaks, Close, Denial, Pending,
         IInv, TypeOK
<1>5. TypeOK'
  BY <1>2, <1>3, <1>4 DEF IInv, TypeOK, CallRecord
<1>6. AsksWhen'
  BY <1>2, <1>3, PollerAssumption DEF IInv, AsksWhen, Caller
<1>7. WaiterHasPoller'
  <2>1. CASE PollerRefused
    BY <2>1 DEF PollerRefused, Denial, WaiterHasPoller, Pending, IInv, TypeOK
  <2>2. CASE Close
    BY <2>2, <1>4 DEF Close, WaiterHasPoller, Pending, IInv, TypeOK
  <2>3. CASE PollerWakes
    BY <2>3, <1>1, CallValues DEF PollerWakes, SomeoneWaits, WaiterHasPoller, Pending, IInv
  <2>4. CASE Listed
    BY <2>4, <1>1, CallValues DEF Listed, WaiterHasPoller, Pending, IInv, CallRecord
  <2>5. CASE PollerLists \/ PollerBreaks
    BY <2>5, <1>1, CallValues DEF PollerLists, PollerBreaks, NextRound, WaiterHasPoller, IInv
  <2> QED BY <2>1, <2>2, <2>3, <2>4, <2>5
<1>8. CarriedInTime'
  <2>1. FirstRequest.pc = "api" => FirstRequest.left + FirstRequest.age > Latency
    BY CallValues, TokenAssumption DEF IInv, UsedInTime, TypeOK
  <2> QED BY <1>3, <2>1 DEF IInv, CarriedInTime
<1>9. DenialIsReal'
  <2>1. CASE PollerRefused /\ granted
    <3>1. call[Poller].pc = "api" /\ ~Honoured(Poller)
      BY <2>1 DEF PollerRefused, Refused
    <3> QED BY <3>1, <2>1, <1>1, CarriedIsHonoured
  <2>2. CASE PollerRefused /\ ~granted
    BY <2>2, <1>2 DEF DenialIsReal
  <2>3. CASE ~PollerRefused
    BY <2>3, <1>2
    DEF PollerWakes, Listed, PollerLists, PollerBreaks, Close, DenialIsReal, IInv, TypeOK
  <2> QED BY <2>1, <2>2, <2>3
<1> QED BY <1>2, <1>5, <1>6, <1>7, <1>8, <1>9 DEF IInv, UsedInTime, ReleasedIsGone

\* A tick takes as much from a token as from the request that carries it.
LEMMA TickKeepsIInv == ASSUME IInv, Tick PROVE IInv'
<1>1. call \in [Caller -> CallRecord]
  BY CallValues DEF IInv
<1>2. /\ cached.left \in 0..Ttl /\ cached.usable \in 0..Ttl
      /\ cached' = [left |-> Less(cached.left), usable |-> Less(cached.usable)]
  BY DEF Tick, IInv, TypeOK
<1>3. cached' \in [left : 0..Ttl, usable : 0..Ttl] /\ UsedInTime'
  BY <1>2, TokenAssumption DEF Less, IInv, UsedInTime
<1>4. ASSUME NEW x \in Caller
      PROVE  /\ call'[x] \in CallRecord /\ call'[x].pc = call[x].pc
             /\ call'[x].pc = "api" => call'[x].left + call'[x].age > Latency
  <2>1. call[x] \in CallRecord
    BY <1>1
  <2>2. CASE InRequest(x)
    <3>1. call'[x] = [[call[x] EXCEPT !.age = @ + 1] EXCEPT !.left = Less(@)] /\ call[x].age < Latency
      BY <2>1, <2>2 DEF Tick, CallRecord
    <3>2. /\ call'[x].pc = call[x].pc /\ call'[x].listed = call[x].listed
          /\ call'[x].age = call[x].age + 1 /\ call'[x].left = Less(call[x].left)
          /\ call'[x] \in [pc : {call'[x].pc}, age : {call'[x].age}, left : {call'[x].left},
                           listed : {call'[x].listed}]
      BY <3>1, <2>1 DEF CallRecord
    <3>3. /\ call[x].age \in 0..Latency /\ call[x].left \in 0..Ttl /\ call[x].listed \in SUBSET Host
          /\ call[x].pc \in {"none", "top", "token", "api", "listed"}
      BY <2>1 DEF CallRecord
    <3>4. call'[x].age \in 0..Latency /\ call'[x].left \in 0..Ttl
      BY <3>1, <3>2, <3>3, TokenAssumption DEF Less
    <3>5. call'[x] \in CallRecord
      BY <3>2, <3>3, <3>4 DEF CallRecord
    <3>6. call[x].pc = "api" => call'[x].left + call'[x].age > Latency
      <4>1. call[x].pc = "api" => call[x].left + call[x].age > Latency
        BY DEF IInv, CarriedInTime
      <4> QED BY <4>1, <3>1, <3>2, <3>3, TokenAssumption DEF Less
    <3> QED BY <3>2, <3>5, <3>6
  <2>3. CASE ~InRequest(x)
    BY <2>1, <2>3 DEF Tick, InRequest
  <2> QED BY <2>2, <2>3
<1>5. call' \in [Caller -> CallRecord]
  <2>1. call' = [x \in Caller |-> call'[x]]
    BY DEF Tick
  <2> QED BY <2>1, <1>4
<1>6. UNCHANGED <<granted, stage, waiter, device, closed>>
  BY DEF Tick
<1>7. TypeOK'
  BY <1>3, <1>5, <1>6 DEF IInv, TypeOK, CallRecord
<1>8. CarriedInTime'
  BY <1>4 DEF CarriedInTime
<1> QED
  BY <1>3, <1>4, <1>6, <1>7, <1>8
  DEF IInv, AsksWhen, WaiterHasPoller, Pending, DenialIsReal, ReleasedIsGone, Caller

\* What the tailnet does by itself (the VM's tailscaled, the operator).
LEMMA TailnetKeepsIInv ==
    ASSUME IInv, Revoke \/ \E h \in Host : DeviceJoinsOrGoes(h)
    PROVE  IInv'
<1>1. /\ UNCHANGED <<cached, call, stage, waiter, closed>>
      /\ granted' \in BOOLEAN /\ (granted' => granted)
  <2>1. CASE Revoke
    BY <2>1, Zenon DEF Revoke
  <2>2. CASE \E h \in Host : DeviceJoinsOrGoes(h)
    <3>1. UNCHANGED <<granted, cached, call, stage, waiter, closed>>
      BY <2>2 DEF DeviceJoinsOrGoes
    <3>2. granted \in BOOLEAN
      BY DEF IInv, TypeOK
    <3> QED BY <3>1, <3>2, Zenon
  <2> QED BY <2>1, <2>2
<1>2. /\ device' \in [Host -> {"none", "keyed", "up", "gone"}]
      /\ \A h \in Host : device[h] = "gone" => device'[h] = "gone"
  BY DEF Revoke, DeviceJoinsOrGoes, IInv, TypeOK
<1>3. TypeOK'
  BY <1>1, <1>2 DEF IInv, TypeOK
<1> QED
  BY <1>1, <1>2, <1>3 DEF IInv, AsksWhen, WaiterHasPoller, Pending, UsedInTime, CarriedInTime,
     DenialIsReal, ReleasedIsGone

LEMMA NextIInv == IInv /\ [Next]_vars => IInv'
<1> SUFFICES ASSUME IInv, [Next]_vars PROVE IInv'
  OBVIOUS
<1>1. CASE UNCHANGED vars
  BY <1>1 DEF vars, IInv, TypeOK, AsksWhen, WaiterHasPoller, Pending, UsedInTime, CarriedInTime,
     DenialIsReal, ReleasedIsGone
<1>2. CASE \E h \in Host : HostStep(h)
  BY <1>2, TokenKeepsIInv, AskKeepsIInv, WaitKeepsIInv, TailnetKeepsIInv DEF HostStep, Caller
<1>3. CASE PollerStep \/ Close
  BY <1>3, TokenKeepsIInv, PollerKeepsIInv DEF PollerStep, Caller
<1>4. CASE Revoke \/ Tick
  BY <1>4, TailnetKeepsIInv, TickKeepsIInv
<1> QED BY <1>1, <1>2, <1>3, <1>4 DEF Next

-----------------------------------------------------------------------------
\* However many provisions register, leave, give up and are refused, an unresolved waiter
\* has a poller that runs (wait_for and _poll).
THEOREM WaitersHavePollers == Spec => []WaiterHasPoller
<1>1. IInv => WaiterHasPoller
  BY DEF IInv
<1> QED BY <1>1, InitIInv, NextIInv, PTL DEF Spec

\* With a buffer that covers a request, no provision is refused because its token ran out,
\* and a release that counts as done has left no device (get_access_token, delete_device).
THEOREM RefusalsAreReal == Spec => []TailnetInv
<1>1. IInv => TailnetInv
  BY DEF IInv, TailnetInv
<1> QED BY <1>1, InitIInv, NextIInv, PTL DEF Spec
=============================================================================
