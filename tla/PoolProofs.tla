----------------------------- MODULE PoolProofs -----------------------------
(***************************************************************************)
(* The pool maintainer, for any providers, targets, budget and order and   *)
(* any number of ticks that overlap, fail and die.                         *)
(*                                                                         *)
(* The loop of a tick (PoolBatch): within a pass a provider still to be    *)
(* served has been given one host less than those before it (Level), so    *)
(* what has been planned is, at every moment, what comes first in the      *)
(* round robin (PlanInv), and the loop ends with all the budget allows.    *)
(* What comes first is a matter of counting: InOrder gives each member of  *)
(* a set a place, one to one, and leaves no place out (InOrderLists).      *)
(*                                                                         *)
(* Ticks that overlap (HostPool): members and what ticks have still to     *)
(* create are together within the bound (RoomInv).  Only a count adds to   *)
(* what is still to be created, and what it adds fits under the target     *)
(* with the members it saw; all it did not see is the others' batches.     *)
(***************************************************************************)
EXTENDS HostPool, PoolBatch, FiniteSetTheorems, TLAPS

-----------------------------------------------------------------------------
(* Sets in order (InOrder).                                                *)

StrictOrder(S, R) ==
    /\ \A x \in S : <<x, x>> \notin R
    /\ \A x, y, z \in S : <<x, y>> \in R /\ <<y, z>> \in R => <<x, z>> \in R
    /\ \A x, y \in S : x # y => <<x, y>> \in R \/ <<y, x>> \in R

Ahead(S, R, x) == {y \in S : <<y, x>> \in R}

\* The place InOrder gives x.
Place(S, R, x) == Cardinality(Ahead(S, R, x)) + 1

\* Places grow along the order, from 1 to the number of members.
LEMMA PlacesGrow ==
    ASSUME NEW S, IsFiniteSet(S), NEW R, StrictOrder(S, R)
    PROVE  /\ Cardinality(S) \in Nat
           /\ \A x \in S : Place(S, R, x) \in 1..Cardinality(S)
           /\ \A x, y \in S : <<x, y>> \in R => Place(S, R, x) < Place(S, R, y)
<1>1. Cardinality(S) \in Nat
  BY FS_CardinalityType
<1>2. ASSUME NEW x \in S
      PROVE  /\ IsFiniteSet(Ahead(S, R, x)) /\ Cardinality(Ahead(S, R, x)) \in Nat
             /\ Cardinality(Ahead(S, R, x)) < Cardinality(S)
  <2>1. Ahead(S, R, x) \in SUBSET S /\ x \notin Ahead(S, R, x)
    BY DEF Ahead, StrictOrder
  <2>2. /\ IsFiniteSet(Ahead(S, R, x)) /\ Cardinality(Ahead(S, R, x)) <= Cardinality(S)
        /\ Cardinality(Ahead(S, R, x)) # Cardinality(S)
    BY <2>1, FS_Subset
  <2> QED BY <1>1, <2>2, FS_CardinalityType
<1>3. ASSUME NEW x \in S, NEW y \in S, <<x, y>> \in R
      PROVE  Cardinality(Ahead(S, R, x)) < Cardinality(Ahead(S, R, y))
  <2>1. Ahead(S, R, x) \in SUBSET Ahead(S, R, y)
    BY <1>3 DEF Ahead, StrictOrder
  <2>2. x \in Ahead(S, R, y) /\ x \notin Ahead(S, R, x)
    BY <1>3 DEF Ahead, StrictOrder
  <2>3. /\ Cardinality(Ahead(S, R, x)) <= Cardinality(Ahead(S, R, y))
        /\ Cardinality(Ahead(S, R, x)) # Cardinality(Ahead(S, R, y))
    BY <1>2, <2>1, <2>2, FS_Subset
  <2> QED BY <1>2, <2>3
<1>4. \A x \in S : Place(S, R, x) \in 1..Cardinality(S)
  BY <1>1, <1>2 DEF Place
<1> QED BY <1>1, <1>2, <1>3, <1>4 DEF Place

\* InOrder lists every member once, at its place.
LEMMA InOrderLists ==
    ASSUME NEW S, IsFiniteSet(S), NEW R, StrictOrder(S, R)
    PROVE  /\ InOrder(S, R) \in [1..Cardinality(S) -> S]
           /\ \A i \in 1..Cardinality(S) : Place(S, R, InOrder(S, R)[i]) = i
           /\ \A x \in S : InOrder(S, R)[Place(S, R, x)] = x
<1> DEFINE T == 1..Cardinality(S)
           f == [x \in S |-> Place(S, R, x)]
<1>1. \A x \in S : Place(S, R, x) \in T
  BY PlacesGrow
<1>2. ASSUME NEW x \in S, NEW y \in S, Place(S, R, x) = Place(S, R, y) PROVE x = y
  <2>1. Place(S, R, x) \in Int /\ Place(S, R, y) \in Int
    BY <1>1
  <2>2. <<x, y>> \notin R /\ <<y, x>> \notin R
    BY <1>2, <2>1, PlacesGrow
  <2> QED BY <2>2 DEF StrictOrder
<1>3. f \in Injection(S, T)
  BY <1>1, <1>2 DEF Injection, IsInjective
<1>4. IsFiniteSet(T) /\ Cardinality(T) = Cardinality(S)
  BY PlacesGrow, FS_Interval
<1>5. f \in Surjection(S, T)
  <2> HIDE DEF f, T
  <2> QED BY <1>3, <1>4, FS_Injection
<1>6. \A i \in T : \E x \in S : Place(S, R, x) = i
  BY <1>5 DEF Surjection
<1>7. ASSUME NEW i \in T
      PROVE  InOrder(S, R)[i] \in S /\ Place(S, R, InOrder(S, R)[i]) = i
  <2>1. \A x \in S : Place(S, R, x) = i <=> Cardinality({y \in S : <<y, x>> \in R}) = i - 1
    <3> SUFFICES ASSUME NEW x \in S
                 PROVE  Place(S, R, x) = i <=> Cardinality(Ahead(S, R, x)) = i - 1
      BY DEF Ahead
    <3>1. Ahead(S, R, x) \in SUBSET S
      BY DEF Ahead
    <3>2. Cardinality(Ahead(S, R, x)) \in Nat
      BY <3>1, FS_Subset, FS_CardinalityType
    <3> QED BY <3>2, PlacesGrow DEF Place
  <2>2. InOrder(S, R)[i] = CHOOSE x \in S : Cardinality({y \in S : <<y, x>> \in R}) = i - 1
    BY DEF InOrder
  <2>3. \E x \in S : Cardinality({y \in S : <<y, x>> \in R}) = i - 1
    BY <1>6, <2>1
  <2>4. /\ InOrder(S, R)[i] \in S
        /\ Cardinality({y \in S : <<y, InOrder(S, R)[i]>> \in R}) = i - 1
    BY <2>2, <2>3
  <2> QED BY <2>1, <2>4
<1>8. InOrder(S, R) \in [T -> S]
  <2> DEFINE At(i) == CHOOSE x \in S : Cardinality({y \in S : <<y, x>> \in R}) = i - 1
  <2>1. InOrder(S, R) = [i \in T |-> At(i)]
    BY DEF InOrder
  <2> HIDE DEF At, T
  <2>2. \A i \in T : At(i) \in S
    BY <1>7, <2>1
  <2> QED BY <2>1, <2>2
<1>9. \A x \in S : InOrder(S, R)[Place(S, R, x)] = x
  BY <1>1, <1>2, <1>7
<1> QED BY <1>7, <1>8, <1>9

-----------------------------------------------------------------------------
(* The round robin (PoolPlan).                                             *)

Needs == [Provider -> Nat]

SlotOrder(order, lack) ==
    {x \in Slots(lack) \X Slots(lack) : Earlier(order, x[1], x[2])}

LEMMA SlotsAreFinite ==
    ASSUME NEW lack \in Needs
    PROVE  /\ IsFiniteSet(Slots(lack)) /\ Cardinality(Slots(lack)) \in Nat
           /\ \A x \in Slots(lack) : x = <<x[1], x[2]>> /\ x[2] \in Provider /\ x[1] \in 1..lack[x[2]]
           /\ \A p \in Provider : \A k \in 1..lack[p] : <<k, p>> \in Slots(lack)
<1> DEFINE row == [p \in Provider |-> (1..lack[p]) \X {p}]
           T == {(1..lack[p]) \X {p} : p \in Provider}
<1>1. row \in Surjection(Provider, T)
  BY DEF Surjection
<1>2. IsFiniteSet(T)
  <2> HIDE DEF row, T
  <2> QED BY <1>1, PlanAssumption, FS_Surjection
<1>3. \A p \in Provider : IsFiniteSet((1..lack[p]) \X {p})
  <2> SUFFICES ASSUME NEW p \in Provider PROVE IsFiniteSet((1..lack[p]) \X {p})
    OBVIOUS
  <2>1. lack[p] \in Int
    BY DEF Needs
  <2>2. IsFiniteSet(1..lack[p])
    BY <2>1, FS_Interval
  <2>3. IsFiniteSet({p})
    BY FS_Singleton
  <2> QED BY <2>2, <2>3, FS_Product
<1>4. IsFiniteSet(UNION T)
  <2>1. \A x \in T : IsFiniteSet(x)
    BY <1>3
  <2> HIDE DEF T
  <2> QED BY <1>2, <2>1, FS_UNION
<1>5. IsFiniteSet(Slots(lack))
  BY <1>4 DEF Slots
<1>6. \A x \in Slots(lack) : x = <<x[1], x[2]>> /\ x[2] \in Provider /\ x[1] \in 1..lack[x[2]]
  BY DEF Slots
<1>7. \A p \in Provider : \A k \in 1..lack[p] : <<k, p>> \in Slots(lack)
  BY DEF Slots
<1> QED BY <1>5, <1>6, <1>7, FS_CardinalityType

\* The passes of the loop, and in each the providers in their order.
LEMMA SlotsAreOrdered ==
    ASSUME NEW lack \in Needs, NEW order \in Rankings
    PROVE  StrictOrder(Slots(lack), SlotOrder(order, lack))
<1>1. \A x \in Slots(lack) : /\ x = <<x[1], x[2]>> /\ x[2] \in Provider
                            /\ x[1] \in Int /\ order[x[2]] \in Int
  BY SlotsAreFinite DEF Rankings, Needs
<1>2. \A x, y \in Slots(lack) : <<x, y>> \in SlotOrder(order, lack) <=> Earlier(order, x, y)
  BY DEF SlotOrder
<1>3. \A x, y \in Slots(lack) : x # y => Earlier(order, x, y) \/ Earlier(order, y, x)
  BY <1>1 DEF Earlier, Rankings
<1>4. \A x \in Slots(lack) : ~Earlier(order, x, x)
  BY <1>1 DEF Earlier
<1>5. \A x, y, z \in Slots(lack) :
          Earlier(order, x, y) /\ Earlier(order, y, z) => Earlier(order, x, z)
  BY <1>1 DEF Earlier
<1> QED BY <1>2, <1>3, <1>4, <1>5 DEF StrictOrder

\* A plan is within the budget and names no provider more often than it lacks hosts.
LEMMA PlanIsBounded ==
    ASSUME NEW lack \in Needs, NEW order \in Rankings
    PROVE  /\ PlanSize(lack) \in Nat /\ PlanSize(lack) <= Budget
           /\ RoundRobin(order, lack) \in Seq(Provider)
           /\ Len(RoundRobin(order, lack)) = PlanSize(lack)
           /\ \A p \in Provider :
                 LET named == {i \in 1..PlanSize(lack) : RoundRobin(order, lack)[i] = p}
                 IN  IsFiniteSet(named) /\ Cardinality(named) <= lack[p]
<1> DEFINE S == Slots(lack)
           all == SlotsInOrder(order, lack)
           n == PlanSize(lack)
           plan == RoundRobin(order, lack)
<1>1. /\ IsFiniteSet(S) /\ Cardinality(S) \in Nat
      /\ \A x \in S : x = <<x[1], x[2]>> /\ x[2] \in Provider /\ x[1] \in 1..lack[x[2]]
  BY SlotsAreFinite
<1>2. n \in Nat /\ n <= Budget /\ n <= Cardinality(S)
  BY <1>1, PlanAssumption DEF PlanSize
<1>3. /\ all \in [1..Cardinality(S) -> S]
      /\ \A i, j \in 1..Cardinality(S) : all[i] = all[j] => i = j
  <2>1. all = InOrder(S, SlotOrder(order, lack))
    BY DEF SlotsInOrder, SlotOrder
  <2> QED BY <1>1, <2>1, SlotsAreOrdered, InOrderLists
<1>4. plan = [i \in 1..n |-> all[i][2]]
  BY DEF RoundRobin
<1> HIDE DEF S, all, n, plan
<1>5. \A i \in 1..n : i \in 1..Cardinality(S) /\ all[i] \in S
  BY <1>1, <1>2, <1>3
<1>6. plan \in Seq(Provider) /\ Len(plan) = n
  BY <1>1, <1>2, <1>4, <1>5
<1>7. ASSUME NEW p \in Provider
      PROVE  /\ IsFiniteSet({i \in 1..n : plan[i] = p})
             /\ Cardinality({i \in 1..n : plan[i] = p}) <= lack[p]
  <2> DEFINE N == {i \in 1..n : plan[i] = p}
             f == [i \in N |-> all[i][1]]
             K == 1..lack[p]
  <2>1. \A i \in N : i \in 1..n /\ all[i][2] = p
    BY <1>4
  <2>2. f \in [N -> K]
    BY <1>1, <1>5, <2>1
  <2>3. ASSUME NEW i \in N, NEW j \in N, f[i] = f[j] PROVE i = j
    <3>1. all[i] = all[j]
      BY <1>1, <1>5, <2>1, <2>3
    <3> QED BY <1>3, <1>5, <2>1, <3>1
  <2>4. f \in Injection(N, K)
    BY <2>2, <2>3 DEF Injection, IsInjective
  <2>5. IsFiniteSet(K) /\ Cardinality(K) = lack[p]
    BY FS_Interval DEF Needs
  <2>6. IsFiniteSet(N) /\ Cardinality(N) <= lack[p]
    <3> HIDE DEF N, f, K
    <3> QED BY <2>4, <2>5, FS_Injection
  <2> QED BY <2>6
<1> QED BY <1>2, <1>6, <1>7 DEF n, plan

-----------------------------------------------------------------------------
(* The loop that makes the plan (PoolBatch).                               *)

\* Where a provider stands.  The running pass has yet to visit its members, which are
\* level with each other; whoever else still lacks a host is one ahead of them, and
\* nobody is ahead of that.
Level ==
    /\ \A p \in Provider : deficit[p] <= need[p]
    /\ \A p \in pass : deficit[p] > 0
    /\ \A p \in pass, q \in Provider : Given(q) <= Given(p) + 1
    /\ \A p, q \in pass : Given(p) = Given(q)
    /\ \A p \in Provider \ pass, q \in pass : deficit[p] > 0 => Given(p) = Given(q) + 1
    /\ \A p \in Provider \ pass, q \in Provider : deficit[p] > 0 => Given(q) <= Given(p)

BatchInv == BatchTypeOK /\ Level /\ Len(batch) <= Budget

LEMMA VisitKeepsLevel ==
    ASSUME BatchTypeOK, Level, NEW p \in Provider, Visit(p)
    PROVE  Level'
  <1>1. /\ p \in pass /\ pass' = pass \ {p} /\ need' = need
        /\ deficit[p] > 0 /\ deficit[p] \in Nat /\ deficit'[p] = deficit[p] - 1
        /\ \A q \in Provider : q # p => deficit'[q] = deficit[q]
    BY DEF Visit, LeavesPass, BatchTypeOK, Level
  <1>2. /\ Given(p)' = Given(p) + 1
        /\ \A q \in Provider : q # p => Given(q)' = Given(q)
        /\ \A q \in Provider : Given(q) \in Int /\ need[q] \in Nat /\ deficit[q] \in Nat
    BY <1>1 DEF Given, BatchTypeOK
  <1>3. \A q \in Provider : deficit'[q] <= need'[q]
    BY <1>1, <1>2 DEF Level
  <1>4. \A q \in pass' : deficit'[q] > 0
    BY <1>1 DEF Level, BatchTypeOK
  <1>5. \A q \in pass', r \in Provider : Given(r)' <= Given(q)' + 1
    <2> SUFFICES ASSUME NEW q \in pass', NEW r \in Provider
                 PROVE  Given(r)' <= Given(q)' + 1
      OBVIOUS
    <2>1. q \in pass /\ q # p /\ q \in Provider /\ Given(q)' = Given(q) /\ Given(p) = Given(q)
      BY <1>1, <1>2 DEF Level, BatchTypeOK
    <2>2. Given(r) <= Given(q) + 1
      BY <2>1 DEF Level
    <2> QED
      BY <1>2, <2>1, <2>2
  <1>6. \A q, r \in pass' : Given(q)' = Given(r)'
    BY <1>1, <1>2 DEF Level, BatchTypeOK
  <1>7. \A q \in Provider \ pass', r \in pass' : deficit'[q] > 0 => Given(q)' = Given(r)' + 1
    <2> SUFFICES ASSUME NEW q \in Provider \ pass', NEW r \in pass', deficit'[q] > 0
                 PROVE  Given(q)' = Given(r)' + 1
      OBVIOUS
    <2>1. r \in pass /\ r # p /\ r \in Provider /\ Given(r)' = Given(r) /\ Given(p) = Given(r)
      BY <1>1, <1>2 DEF Level, BatchTypeOK
    <2>2. CASE q = p
      BY <1>2, <2>1, <2>2
    <2>3. CASE q # p
      BY <1>1, <1>2, <2>1, <2>3 DEF Level
    <2> QED
      BY <2>2, <2>3
  <1>8. \A q \in Provider \ pass', r \in Provider : deficit'[q] > 0 => Given(r)' <= Given(q)'
    <2> SUFFICES ASSUME NEW q \in Provider \ pass', NEW r \in Provider, deficit'[q] > 0
                 PROVE  Given(r)' <= Given(q)'
      OBVIOUS
    <2>1. CASE q = p
      <3>1. Given(r) <= Given(p) + 1
        BY <1>1 DEF Level
      <3> QED
        BY <1>2, <2>1, <3>1
    <2>2. CASE q # p
      <3>1. q \notin pass /\ deficit[q] > 0
        BY <1>1, <2>2
      <3>2. Given(q) = Given(p) + 1 /\ Given(r) <= Given(q)
        BY <1>1, <3>1 DEF Level
      <3> QED
        BY <1>2, <2>2, <3>2
    <2> QED
      BY <2>1, <2>2
  <1> QED
    BY <1>3, <1>4, <1>5, <1>6, <1>7, <1>8 DEF Level

LEMMA StartKeepsLevel ==
    ASSUME BatchTypeOK, Level, StartPass
    PROVE  Level'
  <1>1. /\ pass = {} /\ pass' = {p \in Provider : deficit[p] > 0}
        /\ deficit' = deficit /\ need' = need
    BY DEF StartPass, Underfilled
  <1>2. \A p \in Provider : Given(p)' = Given(p) /\ Given(p) \in Int
    BY <1>1 DEF Given, BatchTypeOK
  <1>3. \A p, q \in Provider : deficit[p] > 0 => Given(q) <= Given(p)
    BY <1>1 DEF Level
  <1>4. \A p \in Provider, q \in Provider : p \in pass' /\ q \in pass' => Given(p) = Given(q)
    BY <1>1, <1>2, <1>3
  <1> QED
    BY <1>1, <1>2, <1>3, <1>4 DEF Level

LEMMA BatchInvStep == BatchInv /\ [BatchNext]_batchVars => BatchInv'
  <1> SUFFICES ASSUME BatchInv, [BatchNext]_batchVars
               PROVE  BatchInv'
    OBVIOUS
  <1> USE PlanAssumption DEF BatchInv
  <1>1. CASE StartPass
    <2>1. BatchTypeOK' /\ Len(batch') <= Budget
      BY <1>1 DEF StartPass, BatchTypeOK, Underfilled
    <2> QED
      BY <1>1, <2>1, StartKeepsLevel
  <1>2. ASSUME NEW p \in Provider, Visit(p)
        PROVE  BatchInv'
    <2>1. deficit[p] \in Nat /\ deficit[p] > 0
      BY <1>2 DEF Visit, Level, BatchTypeOK
    <2>2. /\ rank' = rank /\ need' = need /\ pass' \subseteq Provider
          /\ deficit' = [deficit EXCEPT ![p] = deficit[p] - 1]
      BY <1>2 DEF Visit, LeavesPass, BatchTypeOK
    <2>3. deficit' \in [Provider -> Nat]
      BY <2>1, <2>2 DEF BatchTypeOK
    <2>4. batch' = Append(batch, p) /\ batch \in Seq(Provider) /\ Len(batch) < Budget
      BY <1>2 DEF Visit, Room, BatchTypeOK
    <2>5. batch' \in Seq(Provider) /\ Len(batch') = Len(batch) + 1
      BY <2>4
    <2>6. BatchTypeOK'
      BY <2>2, <2>3, <2>5 DEF BatchTypeOK
    <2>7. Len(batch') <= Budget
      BY <2>4, <2>5
    <2> QED
      BY <1>2, <2>6, <2>7, VisitKeepsLevel
  <1>3. CASE UNCHANGED batchVars
    BY <1>3 DEF batchVars, BatchTypeOK, Level, Given
  <1> QED
    BY <1>1, <1>2, <1>3 DEF BatchNext

LEMMA BatchInvariant == BatchSpec => []BatchInv
  <1>1. BatchInit => BatchInv
    BY PlanAssumption DEF BatchInit, BatchInv, BatchTypeOK, Level, Given
  <1> QED
    BY <1>1, BatchInvStep, PTL DEF BatchSpec

\* A tick never plans more creates than POOL_MAX_CREATES_PER_TICK, nor more on a
\* provider than it lacks, whatever the targets are.
THEOREM BatchIsBounded == BatchSpec => []WithinBudget
  <1>1. BatchInv => WithinBudget
    BY DEF BatchInv, WithinBudget, BatchTypeOK, Level
  <1> QED
    BY <1>1, BatchInvariant, PTL

\* No provider that still lacks hosts is ever more than one create behind another:
\* a large deficit starves nobody, for any number of providers and any order.
THEOREM BatchIsFair == BatchSpec => []EvenlySpread
  <1>1. BatchInv => EvenlySpread
    <2> SUFFICES ASSUME BatchInv, NEW p \in Provider, NEW q \in Provider, deficit[p] > 0
                 PROVE  Given(q) <= Given(p) + 1
      BY DEF EvenlySpread
    <2>1. Given(p) \in Int /\ Given(q) \in Int
      BY DEF BatchInv, BatchTypeOK, Given
    <2>2. CASE p \in pass
      BY <2>2 DEF BatchInv, Level
    <2>3. CASE p \notin pass
      BY <2>1, <2>3 DEF BatchInv, Level
    <2> QED
      BY <2>2, <2>3
  <1> QED
    BY <1>1, BatchInvariant, PTL

\* The hosts of the round robin that have been planned.
Served == {x \in Slots(need) : x[1] <= Given(x[2])}

\* The batch is a beginning of the round robin, and those that the pass has served come
\* before those it is still to serve.
PlanInv ==
    /\ Len(batch) = Cardinality(Served)
    /\ \A i \in 1..Len(batch) : batch[i] = SlotsInOrder(rank, need)[i][2]
    /\ \A p \in pass, q \in Provider \ pass : Given(q) = Given(p) + 1 => rank[q] < rank[p]

\* What the next host of a provider is: all that is before it in the round robin has been
\* planned, and nothing else.
LEMMA ServedIsAhead ==
    ASSUME BatchInv, PlanInv, NEW p \in Provider, Visit(p)
    PROVE  /\ <<Given(p) + 1, p>> \in Slots(need)
           /\ Ahead(Slots(need), SlotOrder(rank, need), <<Given(p) + 1, p>>) = Served
<1> DEFINE s == <<Given(p) + 1, p>>
<1>1. /\ rank \in Rankings /\ need \in Needs
      /\ \A q \in Provider : /\ Given(q) \in Nat /\ need[q] \in Nat /\ rank[q] \in Int
                            /\ deficit[q] \in Nat /\ Given(q) = need[q] - deficit[q]
  BY DEF BatchInv, BatchTypeOK, Level, Given, Orders, Rankings, Needs
<1>2. p \in pass /\ pass \subseteq Provider /\ \A q \in pass : p # q => rank[p] < rank[q]
  BY DEF Visit, Before, BatchInv, BatchTypeOK
<1>3. deficit[p] > 0 /\ Given(p) + 1 \in 1..need[p]
  BY <1>1, <1>2 DEF BatchInv, Level
<1>4. s \in Slots(need) /\ s[1] = Given(p) + 1 /\ s[2] = p
  BY <1>1, <1>3, SlotsAreFinite
<1> HIDE DEF s
<1>5. ASSUME NEW x \in Slots(need)
      PROVE  x[1] <= Given(x[2]) <=> Earlier(rank, x, s)
  <2> DEFINE q == x[2]
             k == x[1]
  <2>1. q \in Provider /\ k \in 1..need[q] /\ k \in Nat
    BY <1>1, SlotsAreFinite
  <2>2. Earlier(rank, x, s) <=> k < Given(p) + 1 \/ (k = Given(p) + 1 /\ rank[q] < rank[p])
    BY <1>4 DEF Earlier
  <2> HIDE DEF q, k
  <2>3. Given(q) <= Given(p) + 1 /\ Given(p) \in Nat /\ Given(q) \in Nat
    BY <1>1, <1>2, <2>1 DEF BatchInv, Level
  <2>4. ASSUME k <= Given(q)
        PROVE  k < Given(p) + 1 \/ (k = Given(p) + 1 /\ rank[q] < rank[p])
    <3>1. CASE k = Given(p) + 1
      <4>1. Given(q) = Given(p) + 1
        BY <2>1, <2>3, <2>4, <3>1
      <4>2. q \notin pass
        BY <1>2, <2>3, <4>1 DEF BatchInv, Level
      <4> QED BY <1>2, <2>1, <3>1, <4>1, <4>2 DEF PlanInv
    <3> QED BY <2>1, <2>3, <2>4, <3>1
  <2>5. ASSUME k < Given(p) + 1 \/ (k = Given(p) + 1 /\ rank[q] < rank[p])
        PROVE  k <= Given(q)
    <3>1. CASE q \in pass
      <4>1. Given(q) = Given(p)
        BY <1>2, <3>1 DEF BatchInv, Level
      <4>2. ~(rank[q] < rank[p])
        BY <1>1, <1>2, <2>1, <3>1
      <4> QED BY <2>1, <2>3, <2>5, <4>1, <4>2
    <3>2. CASE q \notin pass /\ deficit[q] > 0
      <4>1. Given(q) = Given(p) + 1
        BY <1>2, <2>1, <3>2 DEF BatchInv, Level
      <4> QED BY <2>1, <2>3, <2>5, <4>1
    <3>3. CASE ~(deficit[q] > 0)
      <4>1. Given(q) = need[q]
        BY <1>1, <2>1, <3>3
      <4> QED BY <1>1, <2>1, <4>1
    <3> QED BY <3>1, <3>2, <3>3
  <2>6. k <= Given(q) <=> Earlier(rank, x, s)
    BY <2>2, <2>4, <2>5
  <2> QED BY <2>6 DEF q, k
<1>6. \A x \in Slots(need) : <<x, s>> \in SlotOrder(rank, need) <=> Earlier(rank, x, s)
  BY <1>4 DEF SlotOrder
<1>7. Ahead(Slots(need), SlotOrder(rank, need), s) = Served
  BY <1>5, <1>6 DEF Ahead, Served
<1> QED BY <1>4, <1>7 DEF s

LEMMA VisitKeepsPlan ==
    ASSUME BatchInv, PlanInv, NEW p \in Provider, Visit(p)
    PROVE  PlanInv'
<1> DEFINE s == <<Given(p) + 1, p>>
           S == Slots(need)
           all == SlotsInOrder(rank, need)
<1>1. /\ rank \in Rankings /\ need \in Needs /\ rank' = rank /\ need' = need
      /\ p \in pass /\ pass' = pass \ {p} /\ pass \subseteq Provider
      /\ \A q \in pass : p # q => rank[p] < rank[q]
  BY DEF Visit, LeavesPass, Before, BatchInv, BatchTypeOK, Orders, Needs
<1>2. /\ \A q \in Provider : Given(q) \in Nat /\ need[q] \in Nat
      /\ Given(p)' = Given(p) + 1 /\ \A q \in Provider \ {p} : Given(q)' = Given(q)
  BY DEF Visit, BatchInv, BatchTypeOK, Level, Given
<1>3. /\ batch \in Seq(Provider) /\ Len(batch) \in Nat /\ Len(batch') = Len(batch) + 1
      /\ batch'[Len(batch) + 1] = p /\ \A i \in 1..Len(batch) : batch'[i] = batch[i]
  BY DEF Visit, BatchInv, BatchTypeOK
<1>4. s \in S /\ Ahead(S, SlotOrder(rank, need), s) = Served /\ IsFiniteSet(S)
  BY <1>1, ServedIsAhead, SlotsAreFinite
<1>5. all[Len(batch) + 1] = s
  <2>1. all = InOrder(S, SlotOrder(rank, need))
    BY DEF SlotsInOrder, SlotOrder
  <2>2. StrictOrder(S, SlotOrder(rank, need))
    BY <1>1, SlotsAreOrdered
  <2>3. Place(S, SlotOrder(rank, need), s) = Len(batch) + 1
    BY <1>4 DEF Place, PlanInv
  <2> HIDE DEF S, s, all
  <2> QED BY <1>4, <2>1, <2>2, <2>3, InOrderLists
<1>6. \A i \in 1..Len(batch') : batch'[i] = all[i][2]
  <2>1. \A i \in 1..Len(batch') : i \in 1..Len(batch) \/ i = Len(batch) + 1
    BY <1>3
  <2>2. all[Len(batch) + 1][2] = p
    BY <1>5
  <2> HIDE DEF all
  <2> QED BY <1>3, <2>1, <2>2 DEF PlanInv, all
<1>7. Served' = Served \cup {s} /\ s \notin Served
  <2>1. \A x \in S : x = <<x[1], x[2]>> /\ x[2] \in Provider /\ x[1] \in Nat
    BY <1>1, SlotsAreFinite DEF Needs
  <2>2. s[1] = Given(p) + 1 /\ s[2] = p
    OBVIOUS
  <2>3. Served' = {x \in S : x[1] <= Given(x[2])'}
    BY <1>1 DEF Served, Slots
  <2>4. ASSUME NEW x \in S PROVE x[1] <= Given(x[2])' <=> x[1] <= Given(x[2]) \/ x = s
    <3>1. CASE x[2] = p
      <4>1. x = s <=> x[1] = Given(p) + 1
        BY <2>1, <2>2, <3>1
      <4>2. /\ Given(x[2])' = Given(p) + 1 /\ Given(x[2]) = Given(p)
            /\ Given(p) \in Nat /\ x[1] \in Nat
        BY <1>2, <2>1, <3>1
      <4> QED BY <4>1, <4>2
    <3>2. CASE x[2] # p
      <4>1. x # s
        BY <2>2, <3>2
      <4> QED BY <1>2, <2>1, <3>2, <4>1
    <3> QED BY <3>1, <3>2
  <2>5. Given(p) \in Nat
    BY <1>2
  <2>6. s \notin Served
    BY <2>2, <2>5 DEF Served
  <2>7. Served = {x \in S : x[1] <= Given(x[2])}
    BY DEF Served
  <2> HIDE DEF S, s
  <2> QED BY <1>4, <2>3, <2>4, <2>6, <2>7
<1>8. Len(batch') = Cardinality(Served')
  <2>1. Served \in SUBSET S
    BY DEF Served
  <2>2. IsFiniteSet(Served) /\ Cardinality(Served) \in Nat
    BY <1>4, <2>1, FS_Subset, FS_CardinalityType
  <2>3. Cardinality(Served') = Cardinality(Served) + 1
    BY <1>7, <2>2, FS_AddElement
  <2> QED BY <1>3, <2>3 DEF PlanInv
<1>9. ASSUME NEW a \in pass', NEW q \in Provider \ pass', Given(q)' = Given(a)' + 1
      PROVE  rank[q] < rank[a]
  <2>1. a \in pass /\ a # p /\ Given(a)' = Given(a) /\ rank[p] < rank[a]
    BY <1>1, <1>2
  <2>2. CASE q = p
    BY <2>1, <2>2
  <2>3. CASE q # p
    <3>1. q \in Provider \ pass /\ Given(q)' = Given(q)
      BY <1>1, <1>2, <2>3
    <3> QED BY <1>9, <2>1, <3>1 DEF PlanInv
  <2> QED BY <2>2, <2>3
<1>10. SlotsInOrder(rank, need)' = all
  BY <1>1 DEF SlotsInOrder, Slots, Earlier
<1> QED BY <1>1, <1>6, <1>8, <1>9, <1>10 DEF PlanInv

LEMMA PlanInvStep == BatchInv /\ PlanInv /\ [BatchNext]_batchVars => PlanInv'
<1> SUFFICES ASSUME BatchInv, PlanInv, [BatchNext]_batchVars PROVE PlanInv'
  OBVIOUS
<1>1. CASE StartPass
  <2>1. /\ UNCHANGED <<rank, need, deficit, batch>> /\ pass = {}
        /\ pass' = {q \in Provider : deficit[q] > 0}
    BY <1>1 DEF StartPass, Underfilled
  <2>2. \A q \in Provider : Given(q)' = Given(q) /\ Given(q) \in Nat
    BY <2>1 DEF Given, BatchInv, BatchTypeOK, Level
  <2>3. \A p \in pass', q \in Provider : Given(q) # Given(p) + 1
    <3>1. \A p \in pass', q \in Provider : Given(q) <= Given(p)
      BY <2>1 DEF BatchInv, Level
    <3> QED BY <2>1, <2>2, <3>1
  <2>4. Served' = Served
    BY <2>1 DEF Served, Given, Slots
  <2>5. SlotsInOrder(rank, need)' = SlotsInOrder(rank, need)
    BY <2>1 DEF SlotsInOrder, Slots, Earlier
  <2>6. \A p \in pass', q \in Provider \ pass' : Given(q)' = Given(p)' + 1 => rank'[q] < rank'[p]
    BY <2>1, <2>2, <2>3
  <2> QED BY <2>1, <2>4, <2>5, <2>6 DEF PlanInv
<1>2. CASE UNCHANGED batchVars
  <2>1. UNCHANGED <<rank, need, deficit, pass, batch>>
    BY <1>2 DEF batchVars
  <2>2. Served' = Served /\ \A q \in Provider : Given(q)' = Given(q)
    BY <2>1 DEF Served, Given, Slots
  <2>3. SlotsInOrder(rank, need)' = SlotsInOrder(rank, need)
    BY <2>1 DEF SlotsInOrder, Slots, Earlier
  <2>4. pass \subseteq Provider
    BY DEF BatchInv, BatchTypeOK
  <2> QED BY <2>1, <2>2, <2>3, <2>4 DEF PlanInv
<1> QED BY <1>1, <1>2, VisitKeepsPlan DEF BatchNext

\* The loop of _maintain gives the round robin, which HostPool takes as the plan, for any
\* providers, any budget, any order and any deficits (pool.py:102-111).
THEOREM LoopComputesPlan == BatchSpec => []LoopIsRoundRobin
<1>1. BatchInit => BatchInv /\ PlanInv
  <2> SUFFICES ASSUME BatchInit PROVE BatchInv /\ PlanInv
    OBVIOUS
  <2>1. BatchInv /\ batch = <<>> /\ pass = {} /\ need \in Needs /\ deficit = need
    BY PlanAssumption DEF BatchInit, BatchInv, BatchTypeOK, Level, Given, Needs
  <2>2. Served = {}
    <3>1. \A x \in Slots(need) : x[2] \in Provider /\ x[1] \in 1..need[x[2]] /\ need[x[2]] \in Nat
      BY <2>1, SlotsAreFinite DEF Needs
    <3>2. \A x \in Slots(need) : Given(x[2]) = 0
      BY <2>1, <3>1 DEF Given
    <3> QED BY <3>1, <3>2 DEF Served
  <2> QED BY <2>1, <2>2, FS_EmptySet DEF PlanInv
<1>2. BatchInv /\ PlanInv /\ [BatchNext]_batchVars => (BatchInv /\ PlanInv)'
  BY BatchInvStep, PlanInvStep
<1>3. BatchInv /\ PlanInv => LoopIsRoundRobin
  <2> SUFFICES ASSUME BatchInv, PlanInv, Done PROVE batch = RoundRobin(rank, need)
    BY DEF LoopIsRoundRobin
  <2>1. need \in Needs /\ batch \in Seq(Provider) /\ Len(batch) \in Nat /\ Len(batch) <= Budget
    BY DEF BatchInv, BatchTypeOK, Needs
  <2>2. IsFiniteSet(Slots(need)) /\ Cardinality(Slots(need)) \in Nat
    BY <2>1, SlotsAreFinite
  <2>3. Len(batch) <= Cardinality(Slots(need))
    <3>1. Served \in SUBSET Slots(need)
      BY DEF Served
    <3> QED BY <2>2, <3>1, FS_Subset DEF PlanInv
  <2>4. Len(batch) = Budget \/ Len(batch) = Cardinality(Slots(need))
    <3>1. CASE Len(batch) >= Budget
      BY <2>1, <3>1, PlanAssumption
    <3>2. CASE Underfilled = {}
      <4>1. \A q \in Provider : Given(q) = need[q]
        BY <3>2 DEF Underfilled, Given, BatchInv, BatchTypeOK
      <4>2. \A x \in Slots(need) : x[1] <= Given(x[2])
        BY <2>1, <4>1, SlotsAreFinite DEF Needs
      <4>3. Served = Slots(need)
        BY <4>2 DEF Served
      <4> QED BY <4>3 DEF PlanInv
    <3> QED BY <3>1, <3>2 DEF Done
  <2>5. Len(batch) = PlanSize(need)
    BY <2>1, <2>2, <2>3, <2>4, PlanAssumption DEF PlanSize
  <2>6. batch = [i \in 1..Len(batch) |-> batch[i]]
    BY <2>1
  <2> QED BY <2>5, <2>6 DEF PlanInv, RoundRobin
<1> QED BY <1>1, <1>2, <1>3, PTL DEF BatchSpec

-----------------------------------------------------------------------------
(* Overlapping ticks (HostPool).                                           *)

\* What a tick has still to create on a provider, one number a host.  Before it has made
\* its plan this is as much as it may plan; after that the places in what is left of the
\* plan, from its end, so that a create takes one of them away.
Planned(t, p) ==
    IF pc[t] = "list"
    THEN 1..(IF Budget < Shortage(t, p) THEN Budget ELSE Shortage(t, p))
    ELSE {i \in 1..Len(todo[t]) : todo[t][Len(todo[t]) + 1 - i] = p}

\* The sum of the sets of P, for ticks with no more than a batch each.
Cells(P) == {x \in Tick \X (1..Budget) : x[2] \in P[x[1]]}

Pending(p) == Cells([t \in Tick |-> Planned(t, p)])

\* The members that no request has claimed and given back.
Lasting(p) == Members(p) \ returned

\* A provider has room for all that ticks have still to create on it: a tick plans no more
\* than lacks to the target, and whatever it did not count was planned by the others.
RoomInv ==
    \A p \in Provider :
        Cardinality(Lasting(p)) + Cardinality(Pending(p))
            <= Target[p] + (Cardinality(Tick) - 1) * Budget

TickOK(t) ==
    /\ Len(todo[t]) <= Budget
    /\ pc[t] \in {"idle", "list"} => todo[t] = <<>>

TicksOK == \A t \in Tick : TickOK(t)

PoolBase == TypeOK /\ TicksOK

Batches == [Tick -> SUBSET (1..Budget)]

LEMMA CellsSplit ==
    ASSUME NEW P \in Batches, NEW t \in Tick
    PROVE  LET rest == {x \in Cells(P) : x[1] # t} IN
           /\ IsFiniteSet(Cells(P)) /\ IsFiniteSet(P[t])
           /\ Cardinality(rest) \in Nat /\ Cardinality(P[t]) \in Nat
           /\ Cardinality(Cells(P)) = Cardinality(rest) + Cardinality(P[t])
           /\ Cardinality(rest) <= (Cardinality(Tick) - 1) * Budget
<1> DEFINE rest == {x \in Cells(P) : x[1] # t}
           own == {t} \X P[t]
<1>1. /\ Budget \in Nat /\ IsFiniteSet(Tick)
      /\ IsFiniteSet(1..Budget) /\ Cardinality(1..Budget) = Budget
  BY PlanAssumption, PoolAssumption, FS_Interval
<1>2. IsFiniteSet(P[t]) /\ Cardinality(P[t]) \in Nat
  <2>1. P[t] \in SUBSET (1..Budget)
    BY DEF Batches
  <2> QED BY <1>1, <2>1, FS_Subset, FS_CardinalityType
<1>3. IsFiniteSet(own) /\ Cardinality(own) = Cardinality(P[t])
  <2>1. IsFiniteSet({t}) /\ Cardinality({t}) = 1
    BY FS_Singleton
  <2>2. IsFiniteSet(own) /\ Cardinality(own) = Cardinality({t}) * Cardinality(P[t])
    BY <1>2, <2>1, FS_Product
  <2> QED BY <1>2, <2>1, <2>2
<1>4. /\ IsFiniteSet(rest) /\ Cardinality(rest) \in Nat
      /\ Cardinality(rest) <= (Cardinality(Tick) - 1) * Budget
  <2> DEFINE others == Tick \ {t}
  <2>1. IsFiniteSet(others) /\ Cardinality(others) = Cardinality(Tick) - 1
    BY <1>1, FS_RemoveElement
  <2>2. /\ IsFiniteSet(others \X (1..Budget))
        /\ Cardinality(others \X (1..Budget)) = Cardinality(others) * Budget
    BY <1>1, <2>1, FS_Product
  <2>3. rest \in SUBSET (others \X (1..Budget))
    BY DEF Cells
  <2>4. IsFiniteSet(rest) /\ Cardinality(rest) <= Cardinality(others \X (1..Budget))
    BY <2>2, <2>3, FS_Subset
  <2>5. Cardinality(rest) \in Nat
    BY <2>4, FS_CardinalityType
  <2> QED BY <2>1, <2>2, <2>4, <2>5
<1>5. Cells(P) = rest \cup own
  BY DEF Cells, Batches
<1>6. rest \cap own = {}
  OBVIOUS
<1>7. /\ IsFiniteSet(Cells(P))
      /\ Cardinality(Cells(P)) = Cardinality(rest) + Cardinality(own) - Cardinality(rest \cap own)
  <2> HIDE DEF rest, own
  <2> QED BY <1>3, <1>4, <1>5, FS_Union
<1>8. Cardinality(rest \cap own) = 0
  BY <1>6, FS_EmptySet
<1> QED BY <1>2, <1>3, <1>4, <1>7, <1>8

\* One tick's set changes.
LEMMA CellsChange ==
    ASSUME NEW P \in Batches, NEW Q \in Batches, NEW t \in Tick,
           \A s \in Tick \ {t} : Q[s] = P[s]
    PROVE  /\ Cardinality(P[t]) \in Nat /\ Cardinality(Q[t]) \in Nat
           /\ Cardinality(Cells(P)) \in Nat /\ Cardinality(Cells(Q)) \in Nat
           /\ Cardinality(Cells(Q)) = Cardinality(Cells(P)) - Cardinality(P[t]) + Cardinality(Q[t])
           /\ Cardinality(Cells(Q)) <= (Cardinality(Tick) - 1) * Budget + Cardinality(Q[t])
<1> DEFINE rest == {x \in Cells(P) : x[1] # t}
<1>1. rest = {x \in Cells(Q) : x[1] # t}
  BY DEF Cells
<1>2. /\ Cardinality(rest) \in Nat /\ Cardinality(P[t]) \in Nat
      /\ Cardinality(Cells(P)) = Cardinality(rest) + Cardinality(P[t])
      /\ Cardinality(rest) <= (Cardinality(Tick) - 1) * Budget
  BY CellsSplit
<1>3. /\ Cardinality(Q[t]) \in Nat
      /\ Cardinality(Cells(Q)) = Cardinality(rest) + Cardinality(Q[t])
  BY <1>1, CellsSplit
<1> HIDE DEF rest
<1>4. (Cardinality(Tick) - 1) * Budget \in Int
  <2>1. Cardinality(Tick) \in Nat /\ Budget \in Nat
    BY PoolAssumption, PlanAssumption, FS_CardinalityType
  <2> QED BY <2>1
<1> QED BY <1>2, <1>3, <1>4

\* Nobody's set grows.
LEMMA CellsShrink ==
    ASSUME NEW P \in Batches, NEW Q \in Batches, \A s \in Tick : Q[s] \subseteq P[s]
    PROVE  /\ Cardinality(Cells(P)) \in Nat /\ Cardinality(Cells(Q)) \in Nat
           /\ Cardinality(Cells(Q)) <= Cardinality(Cells(P))
<1>1. PICK t \in Tick : TRUE
  BY PoolAssumption
<1>2. IsFiniteSet(Cells(P)) /\ IsFiniteSet(Cells(Q))
  BY <1>1, CellsSplit
<1>3. Cells(Q) \in SUBSET Cells(P)
  BY DEF Cells
<1> QED BY <1>2, <1>3, FS_Subset, FS_CardinalityType

LEMMA PlannedIsABatch ==
    ASSUME TypeOK, TicksOK, NEW p \in Provider
    PROVE  [t \in Tick |-> Planned(t, p)] \in Batches
<1> SUFFICES ASSUME NEW t \in Tick PROVE Planned(t, p) \subseteq 1..Budget
  BY DEF Batches
<1>1. Shortage(t, p) \in Nat
  BY PoolAssumption DEF Shortage, TypeOK
<1>2. Len(todo[t]) \in Nat /\ Len(todo[t]) <= Budget
  BY DEF TicksOK, TickOK, TypeOK
<1> QED BY <1>1, <1>2, PlanAssumption DEF Planned

LEMMA NextPlannedIsABatch ==
    ASSUME TypeOK', TicksOK', NEW p \in Provider
    PROVE  [t \in Tick |-> Planned(t, p)'] \in Batches
<1> SUFFICES ASSUME NEW t \in Tick PROVE Planned(t, p)' \subseteq 1..Budget
  BY DEF Batches
<1>1. Shortage(t, p)' \in Nat
  BY PoolAssumption DEF Shortage, TypeOK
<1>2. Len(todo'[t]) \in Nat /\ Len(todo'[t]) <= Budget
  BY DEF TicksOK, TickOK, TypeOK
<1> QED BY <1>1, <1>2, PlanAssumption DEF Planned

LEMMA HostsAreFinite ==
    ASSUME NEW S \in SUBSET Host
    PROVE  IsFiniteSet(S) /\ Cardinality(S) \in Nat
BY PoolAssumption, FS_Subset, FS_CardinalityType

LEMMA OneMore ==
    ASSUME NEW S, IsFiniteSet(S), NEW x
    PROVE  /\ IsFiniteSet(S \cup {x}) /\ Cardinality(S \cup {x}) \in Nat
           /\ Cardinality(S \cup {x}) <= Cardinality(S) + 1
<1>1. Cardinality(S) \in Nat
  BY FS_CardinalityType
<1>2. CASE x \in S
  <2>1. S \cup {x} = S
    BY <1>2
  <2>2. Cardinality(S) <= Cardinality(S) + 1
    BY <1>1
  <2> QED BY <1>1, <2>1, <2>2
<1>3. CASE x \notin S
  BY <1>1, <1>3, FS_AddElement
<1> QED BY <1>2, <1>3

\* Steps that make no member and plan nothing.
LEMMA RoomShrinks ==
    ASSUME TypeOK, TicksOK, TypeOK', TicksOK', RoomInv,
           \A p \in Provider : Lasting(p)' \subseteq Lasting(p),
           \A t \in Tick, p \in Provider : Planned(t, p)' \subseteq Planned(t, p)
    PROVE  RoomInv'
<1> SUFFICES ASSUME NEW p \in Provider
             PROVE  Cardinality(Lasting(p)') + Cardinality(Pending(p)')
                        <= Target[p] + (Cardinality(Tick) - 1) * Budget
  BY DEF RoomInv
<1> DEFINE P == [t \in Tick |-> Planned(t, p)]
           Q == [t \in Tick |-> Planned(t, p)']
<1>1. P \in Batches /\ Q \in Batches /\ \A t \in Tick : Q[t] \subseteq P[t]
  BY PlannedIsABatch, NextPlannedIsABatch
<1>2. Pending(p) = Cells(P) /\ Pending(p)' = Cells(Q)
  BY DEF Pending, Cells
<1> HIDE DEF P, Q
<1>3. /\ Cardinality(Pending(p)) \in Nat /\ Cardinality(Pending(p)') \in Nat
      /\ Cardinality(Pending(p)') <= Cardinality(Pending(p))
  BY <1>1, <1>2, CellsShrink
<1>4. Lasting(p) \in SUBSET Host /\ Lasting(p)' \in SUBSET Lasting(p)
  BY DEF Lasting, Members, Warm, Rows
<1>5. /\ Cardinality(Lasting(p)) \in Nat /\ Cardinality(Lasting(p)') \in Nat
      /\ Cardinality(Lasting(p)') <= Cardinality(Lasting(p))
  BY <1>4, HostsAreFinite, FS_Subset, FS_CardinalityType
<1>6. /\ (Cardinality(Tick) - 1) * Budget \in Int /\ Target[p] \in Nat
      /\ Cardinality(Lasting(p)) + Cardinality(Pending(p))
             <= Target[p] + (Cardinality(Tick) - 1) * Budget
  <2>1. Cardinality(Tick) \in Nat /\ Budget \in Nat
    BY PoolAssumption, PlanAssumption, FS_CardinalityType
  <2>2. (Cardinality(Tick) - 1) * Budget \in Int
    BY <2>1
  <2> QED BY <2>2, PoolAssumption DEF RoomInv
<1> QED BY <1>3, <1>5, <1>6

-----------------------------------------------------------------------------
(* What steps do to the rows and to the ticks.                             *)

RowTypes ==
    /\ older \subseteq Host \X Host
    /\ state \in [Host -> States]
    /\ on \in [Host -> Provider]
    /\ returned \subseteq Host

\* What a step that drops a row may disturb of the ticks.
ListTypes == excess \in [Tick -> SUBSET Host] /\ making \in [Tick -> Host \cup {NoHost}]

PlanTypes ==
    /\ pc \in [Tick -> {"idle", "list", "create", "making"}]
    /\ count \in [Tick -> [Provider -> Nat]]
    /\ todo \in [Tick -> Seq(Provider)]
    /\ failures \in [Tick -> 0..(MaxFailures - 1)]

LEMMA TypeParts == TypeOK <=> RowTypes /\ ListTypes /\ PlanTypes
BY DEF TypeOK, RowTypes, ListTypes, PlanTypes

LEMMA NextTypeParts == TypeOK' <=> RowTypes' /\ ListTypes' /\ PlanTypes'
BY DEF TypeOK, RowTypes, ListTypes, PlanTypes

\* Nothing but what waits to be created makes a provider's share grow.
NoneAdded == \A p \in Provider : Lasting(p)' \subseteq Lasting(p)

LEMMA DropRows ==
    ASSUME TypeOK, NEW h, Drop(h)
    PROVE  RowTypes' /\ ListTypes' /\ NoneAdded
<1>1. Nowhere \in Provider
  BY PlanAssumption DEF Nowhere
<1>2. RowTypes'
  BY <1>1 DEF Drop, RowTypes, TypeOK, States
<1>3. ListTypes'
  BY DEF Drop, ListTypes, TypeOK
<1>4. Warm' \subseteq Warm \ {h} /\ \A g \in Warm' : on'[g] = on[g]
  BY DEF Drop, TypeOK, Rows, Warm
<1>5. NoneAdded
  BY <1>4 DEF NoneAdded, Lasting, Members, Drop
<1> QED BY <1>2, <1>3, <1>5

LEMMA InsertRows ==
    ASSUME TypeOK, NEW h \in Host, NEW p \in Provider, state[h] = "free",
           state' = [state EXCEPT ![h] = "creating"], on' = [on EXCEPT ![h] = p],
           older' \subseteq Host \X Host, returned' = returned
    PROVE  /\ RowTypes'
           /\ Lasting(p)' \subseteq Lasting(p) \cup {h}
           /\ \A q \in Provider \ {p} : Lasting(q)' \subseteq Lasting(q)
<1>1. RowTypes'
  BY DEF RowTypes, TypeOK, States
<1>2. Warm' = Warm \cup {h} /\ on'[h] = p /\ \A g \in Warm \ {h} : on'[g] = on[g]
  BY DEF TypeOK, Rows, Warm
<1> QED BY <1>1, <1>2 DEF Lasting, Members

LEMMA SameRows ==
    ASSUME TypeOK, UNCHANGED rows
    PROVE  RowTypes' /\ NoneAdded
<1>1. UNCHANGED <<older, state, on, returned>>
  BY DEF rows
<1>2. Warm' = Warm
  BY <1>1 DEF Rows, Warm
<1>3. \A p \in Provider : Lasting(p)' = Lasting(p)
  BY <1>1, <1>2 DEF Lasting, Members
<1> QED BY <1>1, <1>3 DEF RowTypes, TypeOK, NoneAdded

Alone(t) ==
    \A s \in Tick \ {t} :
        /\ pc'[s] = pc[s] /\ todo'[s] = todo[s]
        /\ count'[s] = count[s] /\ failures'[s] = failures[s]

LEMMA OthersPlan ==
    ASSUME TicksOK, NEW t \in Tick, Alone(t)
    PROVE  /\ \A s \in Tick \ {t}, p \in Provider : Planned(s, p)' = Planned(s, p)
           /\ TickOK(t)' => TicksOK'
<1>1. \A s \in Tick \ {t}, p \in Provider : Planned(s, p)' = Planned(s, p)
  BY DEF Alone, Planned, Shortage
<1>2. TickOK(t)' => TicksOK'
  BY DEF Alone, TicksOK, TickOK
<1> QED BY <1>1, <1>2

\* A plan gets shorter from its front.
LEMMA PlanShrinks ==
    ASSUME TypeOK, NEW t \in Tick, pc'[t] # "list",
           \/ todo'[t] = <<>>
           \/ pc[t] # "list" /\ todo'[t] = todo[t]
           \/ pc[t] # "list" /\ todo[t] # <<>> /\ todo'[t] = Tail(todo[t])
    PROVE  \A p \in Provider : Planned(t, p)' \subseteq Planned(t, p)
<1> SUFFICES ASSUME NEW p \in Provider PROVE Planned(t, p)' \subseteq Planned(t, p)
  OBVIOUS
<1>1. Planned(t, p)' = {i \in 1..Len(todo'[t]) : todo'[t][Len(todo'[t]) + 1 - i] = p}
  BY DEF Planned
<1>2. CASE todo'[t] = <<>>
  BY <1>1, <1>2
<1>3. CASE pc[t] # "list" /\ todo'[t] = todo[t]
  BY <1>1, <1>3 DEF Planned
<1>4. CASE pc[t] # "list" /\ todo[t] # <<>> /\ todo'[t] = Tail(todo[t])
  <2> DEFINE plan == todo[t]
             n == Len(plan)
  <2>1. plan \in Seq(Provider) /\ n \in Nat \ {0} /\ Len(Tail(plan)) = n - 1
    BY <1>4 DEF TypeOK
  <2>2. \A i \in 1..(n - 1) : n - i \in 1..(n - 1) /\ Tail(plan)[n - i] = plan[n + 1 - i]
    BY <2>1
  <2>3. Planned(t, p) = {i \in 1..n : plan[n + 1 - i] = p}
    BY <1>4 DEF Planned
  <2>4. Planned(t, p)' = {i \in 1..(n - 1) : Tail(plan)[n - 1 + 1 - i] = p}
    BY <1>1, <1>4, <2>1
  <2> HIDE DEF plan, n
  <2>5. \A i \in 1..(n - 1) : i \in 1..n /\ n - 1 + 1 - i = n - i
    BY <2>1
  <2> QED BY <2>2, <2>3, <2>4, <2>5
<1> QED BY <1>2, <1>3, <1>4

LEMMA DonePlansNothing ==
    ASSUME TypeOK, NEW t \in Tick, pc[t] # "list", todo[t] = <<>>
    PROVE  \A p \in Provider : Planned(t, p) = {}
BY DEF Planned

-----------------------------------------------------------------------------
(* The steps.                                                              *)

\* Steps that take something off the plan of a tick, or leave it alone, and add no row.
Wanes(t) ==
    /\ PlanTypes' /\ Alone(t) /\ TickOK(t)' /\ pc'[t] # "list"
    /\ \/ todo'[t] = <<>>
       \/ pc[t] # "list" /\ todo'[t] = todo[t]
       \/ pc[t] # "list" /\ todo[t] # <<>> /\ todo'[t] = Tail(todo[t])

LEMMA MadeWanes ==
    ASSUME PoolBase, NEW t \in Tick, Made(t)
    PROVE  Wanes(t)
<1>1. /\ pc[t] = "making" /\ failures' = [failures EXCEPT ![t] = 0]
      /\ pc' = [pc EXCEPT ![t] = "create"] /\ UNCHANGED <<count, todo>>
  BY DEF Made
<1>2. PlanTypes'
  BY <1>1, PoolAssumption DEF PoolBase, TypeOK, PlanTypes
<1>3. pc'[t] = "create" /\ todo'[t] = todo[t]
  BY <1>1 DEF PoolBase, TypeOK
<1>4. Alone(t)
  BY <1>1 DEF Alone, PoolBase, TypeOK
<1>5. TickOK(t)'
  BY <1>3 DEF TickOK, TicksOK, PoolBase
<1> QED BY <1>1, <1>2, <1>3, <1>4, <1>5 DEF Wanes

\* A failed create leaves the rest of the plan, or nothing.
LEMMA FailedLeaves ==
    ASSUME PoolBase, NEW t \in Tick, NEW rest \in Seq(Provider), Failed(t, rest)
    PROVE  /\ failures' \in [Tick -> 0..(MaxFailures - 1)] /\ todo' \in [Tick -> Seq(Provider)]
           /\ todo'[t] = <<>> \/ todo'[t] = rest
           /\ \A s \in Tick \ {t} : todo'[s] = todo[s] /\ failures'[s] = failures[s]
<1> DEFINE left == IF failures[t] + 1 >= MaxFailures THEN <<>> ELSE rest
           n == IF left = <<>> THEN 0 ELSE failures[t] + 1
<1>1. todo' = [todo EXCEPT ![t] = left] /\ failures' = [failures EXCEPT ![t] = n]
  BY DEF Failed, PoolBase, TypeOK
<1>2. left \in Seq(Provider) /\ (left = <<>> \/ left = rest)
  OBVIOUS
<1>3. failures[t] \in 0..(MaxFailures - 1) /\ MaxFailures \in Nat \ {0}
  BY PoolAssumption DEF PoolBase, TypeOK
<1>4. n \in 0..(MaxFailures - 1)
  BY <1>3
<1> HIDE DEF left, n
<1> QED BY <1>1, <1>2, <1>4 DEF PoolBase, TypeOK

LEMMA RefusedWanes ==
    ASSUME PoolBase, NEW t \in Tick, Refused(t)
    PROVE  Wanes(t)
<1>1. /\ pc[t] = "create" /\ todo[t] # <<>> /\ UNCHANGED <<pc, count>>
      /\ Failed(t, Tail(todo[t]))
  BY DEF Refused
<1>2. /\ Tail(todo[t]) \in Seq(Provider) /\ Len(todo[t]) <= Budget /\ Budget \in Nat
      /\ Len(Tail(todo[t])) = Len(todo[t]) - 1 /\ Len(todo[t]) \in Nat
  BY <1>1, PlanAssumption DEF PoolBase, TypeOK, TicksOK, TickOK
<1>3. /\ failures' \in [Tick -> 0..(MaxFailures - 1)] /\ todo' \in [Tick -> Seq(Provider)]
      /\ todo'[t] = <<>> \/ todo'[t] = Tail(todo[t])
      /\ \A s \in Tick \ {t} : todo'[s] = todo[s] /\ failures'[s] = failures[s]
  BY <1>1, <1>2, FailedLeaves
<1>4. PlanTypes'
  BY <1>1, <1>3 DEF PoolBase, TypeOK, PlanTypes
<1>5. Alone(t)
  BY <1>1, <1>3 DEF Alone
<1>6. TickOK(t)'
  BY <1>1, <1>2, <1>3 DEF TickOK
<1> QED BY <1>1, <1>3, <1>4, <1>5, <1>6 DEF Wanes

LEMMA MakeFailsWanes ==
    ASSUME PoolBase, NEW t \in Tick, MakeFails(t)
    PROVE  Wanes(t)
<1>1. /\ pc[t] = "making" /\ pc' = [pc EXCEPT ![t] = "create"] /\ UNCHANGED count
      /\ Failed(t, todo[t])
  BY DEF MakeFails
<1>2. todo[t] \in Seq(Provider) /\ Len(todo[t]) <= Budget /\ Budget \in Nat
  BY PlanAssumption DEF PoolBase, TypeOK, TicksOK, TickOK
<1>3. /\ failures' \in [Tick -> 0..(MaxFailures - 1)] /\ todo' \in [Tick -> Seq(Provider)]
      /\ todo'[t] = <<>> \/ todo'[t] = todo[t]
      /\ \A s \in Tick \ {t} : todo'[s] = todo[s] /\ failures'[s] = failures[s]
  BY <1>1, <1>2, FailedLeaves
<1>4. PlanTypes' /\ pc'[t] = "create"
  BY <1>1, <1>3 DEF PoolBase, TypeOK, PlanTypes
<1>5. Alone(t)
  BY <1>1, <1>3 DEF Alone, PoolBase, TypeOK
<1>6. TickOK(t)'
  BY <1>2, <1>3, <1>4 DEF TickOK
<1> QED BY <1>1, <1>3, <1>4, <1>5, <1>6 DEF Wanes

\* The steps from the last create to the end of the tick.
LEMMA SheddingWanes ==
    ASSUME PoolBase, NEW t \in Tick, Shed(t) \/ Finish(t)
    PROVE  Wanes(t)
<1>1. /\ pc[t] = "create" /\ todo[t] = <<>> /\ UNCHANGED <<count, todo, failures>>
      /\ pc' = pc \/ pc' = [pc EXCEPT ![t] = "idle"]
  BY DEF Shed, Finish, Sheds
<1>2. PlanTypes' /\ pc'[t] # "list"
  BY <1>1 DEF PoolBase, TypeOK, PlanTypes
<1>3. Alone(t)
  BY <1>1 DEF Alone, PoolBase, TypeOK
<1>4. TickOK(t)'
  BY <1>1, <1>2 DEF TickOK, TicksOK, PoolBase
<1> QED BY <1>1, <1>2, <1>3, <1>4 DEF Wanes

LEMMA DieWanes ==
    ASSUME PoolBase, NEW t \in Tick, Die(t)
    PROVE  Wanes(t) /\ ListTypes'
<1>1. /\ pc' = [pc EXCEPT ![t] = "idle"] /\ count' = [count EXCEPT ![t] = NoCount]
      /\ excess' = [excess EXCEPT ![t] = {}] /\ todo' = [todo EXCEPT ![t] = <<>>]
      /\ making' = [making EXCEPT ![t] = NoHost] /\ failures' = [failures EXCEPT ![t] = 0]
  BY DEF Die
<1>2. NoCount \in [Provider -> Nat]
  BY DEF NoCount
<1>3. PlanTypes' /\ ListTypes'
  BY <1>1, <1>2, PoolAssumption DEF PoolBase, TypeOK, PlanTypes, ListTypes
<1>4. Alone(t)
  BY <1>1 DEF Alone, PoolBase, TypeOK
<1>5. pc'[t] = "idle" /\ todo'[t] = <<>>
  BY <1>1 DEF PoolBase, TypeOK
<1>6. TickOK(t)'
  BY <1>5, PlanAssumption DEF TickOK
<1> QED BY <1>3, <1>4, <1>5, <1>6 DEF Wanes

\* Such a step, and what becomes of rows meanwhile, leaves room.
LEMMA WaningKeeps ==
    ASSUME PoolBase, RoomInv, NEW t \in Tick, Wanes(t), RowTypes', ListTypes', NoneAdded
    PROVE  PoolBase' /\ RoomInv'
<1>1. TicksOK' /\ \A s \in Tick \ {t}, p \in Provider : Planned(s, p)' = Planned(s, p)
  BY OthersPlan DEF Wanes, PoolBase
<1>2. TypeOK'
  BY NextTypeParts DEF Wanes
<1>3. \A p \in Provider : Planned(t, p)' \subseteq Planned(t, p)
  BY PlanShrinks DEF Wanes, PoolBase
<1>4. \A s \in Tick, p \in Provider : Planned(s, p)' \subseteq Planned(s, p)
  BY <1>1, <1>3
<1>5. RoomInv'
  BY <1>1, <1>2, <1>4, RoomShrinks DEF PoolBase, NoneAdded
<1> QED BY <1>1, <1>2, <1>5 DEF PoolBase

\* A tick that counts may plan what lacks to the target, if anything does.
LEMMA CountKeeps ==
    ASSUME PoolBase, RoomInv, NEW t \in Tick, Count(t)
    PROVE  PoolBase' /\ RoomInv'
<1>1. /\ pc[t] = "idle" /\ pc' = [pc EXCEPT ![t] = "list"]
      /\ UNCHANGED rows /\ UNCHANGED <<excess, todo, making, failures>>
      /\ count' = [count EXCEPT ![t] = [p \in Provider |-> Cardinality(Members(p))]]
  BY DEF Count, Counted
<1>2. RowTypes' /\ \A p \in Provider : Lasting(p)' \subseteq Lasting(p)
  BY <1>1, SameRows DEF PoolBase, NoneAdded
<1>3. \A p \in Provider : Members(p) \in SUBSET Host
  BY DEF Members, Warm, Rows
<1>4. [p \in Provider |-> Cardinality(Members(p))] \in [Provider -> Nat]
  BY <1>3, HostsAreFinite
<1>5. ListTypes' /\ PlanTypes'
  BY <1>1, <1>4 DEF PoolBase, TypeOK, ListTypes, PlanTypes
<1>6. /\ pc'[t] = "list" /\ todo'[t] = <<>> /\ todo[t] = <<>>
      /\ \A p \in Provider : count'[t][p] = Cardinality(Members(p))
  BY <1>1, <1>4 DEF PoolBase, TypeOK, TicksOK, TickOK
<1>7. Alone(t)
  BY <1>1 DEF Alone, PoolBase, TypeOK
<1>8. TickOK(t)'
  BY <1>1, <1>6, PlanAssumption DEF TickOK
<1>9. TicksOK' /\ \A s \in Tick \ {t}, p \in Provider : Planned(s, p)' = Planned(s, p)
  BY <1>7, <1>8, OthersPlan DEF PoolBase
<1>10. TypeOK'
  BY <1>2, <1>5, NextTypeParts
<1>11. ASSUME NEW p \in Provider
       PROVE  Cardinality(Lasting(p)') + Cardinality(Pending(p)')
                  <= Target[p] + (Cardinality(Tick) - 1) * Budget
  <2> DEFINE P == [s \in Tick |-> Planned(s, p)]
             Q == [s \in Tick |-> Planned(s, p)']
             m == Cardinality(Lasting(p))
             c == Cardinality(Members(p))
             over == (Cardinality(Tick) - 1) * Budget
  <2>1. P \in Batches /\ Q \in Batches /\ \A s \in Tick \ {t} : Q[s] = P[s]
    BY <1>9, <1>10, PlannedIsABatch, NextPlannedIsABatch DEF PoolBase
  <2>2. Pending(p) = Cells(P) /\ Pending(p)' = Cells(Q)
    BY DEF Pending, Cells
  <2>3. P[t] = {} /\ Cardinality(P[t]) = 0
    BY <1>1, <1>6, DonePlansNothing, FS_EmptySet DEF PoolBase
  <2>12. /\ Lasting(p) \in SUBSET Members(p) /\ Lasting(p)' \in SUBSET Lasting(p)
         /\ IsFiniteSet(Members(p)) /\ IsFiniteSet(Lasting(p))
    <3>1. Lasting(p) \in SUBSET Members(p)
      BY DEF Lasting
    <3> QED BY <1>2, <1>3, <3>1, HostsAreFinite, FS_Subset
  <2>13. m \in Nat /\ c \in Nat /\ m <= c
    BY <2>12, FS_Subset, FS_CardinalityType
  <2>14. Cardinality(Lasting(p)') \in Nat /\ Cardinality(Lasting(p)') <= m
    BY <2>12, FS_Subset, FS_CardinalityType
  <2>4. /\ m \in Nat /\ Target[p] \in Nat /\ Budget \in Nat
        /\ m + Cardinality(Pending(p)) <= Target[p] + over
    BY <2>13, PoolAssumption, PlanAssumption DEF RoomInv
  <2>5. over \in Int
    <3>1. Cardinality(Tick) \in Nat /\ Budget \in Nat
      BY PoolAssumption, PlanAssumption, FS_CardinalityType
    <3> QED BY <3>1
  <2>6. Shortage(t, p)' = IF Target[p] > c THEN Target[p] - c ELSE 0
    BY <1>6 DEF Shortage
  <2>7. Q[t] = 1..(IF Budget < Shortage(t, p)' THEN Budget ELSE Shortage(t, p)')
    BY <1>6 DEF Planned
  <2>8. Cardinality(Q[t]) = IF Budget < Shortage(t, p)' THEN Budget ELSE Shortage(t, p)'
    <3>1. (IF Budget < Shortage(t, p)' THEN Budget ELSE Shortage(t, p)') \in Nat
      BY <2>4, <2>6, <2>13
    <3> QED BY <2>7, <3>1, FS_Interval
  <2> HIDE DEF P, Q, over, m, c
  <2>9. /\ Cardinality(Cells(P)) \in Nat /\ Cardinality(Cells(Q)) \in Nat
        /\ Cardinality(Cells(Q)) = Cardinality(Cells(P)) - Cardinality(P[t]) + Cardinality(Q[t])
        /\ Cardinality(Cells(Q)) <= over + Cardinality(Q[t])
    BY <2>1, CellsChange DEF over
  <2>10. CASE Target[p] > c
    <3>1. Cardinality(Q[t]) \in Nat /\ m + Cardinality(Q[t]) <= Target[p]
      BY <2>4, <2>6, <2>8, <2>10, <2>13
    <3>2. m + Cardinality(Cells(Q)) <= Target[p] + over
      BY <2>4, <2>5, <2>9, <3>1
    <3> QED BY <2>2, <2>4, <2>5, <2>9, <2>14, <3>2 DEF over
  <2>11. CASE ~(Target[p] > c)
    <3>1. Cardinality(Q[t]) = 0
      BY <2>4, <2>6, <2>8, <2>11, <2>13
    <3>2. m + Cardinality(Cells(Q)) <= Target[p] + over
      BY <2>2, <2>3, <2>4, <2>5, <2>9, <3>1
    <3> QED BY <2>2, <2>4, <2>5, <2>9, <2>14, <3>2 DEF over
  <2> QED BY <2>10, <2>11
<1> QED BY <1>2, <1>9, <1>10, <1>11 DEF PoolBase, RoomInv

\* It plans no more than that.
LEMMA ListKeeps ==
    ASSUME PoolBase, RoomInv, NEW t \in Tick, List(t)
    PROVE  PoolBase' /\ RoomInv'
<1> DEFINE lack == [p \in Provider |-> Shortage(t, p)]
<1>1. PICK order \in Rankings : todo' = [todo EXCEPT ![t] = RoundRobin(order, lack)]
  BY DEF List, Orders
<1> DEFINE plan == RoundRobin(order, lack)
           n == PlanSize(lack)
<1>2. /\ pc[t] = "list" /\ pc' = [pc EXCEPT ![t] = "create"] /\ UNCHANGED rows /\ UNCHANGED making
      /\ count' = [count EXCEPT ![t] = NoCount] /\ excess' = [excess EXCEPT ![t] = Excess(t)]
      /\ failures' = [failures EXCEPT ![t] = 0]
  BY DEF List
<1>3. lack \in Needs
  BY PoolAssumption DEF Shortage, PoolBase, TypeOK, Needs
<1>4. Excess(t) \in SUBSET Host
  BY DEF Excess, Warm, Rows
<1>5. /\ n \in Nat /\ n <= Budget /\ plan \in Seq(Provider) /\ Len(plan) = n
      /\ \A p \in Provider : /\ IsFiniteSet({i \in 1..n : plan[i] = p})
                             /\ Cardinality({i \in 1..n : plan[i] = p}) <= lack[p]
  <2> HIDE DEF lack
  <2> QED BY <1>3, PlanIsBounded
<1>6. /\ todo' = [todo EXCEPT ![t] = plan]
      /\ \A p \in Provider : lack[p] = Shortage(t, p) /\ lack[p] \in Nat
  BY <1>1, <1>3 DEF Needs
<1> HIDE DEF lack, plan, n
<1>7. ListTypes' /\ PlanTypes'
  <2>1. NoCount \in [Provider -> Nat]
    BY DEF NoCount
  <2> QED BY <1>2, <1>4, <1>5, <1>6, <2>1, PoolAssumption DEF PoolBase, TypeOK, ListTypes, PlanTypes
<1>8. RowTypes' /\ \A p \in Provider : Lasting(p)' \subseteq Lasting(p)
  BY <1>2, SameRows DEF PoolBase, NoneAdded
<1>9. Alone(t) /\ pc'[t] = "create" /\ todo'[t] = plan /\ failures'[t] = 0
  BY <1>2, <1>6 DEF Alone, PoolBase, TypeOK
<1>10. TickOK(t)'
  BY <1>5, <1>9, PoolAssumption DEF TickOK
<1>11. TicksOK' /\ \A s \in Tick \ {t}, p \in Provider : Planned(s, p)' = Planned(s, p)
  BY <1>9, <1>10, OthersPlan DEF PoolBase
<1>12. TypeOK'
  BY <1>7, <1>8, NextTypeParts
<1>13. ASSUME NEW p \in Provider
       PROVE  Cardinality(Lasting(p)') + Cardinality(Pending(p)')
                  <= Target[p] + (Cardinality(Tick) - 1) * Budget
  <2> DEFINE P == [s \in Tick |-> Planned(s, p)]
             Q == [s \in Tick |-> Planned(s, p)']
             over == (Cardinality(Tick) - 1) * Budget
  <2>1. P \in Batches /\ Q \in Batches /\ \A s \in Tick \ {t} : Q[s] = P[s]
    BY <1>11, <1>12, PlannedIsABatch, NextPlannedIsABatch DEF PoolBase
  <2>2. Pending(p) = Cells(P) /\ Pending(p)' = Cells(Q)
    BY DEF Pending, Cells
  <2>3. P[t] = 1..(IF Budget < lack[p] THEN Budget ELSE lack[p])
    BY <1>2, <1>6 DEF Planned
  <2>4. Cardinality(P[t]) = IF Budget < lack[p] THEN Budget ELSE lack[p]
    <3>1. (IF Budget < lack[p] THEN Budget ELSE lack[p]) \in Nat
      BY <1>6, PlanAssumption
    <3> QED BY <2>3, <3>1, FS_Interval
  <2>5. Q[t] = {i \in 1..n : plan[n + 1 - i] = p}
    BY <1>5, <1>9 DEF Planned
  <2>6. Cardinality(Q[t]) <= lack[p] /\ Cardinality(Q[t]) <= Budget
    <3> DEFINE named == {i \in 1..n : plan[i] = p}
               back == [i \in Q[t] |-> n + 1 - i]
    <3>1. Q[t] \subseteq 1..n
      BY <2>5
    <3>2. \A i \in Q[t] : i \in Nat /\ n + 1 - i \in 1..n /\ plan[n + 1 - i] = p
      BY <1>5, <2>5, <3>1
    <3>3. back \in Injection(Q[t], named)
      <4>1. back \in [Q[t] -> named]
        BY <3>2
      <4>2. \A i, j \in Q[t] : n + 1 - i = n + 1 - j => i = j
        BY <1>5, <3>2
      <4> QED BY <4>1, <4>2 DEF Injection, IsInjective
    <3>4. IsFiniteSet(named) /\ Cardinality(named) <= lack[p] /\ Cardinality(named) \in Nat
      BY <1>5, FS_CardinalityType
    <3>5. Cardinality(Q[t]) <= Cardinality(named)
      <4> HIDE DEF named, back, Q
      <4> QED BY <3>3, <3>4, FS_Injection
    <3>6. IsFiniteSet(1..n) /\ Cardinality(1..n) = n
      BY <1>5, FS_Interval
    <3>7. Cardinality(Q[t]) <= n /\ Cardinality(Q[t]) \in Nat
      <4> HIDE DEF Q
      <4> QED BY <3>1, <3>6, FS_Subset, FS_CardinalityType
    <3> HIDE DEF named, Q
    <3> QED BY <1>5, <1>6, <3>4, <3>5, <3>7, PlanAssumption
  <2> HIDE DEF P, Q, over
  <2>7. /\ Cardinality(Cells(P)) \in Nat /\ Cardinality(Cells(Q)) \in Nat
        /\ Cardinality(P[t]) \in Nat /\ Cardinality(Q[t]) \in Nat
        /\ Cardinality(Cells(Q)) = Cardinality(Cells(P)) - Cardinality(P[t]) + Cardinality(Q[t])
    BY <2>1, CellsChange
  <2>8. Cardinality(Q[t]) <= Cardinality(P[t])
    BY <2>4, <2>6
  <2>9. /\ Cardinality(Lasting(p)) \in Nat /\ Cardinality(Lasting(p)') \in Nat
        /\ Cardinality(Lasting(p)') <= Cardinality(Lasting(p))
    <3>1. Lasting(p) \in SUBSET Host
      BY DEF Lasting, Members, Warm, Rows
    <3>2. Lasting(p)' \in SUBSET Lasting(p)
      BY <1>8
    <3> QED BY <3>1, <3>2, HostsAreFinite, FS_Subset, FS_CardinalityType
  <2>10. Target[p] + over \in Int
    <3>1. Cardinality(Tick) \in Nat /\ Budget \in Nat /\ Target[p] \in Nat
      BY PoolAssumption, PlanAssumption, FS_CardinalityType
    <3>2. over \in Int
      BY <3>1 DEF over
    <3> QED BY <3>1, <3>2
  <2>11. Cardinality(Lasting(p)) + Cardinality(Cells(P)) <= Target[p] + over
    BY <2>2 DEF RoomInv, over
  <2>12. Cardinality(Lasting(p)') + Cardinality(Cells(Q)) <= Target[p] + over
    BY <2>7, <2>8, <2>9, <2>10, <2>11
  <2> QED BY <2>2, <2>12 DEF over
<1> QED BY <1>8, <1>11, <1>12, <1>13 DEF PoolBase, RoomInv

\* A row takes the place of the host that was planned.
LEMMA InsertKeeps ==
    ASSUME PoolBase, RoomInv, NEW t \in Tick, NEW h \in Host, Insert(t, h)
    PROVE  PoolBase' /\ RoomInv'
<1>0. todo[t] # <<>> /\ todo[t] \in Seq(Provider)
  BY DEF Insert, PoolBase, TypeOK
<1> PICK a \in Provider : a = Head(todo[t])
  BY <1>0
<1> DEFINE plan == todo[t]
           n == Len(todo[t])
<1>1. /\ pc[t] = "create" /\ plan # <<>> /\ state[h] = "free"
      /\ state' = [state EXCEPT ![h] = "creating"] /\ on' = [on EXCEPT ![h] = a]
      /\ older' = older \cup ({g \in Rows : on[g] = a} \X {h}) /\ todo' = [todo EXCEPT ![t] = Tail(plan)]
      /\ making' = [making EXCEPT ![t] = h] /\ pc' = [pc EXCEPT ![t] = "making"]
      /\ UNCHANGED <<returned, count, excess, failures>>
  BY DEF Insert, PoolBase, TypeOK
<1>2. /\ plan \in Seq(Provider) /\ n \in Nat \ {0} /\ a \in Provider /\ a = plan[1]
      /\ Tail(plan) \in Seq(Provider) /\ Len(Tail(plan)) = n - 1
  BY <1>0
<1>3. /\ RowTypes'
      /\ Lasting(a)' \subseteq Lasting(a) \cup {h}
      /\ \A q \in Provider \ {a} : Lasting(q)' \subseteq Lasting(q)
  <2>1. older' \subseteq Host \X Host
    BY <1>1 DEF PoolBase, TypeOK, Rows
  <2>2. TypeOK /\ returned' = returned
    BY <1>1 DEF PoolBase
  <2> HIDE DEF plan, n
  <2> QED BY <1>1, <2>1, <2>2, InsertRows
<1>4. ListTypes' /\ PlanTypes' /\ pc'[t] = "making" /\ todo'[t] = Tail(plan)
  BY <1>1, <1>2 DEF PoolBase, TypeOK, ListTypes, PlanTypes
<1>5. Alone(t)
  BY <1>1 DEF Alone, PoolBase, TypeOK
<1>6. TickOK(t)'
  <2>1. Len(todo'[t]) <= Budget
    BY <1>2, <1>4, PlanAssumption DEF PoolBase, TicksOK, TickOK
  <2> QED BY <1>4, <2>1 DEF TickOK
<1>7. TicksOK' /\ \A s \in Tick \ {t}, p \in Provider : Planned(s, p)' = Planned(s, p)
  BY <1>5, <1>6, OthersPlan DEF PoolBase
<1>8. TypeOK'
  BY <1>3, <1>4, NextTypeParts
<1>9. \A p \in Provider : Planned(t, p)' \subseteq Planned(t, p)
  BY <1>1, <1>4, PlanShrinks DEF PoolBase
<1>10. n \in Planned(t, a) /\ n \notin Planned(t, a)'
  <2>1. n + 1 - n = 1 /\ n \in 1..n /\ n \notin 1..(n - 1)
    BY <1>2
  <2>2. Planned(t, a) = {i \in 1..n : plan[n + 1 - i] = a}
    BY <1>1 DEF Planned
  <2>3. Planned(t, a)' \subseteq 1..(n - 1)
    BY <1>2, <1>4 DEF Planned
  <2> HIDE DEF n, plan
  <2> QED BY <1>2, <2>1, <2>2, <2>3
<1> HIDE DEF plan, n
<1>11. ASSUME NEW p \in Provider
       PROVE  Cardinality(Lasting(p)') + Cardinality(Pending(p)')
                  <= Target[p] + (Cardinality(Tick) - 1) * Budget
  <2> DEFINE P == [s \in Tick |-> Planned(s, p)]
             Q == [s \in Tick |-> Planned(s, p)']
             over == (Cardinality(Tick) - 1) * Budget
  <2>1. P \in Batches /\ Q \in Batches /\ \A s \in Tick \ {t} : Q[s] = P[s]
    BY <1>7, <1>8, PlannedIsABatch, NextPlannedIsABatch DEF PoolBase
  <2>2. Pending(p) = Cells(P) /\ Pending(p)' = Cells(Q)
    BY DEF Pending, Cells
  <2>3. Q[t] = Planned(t, p)' /\ P[t] = Planned(t, p) /\ Q[t] \in SUBSET P[t]
    BY <1>9
  <2>4. /\ Lasting(p) \in SUBSET Host /\ IsFiniteSet(Lasting(p))
        /\ Cardinality(Lasting(p)) \in Nat
    <3>1. Lasting(p) \in SUBSET Host
      BY DEF Lasting, Members, Warm, Rows
    <3> QED BY <3>1, HostsAreFinite
  <2>5. Cardinality(Lasting(p)) + Cardinality(Cells(P)) <= Target[p] + over
    BY <2>2 DEF RoomInv
  <2>6. Target[p] + over \in Int
    <3>1. Cardinality(Tick) \in Nat /\ Budget \in Nat /\ Target[p] \in Nat
      BY PoolAssumption, PlanAssumption, FS_CardinalityType
    <3>2. over \in Int
      BY <3>1
    <3> QED BY <3>1, <3>2
  <2> HIDE DEF P, Q, over
  <2>7. /\ Cardinality(Cells(P)) \in Nat /\ Cardinality(Cells(Q)) \in Nat
        /\ Cardinality(P[t]) \in Nat /\ Cardinality(Q[t]) \in Nat
        /\ Cardinality(Cells(Q)) = Cardinality(Cells(P)) - Cardinality(P[t]) + Cardinality(Q[t])
    BY <2>1, CellsChange
  <2>8. IsFiniteSet(P[t])
    BY <2>1, CellsSplit
  <2>9. /\ Cardinality(Q[t]) <= Cardinality(P[t])
        /\ Cardinality(Q[t]) = Cardinality(P[t]) => Q[t] = P[t]
    BY <2>3, <2>8, FS_Subset
  <2>10. CASE p = a
    <3>1. Cardinality(Q[t]) < Cardinality(P[t])
      BY <1>10, <2>3, <2>7, <2>9, <2>10
    <3>2. /\ IsFiniteSet(Lasting(p) \cup {h})
          /\ Cardinality(Lasting(p) \cup {h}) \in Nat
          /\ Cardinality(Lasting(p) \cup {h}) <= Cardinality(Lasting(p)) + 1
      BY <2>4, OneMore
    <3>4. /\ Cardinality(Lasting(p)') \in Nat
          /\ Cardinality(Lasting(p)') <= Cardinality(Lasting(p)) + 1
      <4>1. Lasting(p)' \in SUBSET (Lasting(p) \cup {h})
        BY <1>3, <2>10
      <4> QED BY <2>4, <3>2, <4>1, FS_Subset, FS_CardinalityType
    <3>3. Cardinality(Lasting(p)') + Cardinality(Cells(Q)) <= Target[p] + over
      BY <2>4, <2>5, <2>6, <2>7, <3>1, <3>4
    <3> QED BY <2>2, <3>3 DEF over
  <2>11. CASE p # a
    <3>1. /\ Cardinality(Lasting(p)') \in Nat
          /\ Cardinality(Lasting(p)') <= Cardinality(Lasting(p))
      <4>1. Lasting(p)' \in SUBSET Lasting(p)
        BY <1>3, <2>11
      <4> QED BY <2>4, <4>1, FS_Subset, FS_CardinalityType
    <3>2. Cardinality(Lasting(p)') + Cardinality(Cells(Q)) <= Target[p] + over
      BY <2>4, <2>5, <2>6, <2>7, <2>9, <3>1
    <3> QED BY <2>2, <3>2 DEF over
  <2> QED BY <2>10, <2>11
<1> QED BY <1>3, <1>7, <1>8, <1>11 DEF PoolBase, RoomInv

LEMMA PoolInit == Init => PoolBase /\ RoomInv
<1> SUFFICES ASSUME Init PROVE PoolBase /\ RoomInv
  OBVIOUS
<1>1. Nowhere \in Provider /\ NoCount \in [Provider -> Nat]
  BY PlanAssumption DEF Nowhere, NoCount
<1>2. TypeOK
  BY <1>1, PoolAssumption DEF Init, TypeOK, States
<1>3. Warm = {}
  BY DEF Init, Rows, Warm
<1>5. TicksOK
  BY PlanAssumption DEF Init, TicksOK, TickOK
<1>6. ASSUME NEW p \in Provider
      PROVE  Cardinality(Lasting(p)) + Cardinality(Pending(p))
                 <= Target[p] + (Cardinality(Tick) - 1) * Budget
  <2>1. Lasting(p) = {}
    BY <1>3 DEF Lasting, Members
  <2>2. \A t \in Tick : Planned(t, p) = {}
    BY <1>2, DonePlansNothing DEF Init
  <2>3. Pending(p) = {}
    BY <2>2 DEF Pending, Cells
  <2>4. Cardinality(Tick) \in Nat /\ Cardinality(Tick) # 0
    BY PoolAssumption, FS_CardinalityType, FS_EmptySet
  <2>5. PICK n \in Nat : n = Cardinality(Tick) - 1
    BY <2>4
  <2>6. n * Budget \in Nat /\ Target[p] \in Nat
    BY PoolAssumption, PlanAssumption
  <2>7. Target[p] + n * Budget >= 0
    BY <2>6
  <2> QED BY <2>1, <2>3, <2>5, <2>7, FS_EmptySet
<1> QED BY <1>2, <1>5, <1>6 DEF PoolBase, RoomInv

LEMMA PoolStep ==
    ASSUME PoolBase, RoomInv, [Next]_vars
    PROVE  PoolBase' /\ RoomInv'
<1>1. ASSUME NEW t \in Tick, Work(t) PROVE PoolBase' /\ RoomInv'
  <2>1. CASE Count(t)
    BY <2>1, CountKeeps
  <2>2. CASE List(t)
    BY <2>2, ListKeeps
  <2>3. CASE Made(t)
    <3>1. /\ making[t] \in Warm /\ making[t] \in Host /\ state' = [state EXCEPT ![making[t]] = "ready"]
          /\ making' = [making EXCEPT ![t] = NoHost] /\ UNCHANGED <<older, on, returned, excess>>
      BY <2>3 DEF Made, Warm, Rows
    <3>2. RowTypes' /\ ListTypes'
      BY <3>1 DEF RowTypes, ListTypes, States, PoolBase, TypeOK
    <3>3. NoneAdded
      <4>1. Warm' \subseteq Warm \cup {making[t]} /\ UNCHANGED <<on, returned>>
        BY <3>1 DEF Warm, Rows, PoolBase, TypeOK
      <4> QED BY <3>1, <4>1 DEF NoneAdded, Lasting, Members
    <3> QED BY <2>3, <3>2, <3>3, MadeWanes, WaningKeeps
  <2>4. CASE Refused(t)
    <3>1. UNCHANGED rows /\ UNCHANGED <<excess, making>>
      BY <2>4 DEF Refused
    <3>2. RowTypes' /\ ListTypes' /\ NoneAdded
      BY <3>1, SameRows DEF PoolBase, TypeOK, ListTypes
    <3> QED BY <2>4, <3>2, RefusedWanes, WaningKeeps
  <2>5. CASE MakeFails(t)
    <3>1. Drop(making[t]) \/ (UNCHANGED rows /\ UNCHANGED <<excess, making>>)
      BY <2>5 DEF MakeFails
    <3>2. RowTypes' /\ ListTypes' /\ NoneAdded
      BY <3>1, DropRows, SameRows DEF PoolBase, TypeOK, ListTypes
    <3> QED BY <2>5, <3>2, MakeFailsWanes, WaningKeeps
  <2>6. CASE Shed(t)
    <3>1. PICK h \in excess[t] : \/ Drop(h)
                                 \/ /\ excess' = [excess EXCEPT ![t] = excess[t] \ {h}]
                                    /\ UNCHANGED rows /\ UNCHANGED making
      BY <2>6 DEF Shed, PoolBase, TypeOK
    <3>2. RowTypes' /\ ListTypes' /\ NoneAdded
      BY <3>1, DropRows, SameRows DEF PoolBase, TypeOK, ListTypes
    <3> QED BY <2>6, <3>2, SheddingWanes, WaningKeeps
  <2>7. CASE Finish(t)
    <3>1. UNCHANGED rows /\ UNCHANGED <<excess, making>>
      BY <2>7 DEF Finish
    <3>2. RowTypes' /\ ListTypes' /\ NoneAdded
      BY <3>1, SameRows DEF PoolBase, TypeOK, ListTypes
    <3> QED BY <2>7, <3>2, SheddingWanes, WaningKeeps
  <2>8. ASSUME NEW h \in Host, Insert(t, h) PROVE PoolBase' /\ RoomInv'
    BY <2>8, InsertKeeps
  <2> QED BY <1>1, <2>1, <2>2, <2>3, <2>4, <2>5, <2>6, <2>7, <2>8 DEF Work
<1>2. ASSUME NEW t \in Tick, Die(t) PROVE PoolBase' /\ RoomInv'
  <2>1. UNCHANGED rows
    BY <1>2 DEF Die
  <2>2. RowTypes' /\ NoneAdded
    BY <2>1, SameRows DEF PoolBase
  <2> QED BY <1>2, <2>2, DieWanes, WaningKeeps
<1>3. ASSUME UNCHANGED Others, RowTypes', ListTypes', NoneAdded
      PROVE  PoolBase' /\ RoomInv'
  <2>1. UNCHANGED <<pc, count, todo, failures>>
    BY <1>3 DEF Others
  <2>2. TypeOK'
    BY <1>3, <2>1, NextTypeParts DEF PlanTypes, PoolBase, TypeOK
  <2>3. TicksOK'
    BY <2>1 DEF TicksOK, TickOK, PoolBase
  <2>4. \A t \in Tick, p \in Provider : Planned(t, p)' \subseteq Planned(t, p)
    BY <2>1 DEF Planned, Shortage
  <2>5. RoomInv'
    BY <1>3, <2>2, <2>3, <2>4, RoomShrinks DEF PoolBase, NoneAdded
  <2> QED BY <2>2, <2>3, <2>5 DEF PoolBase
<1>4. ASSUME NEW h \in Host, Claim(h) PROVE PoolBase' /\ RoomInv'
  <2>1. /\ state' = [state EXCEPT ![h] = "claimed"]
        /\ UNCHANGED <<older, on, returned, excess, making>> /\ UNCHANGED Others
    BY <1>4 DEF Claim
  <2>2. RowTypes' /\ ListTypes'
    BY <2>1 DEF RowTypes, ListTypes, States, PoolBase, TypeOK
  <2>3. Warm' \subseteq Warm
    BY <2>1 DEF Warm, Rows, PoolBase, TypeOK
  <2>4. NoneAdded
    BY <2>1, <2>3 DEF NoneAdded, Lasting, Members
  <2> QED BY <1>3, <2>1, <2>2, <2>4
<1>5. ASSUME NEW h \in Host, Return(h) PROVE PoolBase' /\ RoomInv'
  <2>1. /\ state' = [state EXCEPT ![h] = "ready"] /\ returned' = returned \cup {h}
        /\ UNCHANGED <<older, on, excess, making>> /\ UNCHANGED Others
    BY <1>5 DEF Return
  <2>2. RowTypes' /\ ListTypes'
    BY <2>1 DEF RowTypes, ListTypes, States, PoolBase, TypeOK
  <2>3. Warm' \ returned' \subseteq Warm \ returned
    BY <2>1 DEF Warm, Rows, PoolBase, TypeOK
  <2>4. NoneAdded
    BY <2>1, <2>3 DEF NoneAdded, Lasting, Members
  <2> QED BY <1>3, <2>1, <2>2, <2>4
<1>6. ASSUME NEW h \in Host, Leave(h) PROVE PoolBase' /\ RoomInv'
  <2>1. Drop(h) /\ UNCHANGED Others
    BY <1>6 DEF Leave
  <2>2. RowTypes' /\ ListTypes' /\ NoneAdded
    BY <2>1, DropRows DEF PoolBase
  <2> QED BY <1>3, <2>1, <2>2
<1>7. CASE UNCHANGED vars
  <2>1. UNCHANGED rows /\ UNCHANGED <<excess, making>> /\ UNCHANGED Others
    BY <1>7 DEF vars, rows, Others
  <2>2. RowTypes' /\ ListTypes' /\ NoneAdded
    BY <2>1, SameRows DEF PoolBase, TypeOK, ListTypes
  <2> QED BY <1>3, <2>1, <2>2
<1> QED BY <1>1, <1>2, <1>4, <1>5, <1>6, <1>7 DEF Next

\* However many ticks overlap, die or fail, each beyond the first adds no more than one
\* batch to what a provider should have, for any targets, any budget and any number of
\* members that leave meanwhile, and not counting the members that a request claimed and
\* gave back (maintain_pool, pool.py:32-36; hosts/service.py:369-376).
THEOREM OvershootStaysBounded == Spec => []PoolInv
<1>1. Init => PoolBase /\ RoomInv
  BY PoolInit
<1>2. PoolBase /\ RoomInv /\ [Next]_vars => (PoolBase /\ RoomInv)'
  BY PoolStep
<1>3. PoolBase /\ RoomInv => PoolInv
  <2> SUFFICES ASSUME PoolBase, RoomInv, NEW p \in Provider
               PROVE  Cardinality(Members(p) \ returned) <= Target[p] + (Cardinality(Tick) - 1) * Budget
    BY DEF PoolInv, OvershootIsBounded, PoolBase
  <2> DEFINE P == [s \in Tick |-> Planned(s, p)]
  <2>1. P \in Batches /\ Pending(p) = Cells(P)
    BY PlannedIsABatch DEF Pending, PoolBase
  <2>2. Cardinality(Pending(p)) \in Nat
    <3> HIDE DEF P
    <3> QED BY <2>1, CellsShrink
  <2>3. Cardinality(Lasting(p)) \in Nat
    <3>1. Lasting(p) \in SUBSET Host
      BY DEF Lasting, Members, Warm, Rows
    <3> QED BY <3>1, HostsAreFinite
  <2>4. Target[p] + (Cardinality(Tick) - 1) * Budget \in Int
    <3>1. Cardinality(Tick) \in Nat /\ Budget \in Nat /\ Target[p] \in Nat
      BY PoolAssumption, PlanAssumption, FS_CardinalityType
    <3>2. (Cardinality(Tick) - 1) * Budget \in Int
      BY <3>1
    <3> QED BY <3>1, <3>2
  <2> QED BY <2>2, <2>3, <2>4 DEF RoomInv, Lasting
<1> QED BY <1>1, <1>2, <1>3, PTL DEF Spec

=============================================================================
