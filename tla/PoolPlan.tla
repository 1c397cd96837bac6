------------------------------ MODULE PoolPlan ------------------------------
(***************************************************************************)
(* What the round robin of _maintain in src/hosts/pool.py comes to, with no *)
(* loop: the k-th pass serves, in the shuffled order, whoever lacks k       *)
(* hosts, and the budget cuts the last pass short.  PoolBatch has the loop; *)
(* HostPool takes the result as the plan of a tick.                         *)
(*                                                                         *)
(* A definition whose comment says "Mutation" is no part of the system.    *)
(***************************************************************************)
EXTENDS Integers, FiniteSets, Sequences

CONSTANTS
    Provider,      \* the providers that have a target or a member
    Budget         \* settings.pool_max_creates_per_tick

ASSUME PlanAssumption ==
    IsFiniteSet(Provider) /\ Provider # {} /\ Budget \in Nat

\* The members of S one after the other; R has <<x, y>> when x comes before y.
InOrder(S, R) ==
    [i \in 1..Cardinality(S) |->
        CHOOSE x \in S : Cardinality({y \in S : <<y, x>> \in R}) = i - 1]

\* Orders of the providers, as the place that each has.
Rankings ==
    {rank \in [Provider -> 1..Cardinality(Provider)] :
        \A p, q \in Provider : p # q => rank[p] # rank[q]}

\* Mutation: the order is the one of the settings, on every tick.
OrdersFixed == {CHOOSE rank \in Rankings : TRUE}

\* random.shuffle.
Orders == Rankings

\* The k-th host that a provider lacks.
Slots(need) == UNION {(1..need[p]) \X {p} : p \in Provider}

Earlier(rank, slot, other) ==
    \/ slot[1] < other[1]
    \/ slot[1] = other[1] /\ rank[slot[2]] < rank[other[2]]

SlotsInOrder(rank, need) ==
    InOrder(Slots(need),
            {x \in Slots(need) \X Slots(need) : Earlier(rank, x[1], x[2])})

PlanSize(need) ==
    IF Budget < Cardinality(Slots(need)) THEN Budget ELSE Cardinality(Slots(need))

RoundRobin(rank, need) ==
    [i \in 1..PlanSize(need) |-> SlotsInOrder(rank, need)[i][2]]

=============================================================================
