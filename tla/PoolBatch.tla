------------------------------ MODULE PoolBatch ------------------------------
(***************************************************************************)
(* How a tick of the pool maintainer spreads its create budget: the         *)
(* round-robin loop of _maintain in src/hosts/pool.py.  Each pass walks the *)
(* providers that still have a deficit, in the tick's shuffled order, until *)
(* the budget or the deficits run out.                                     *)
(*                                                                         *)
(* A definition whose comment says "Mutation" is no part of the system.    *)
(***************************************************************************)
EXTENDS PoolPlan

VARIABLES
    rank,      \* the shuffled order of the underfilled providers
    need,      \* the deficit each provider started with
    deficit,   \* what is left of it
    pass,      \* the providers the running pass has still to visit
    batch      \* the providers to create on, in order

batchVars == <<rank, need, deficit, pass, batch>>

Underfilled == {p \in Provider : deficit[p] > 0}

\* How many creates a provider has been given.
Given(p) == need[p] - deficit[p]

BatchTypeOK ==
    /\ rank \in Orders
    /\ need \in [Provider -> Nat]
    /\ deficit \in [Provider -> Nat]
    /\ pass \subseteq Provider
    /\ batch \in Seq(Provider)

BatchInit ==
    /\ rank \in Orders
    /\ need \in [Provider -> Nat]
    /\ deficit = need
    /\ pass = {}
    /\ batch = <<>>

StartPass ==
    /\ pass = {} /\ Underfilled # {} /\ Len(batch) < Budget
    /\ pass' = Underfilled
    /\ UNCHANGED <<rank, need, deficit, batch>>

Before(p, q) == rank[p] < rank[q]

\* Mutation: the break is missing.
RoomAlways == TRUE

Room == Len(batch) < Budget

\* Mutation: one provider is served until it is full.
LeavesPassWhenFull(p) == IF deficit[p] = 1 THEN pass \ {p} ELSE pass

LeavesPass(p) == pass \ {p}

Visit(p) ==
    /\ p \in pass /\ \A q \in pass : p # q => Before(p, q)
    /\ Room
    /\ batch' = Append(batch, p)
    /\ deficit' = [deficit EXCEPT ![p] = @ - 1]
    /\ pass' = LeavesPass(p)
    /\ UNCHANGED <<rank, need>>

Done == Len(batch) >= Budget \/ (pass = {} /\ Underfilled = {})

BatchNext == StartPass \/ \E p \in Provider : Visit(p)

BatchSpec == BatchInit /\ [][BatchNext]_batchVars

-----------------------------------------------------------------------------
\* No tick plans more creates than its budget, or more than a provider lacks.
WithinBudget == Len(batch) <= Budget /\ \A p \in Provider : deficit[p] \in 0..need[p]

\* One large deficit cannot starve the others: a provider that still lacks hosts is at
\* most one create behind any other, at every moment of the loop.
EvenlySpread ==
    \A p, q \in Provider : deficit[p] > 0 => Given(q) <= Given(p) + 1

\* The loop of _maintain computes the round robin, for every order and every deficit.
LoopIsRoundRobin == Done => batch = RoundRobin(rank, need)

=============================================================================
