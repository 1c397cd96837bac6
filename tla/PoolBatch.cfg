\* Every order of three providers, every deficit up to 3, a budget that cuts a pass short.
SPECIFICATION MCSpec
CONSTANTS
    p1 = p1
    p2 = p2
    p3 = p3
    Provider = {p1, p2, p3}
    Budget = 5
    MaxDeficit = 3
INVARIANTS WithinBudget EvenlySpread LoopIsRoundRobin
CHECK_DEADLOCK FALSE
