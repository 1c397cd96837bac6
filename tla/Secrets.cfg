\* One request, one order and the timer over two records; the issuer ends its values once.
SPECIFICATION FairSpec
CONSTANTS
    Caller = {c1}
    Order = {o1}
    Timer = timer
    Record = {r1, r2}
    MaxValues = 5
    NoRecord = NoRecord
    MaxEpoch = 2
INVARIANTS ExchangeInv OrderIsObeyed OrderReachesProvider
PROPERTY HeldIsRenewed
CHECK_DEADLOCK FALSE
