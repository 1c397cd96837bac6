\* Two ticks overlap and one of them may die; two providers want a host each, one of them
\* may never give one.
SPECIFICATION FairSpec
CONSTANTS
    t1 = t1
    t2 = t2
    Tick = {t1, t2}
    Reliable = {t1}
    p1 = p1
    p2 = p2
    Provider = {p1, p2}
    Healthy = {p2}
    Host = {h1, h2, h3}
    NoHost = NoHost
    Target <- TwoTargets
    Budget = 1
    MaxFailures = 2
    MaxReturned = 1
INVARIANT PoolInv
PROPERTIES EveryPoolIsServed ExcessIsShed
CHECK_DEADLOCK FALSE
