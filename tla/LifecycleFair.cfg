SPECIFICATION FairSpec
CONSTANTS
    Host = {h1}
    Task = {t1}
    Request = {}
    NoHost = NoHost
    Tailnet = TRUE
    Grace = 2
    ProvisionBound = 1
    DefaultLease = 1
    MaxLifetime = 0
    PoolAge = 1
    Terms = {}
    MaxTime = 3
INVARIANT
    KnownDeviceReleased
PROPERTIES
    LapsedIsReaped
    CreateEnds
CHECK_DEADLOCK FALSE
