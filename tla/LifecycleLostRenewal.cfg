SPECIFICATION Spec
CONSTANTS
    Host = {h1}
    Task = {t1, t2}
    Request = {}
    NoHost = NoHost
    Tailnet = TRUE
    Grace = 2
    ProvisionBound = 1
    DefaultLease = 1
    MaxLifetime = 0
    PoolAge = 1
    Terms = {1, 3}
    MaxTime = 4
PROPERTIES
    LeaseHonoured
SYMMETRY Symmetry
CHECK_DEADLOCK FALSE
