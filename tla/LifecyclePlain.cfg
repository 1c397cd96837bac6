\* One host on a provider that stops VMs after a lifetime: two deletes and a claim race.
SPECIFICATION Spec
CONSTANTS
    Host = {h1}
    Task = {t1, t2}
    Request = {q1}
    NoHost = NoHost
    Tailnet = FALSE
    Grace = 3
    ProvisionBound = 2
    DefaultLease = 1
    MaxLifetime = 3
    PoolAge = 1
    Terms = {1, 3}
    MaxTime = 5
INVARIANTS
    TypeOK
    PromiseKept
    LeaseWithinLifetime
    NothingOutlivesRow
PROPERTIES
    ImplementsPromise
    LeaseHonoured
    ShedSparesClaimed
SYMMETRY Symmetry
CHECK_DEADLOCK FALSE
