\* Two connections, and a clock without a bound.
SPECIFICATION ProxySpec
CONSTANTS
    git = git
    api = api
    s1 = s1
    s2 = s2
    raw = raw
    h1 = h1
    h2 = h2
    Flow = {f1, f2}
    Name = {git, api, raw}
    Service = {s1, s2}
    NoService = NoService
    Approved <- Approval
    HeaderOf <- Headers
    TTL = 1
    Timeout = 1
INVARIANT
    ProxyInv
PROPERTY
    DecidedByRecentList
SYMMETRY Symmetry
CHECK_DEADLOCK FALSE
