\* Two hosts; a token lasts for three ticks, of which it is used for two.
SPECIFICATION FairSpec
CONSTANTS
    Host = {h1, h2}
    Poller = poller
    Ttl = 3
    Buffer = 1
    Latency = 1
INVARIANTS TailnetInv WaiterHasPoller
PROPERTY WaitsEnd
CHECK_DEADLOCK FALSE
