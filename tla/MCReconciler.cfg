\* Concurrent writers, coalesced and old events; a restart, a handler that
\* raises, a request that fails.
SPECIFICATION FairSpec
CONSTANTS
    h1 = h1
    h2 = h2
    Handler <- MCHandler
    Prio <- MCPrio
    MaxGen = 5
    MaxCrash = 1
    MaxRaise = 1
    MaxErr = 1
INVARIANTS
    TypeOK
    SkipsOnlySelfWrites
    NoLostWork
    PendingHasAFuture
PROPERTIES
    NeverReverts
    Converges
\* Once everything is handled the driver waits for the next write.
CHECK_DEADLOCK FALSE
