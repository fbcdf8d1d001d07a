\* kopf's retry of a failed call is swallowed by last_seen_gen.
SPECIFICATION FairSpec
CONSTANTS
    h1 = h1
    h2 = h2
    Handler <- MCHandler
    Prio <- MCPrio
    MaxGen = 4
    MaxCrash = 0
    MaxRaise = 0
    MaxErr = 1
PROPERTIES
    PendingIsInvoked
\* Once everything is handled the driver waits for the next write.
CHECK_DEADLOCK FALSE
