\* Two ingresses of the same source; its only writer commits in order.
SPECIFICATION Spec
CONSTANTS
    Source = {s1}
    Ingress = {n1, n2}
    SourcesOf <- AllSources
    MaxLoads = 1
    MaxRec = 2
    MaxGen = 2
    MaxErr = 0
INVARIANTS
    NoRecordLost
\* The lake falls silent once the bounds are reached.
CHECK_DEADLOCK FALSE
