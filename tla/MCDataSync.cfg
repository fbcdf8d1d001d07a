\* One ingress of two sources, two writers, restarts, crashes and errors.
SPECIFICATION Spec
CONSTANTS
    Source = {s1, s2}
    Ingress = {n1}
    SourcesOf <- AllSources
    MaxLoads = 2
    MaxRec = 3
    MaxGen = 2
    MaxErr = 1
INVARIANTS
    TypeOK
    NothingSkipped
PROPERTIES
    InOrderOnce
    EveryRecordCopied
    StopEndsWithAnEvent
\* The lake falls silent once the bounds are reached.
CHECK_DEADLOCK FALSE
