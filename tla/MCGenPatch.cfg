\* Two driver threads patch one model while kopf annotates it and a user edits it.
SPECIFICATION FairSpec
CONSTANTS
    Client = {c1, c2}
    Attr = {a}
    Value = {v0, v1}
    MaxGen = 2
    MaxSize = 99
    MaxRv = 3
INVARIANTS
    TypeOK
    SeenIsCurrent
PROPERTIES
    Implements
    NeverOntoNewer
    CallReturns
\* Nothing forces anyone to call: with no caller and no writer left it rests.
CHECK_DEADLOCK FALSE
