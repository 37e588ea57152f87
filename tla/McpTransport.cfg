SPECIFICATION FairSpec
CONSTANTS
    Caller = {c1, c2}
    Owner = owner
    Nobody = nobody
    MaxConnections = 2
    MaxCalls = 2
INVARIANTS
    AnswerIsOwn
    NoStrandedWaiter
PROPERTY CallEnds
CHECK_DEADLOCK FALSE
