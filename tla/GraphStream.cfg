SPECIFICATION FairSpec
CONSTANTS
    Node = {"draft", "review", "sign"}
    Barrier = {"review", "sign"}
    End = "end"
    Stray = {"gone"}
    Reroute = {"gone"}
    Entry = "draft"
    Route <- MCRoute
    Timed = {"sign"}
    Rejects = {"sign"}
    RejectTarget <- MCRejectTarget
    MaxSteps = 5
    Buffer = 2
    MaxSends = 2
    MaxShift = 1
INVARIANTS
    DecidedByItsOwn
PROPERTIES
    CancelEnds
    ErrorIsTold
CHECK_DEADLOCK FALSE
