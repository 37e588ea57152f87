SPECIFICATION FairSpec
CONSTANTS
    Node = {"a", "b"}
    Stray = {"gone"}
    End = "end"
    Entry = "a"
    Route <- LoopRoute
    Budget = {3, 5}
    Keep = {0, 1, 2}
    KeepAll = keepAll
    MaxMishaps = 2
INVARIANTS
    TraceIsTrue
PROPERTIES
    ContinuesWalk
    RunConcludes
CHECK_DEADLOCK FALSE
