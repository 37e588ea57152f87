SPECIFICATION FairSpec
CONSTANTS
    Frame <- FanFrame
    Root = "root"
    Node <- FanNode
    End = "end"
    Graph <- FanGraph
    Entry <- FanEntry
    Route <- FanRoute
    Kind <- FanKind
    Parent <- FanParent
    Budget <- FanBudget
    Manual = {"pay"}
    Timed = {"review", "check"}
    FailFast = {"fan"}
    Request = {q1}
    NoRequest = noRequest
    MaxRevision = 60
    MaxMishaps = 1
INVARIANTS
    AckedDecisionKept
    GroupIsComplete
PROPERTIES
    HaltIsFinal
    DecisionTakesEffect
    RunEnds
CHECK_DEADLOCK FALSE
