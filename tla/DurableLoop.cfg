SPECIFICATION Spec
CONSTANTS
    Frame <- LoopFrame
    Root = "root"
    Node <- LoopNode
    End = "end"
    Graph <- LoopGraph
    Entry <- LoopEntry
    Route <- LoopRoute
    Kind <- LoopKind
    Parent <- LoopParent
    Budget <- LoopBudget
    Manual = {"act"}
    Timed = {}
    FailFast = {}
    Request = {q1, q2}
    NoRequest = noRequest
    MaxRevision = 60
    MaxMishaps = 2
SYMMETRY RequestSymmetry
INVARIANTS
    DiskIsValid
    ManualCalledOnce
PROPERTIES
    BarrierNeedsApproval
CHECK_DEADLOCK FALSE
