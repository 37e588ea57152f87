SPECIFICATION BuildSpec
CONSTANTS
    Name = {1, 2, 3}
    KindOf <- MCKindOf
    KindFrom <- MCKindFrom
    StartNode = {0, 1}
    EndNode = {0, 3}
    Hash = {0, 7}
    None = 0
    MaxEdges = 3
    MaxLeaps = 1
    StepLimit = 3
INVARIANTS
    DiagnosticsAreTrue
    DeclaredIsChecked
    RestoredKeepsEdges
CHECK_DEADLOCK FALSE
