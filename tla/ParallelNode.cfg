SPECIFICATION FairSpec
CONSTANTS
    Branches = 3
    Key = {"k1", "k2"}
    Value = {"v1", "v2"}
    Reason = {"done"}
    NoReason = "none"
    StateBase <- MCStateBase
    AgentBase <- MCAgentBase
    UsizeMax = 4
    MaxCalls = 2
INVARIANTS
    MergeIsSerialByKey
    AgentMergeKeepsAll
    FirstFailureTold
PROPERTIES
    FailFastEnds
CHECK_DEADLOCK FALSE
