SPECIFICATION FairServerSpec
CONSTANTS
    Client = {c1, c2}
    Parent = c1
    MaxRequests = 2
    MaxSessions = 2
    Capacity = 1
INVARIANTS
    OutcomeIsOwn
    AnswerIsKept
PROPERTIES
    AnswerComes
CHECK_DEADLOCK FALSE
