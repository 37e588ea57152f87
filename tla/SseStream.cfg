SPECIFICATION FairSpec
CONSTANTS
    Reader = {"openai", "anthropic", "google", "subscription"}
    Script <- MCScript
    Ending = {"lf", "crlf"}
    Room = 2
    JSON <- MCJSON
    Repaired <- MCRepaired
INVARIANTS
    FramesAreReturned
    CompleteIsWhole
    EventsInOrder
PROPERTIES
    StreamConcludes
CHECK_DEADLOCK FALSE
