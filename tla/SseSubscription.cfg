SPECIFICATION Spec
CONSTANTS
    Reader = {"subscription"}
    Script <- MCScript
    Ending = {"lf"}
    Room = 2
    JSON <- MCJSON
    Repaired <- MCRepaired
INVARIANTS
    NotificationsAreReturned
CHECK_DEADLOCK FALSE
