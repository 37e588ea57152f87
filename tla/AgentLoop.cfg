CONSTANTS
  Tools <- MCTools
  Safety <- MCSafety
  Category <- MCCategory
  NoCategory = "none"
  MaxAttempts <- MCMaxAttempts
  MaxCalls = 2
  MaxChanges = 1
  Manual <- MCManual
  MaxMishaps = 1
  Starts <- MCStarts
  MaxIterations <- MCMaxIterations
  KeepTurns <- MCKeepTurns
  MaxOpens <- MCMaxOpens
  Buffer = 2
  Agent <- MCAgent
  CallId <- MCCallId
  Function <- MCFunction
SPECIFICATION Spec
INVARIANTS WireIsPaired OneAtATime ReportsAreTrue TokensOnce
PROPERTIES RunConcludes
CHECK_DEADLOCK FALSE
