\* the running sum and the readiness of the load window
CONSTANTS
  WindowSize = 5
  Loads <- MCLoads
SPECIFICATION Spec
INVARIANTS
  RunningSumIsWindowSum
  ReadyLoadIsRecent
