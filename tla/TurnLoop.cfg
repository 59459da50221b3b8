SPECIFICATION Spec
CONSTANTS
  MaxSteps = 2
  Limit = 2
  Threshold = 2
  GuardRetries = 1
  Issued = {"call_external", "call_service", "unknown_io"}
  Parallel = FALSE
  Reliable = FALSE
  MaxTurns = 2
  MaxCrashes = 2
  MaxRequests = 2
  MaxBacklog = 2
  MaxCalls = 2
INVARIANTS QuotaHolds TurnInv
PROPERTIES NoEmptySuccess TurnEnds
CHECK_DEADLOCK FALSE
