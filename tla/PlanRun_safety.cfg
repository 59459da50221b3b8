SPECIFICATION Safety
CONSTANTS
  Node <- Nodes
  Plans <- TwoPlans
  Large = {}
  Requires <- CAfterA
  MaxReplan = 1
  MaxRecuts = 1
  Faults = TRUE
  Overlap = 1
  MaxCrashes = 2
  MaxResumes = 2
  NoRun = NoRun
  NoGrain = NoGrain
INVARIANTS ZeroReexecution PlanInv
PROPERTIES OkHasOutput
CHECK_DEADLOCK FALSE
