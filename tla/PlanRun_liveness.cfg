SPECIFICATION Spec
CONSTANTS
  Node <- Nodes
  Plans <- OnePlan
  Large = {"b"}
  Requires <- NoRules
  MaxReplan = 2
  MaxRecuts = 1
  Faults = TRUE
  Overlap = 1
  MaxCrashes = 1
  MaxResumes = 1
  NoRun = NoRun
  NoGrain = NoGrain
INVARIANTS BudgetsHold
PROPERTIES DriverEnds
CHECK_DEADLOCK FALSE
