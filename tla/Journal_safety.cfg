SPECIFICATION MCSpec
CONSTANTS
  w1 = w1
  w2 = w2
  Opener = {w1, w2}
  Handles = 2
  MaxWrites = 5
  ToolName = {x, y}
  PersistMode = {"every_message", "every_n", "per_react_round"}
  BatchSize = 2
  GuardRetries = 1
  MaxMessages = 5
  MaxTrouble = 2
SYMMETRY OpenerSymmetry
INVARIANTS JournalVerifies JournalInv HistoryInv
PROPERTIES GrowsOnly
CHECK_DEADLOCK FALSE
