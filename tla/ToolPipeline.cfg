SPECIFICATION Spec
CONSTANTS
  Call = {"read", "outside", "shell", "ask", "old", "hidden", "never", "send", "bold"}
  ReadOnly = {"read", "outside"}
  Idempotent = {"read", "outside"}
  Refused = {"hidden"}
  Narrowed = {"never"}
  Denied = {"never"}
  Candidate = {"shell"}
  Legacy = {"old", "bold"}
  SelfApproved = {"bold", "shell"}
  Question = {"ask"}
  Intents <- OneIntent
  Forbidden = {"outside"}
  Cap = 2
  MaxRetries = 1
  MaxPolls = 1
  Hooks = TRUE
  Faults = TRUE
  Nobody = Nobody
  Answers <- Triples
  MaxBatch = 3
  MaxRounds = 2
  MaxLate = 1
INVARIANTS ForbiddenNeverRuns AtMostOnce EffectIsApproved ApprovalsFiledRight
PROPERTIES RoundEnds
CHECK_DEADLOCK FALSE
