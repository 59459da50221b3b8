SPECIFICATION MCSpec
CONSTANTS
  Session = {s1, s2}
  Turn = {e, w}
  Streamed = {e}
  Question = {q1, q2}
  Answerer = {a}
  Canceller = {c}
  Changer = {r}
  None = none
  Runner = {"root", "spawned"}
  Call = {"c1", "c2", "c3"}
  CallOf <- MCCallOf
  Node = {n1, n2}
  Permits = 1
  MaxTokens = 2
  Sess = {z0, z1, z2}
  Root = z0
  NoSess = nosess
  MaxDepth = 1
  Budget = 1
  RepeatHalt = 3
  WatchTurns = 2
  Chains = 2
  TokenBound = 1
INVARIANTS QuestionInv StreamInv DelegationInv ChainInv
PROPERTIES FirstSpawnApproved NobodyWaits
CHECK_DEADLOCK FALSE
