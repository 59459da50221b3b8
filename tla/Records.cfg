SPECIFICATION Spec
CONSTANTS
  TurnQuota = 3
  MaxEvents = 5
  MaxTools = 4
  MaxTurns = 2
  MaxFaults = 2
  MaxStarts = 2
  Writer = {w1, w2}
  Path = {p1}
  Content = {a, b}
  Gone = Gone
  StackDepth = 2
  UndoSteps = 5
  m1 = m1
  Manager = {m1, m2}
  topic = topic
  topic2 = topic2
  SessionKey = {topic, topic2}
  Event = {e}
  Content_ = {a}
  Null = Null
  Nothing = Nothing
  PrefixOf <- TopicPrefix
  Nested = {}
  Gate = TRUE
  PromoteUses = 1
  MaxFacts = 3
  MaxHits = 1
  MaxUsage = 1
INVARIANTS TrackInv CheckpointInv MemoryInv
PROPERTIES EffectsKept UsageKept
CHECK_DEADLOCK FALSE
