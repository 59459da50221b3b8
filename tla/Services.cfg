SPECIFICATION Spec
CONSTANTS
  Task = {t1, t2}
  Req = {r1}
  HangThreshold = 1
  Lifetime = TRUE
  RestartOnReap = TRUE
  MaxGen = 2
  MaxJobs = 2
  Job <- JobOrder
  Matches <- JobMinutes
  ScanCap = 3
  LastMinute = 5
  MaxEpoch = 1
  StartDays = {0, 10957, 47481}
  WalkDays = 800
  Run = {1, 2}
  Label = {"l"}
  LabelOf <- OneLabel
  Viewer = {v1}
  WatchedRun = 1
  MaxConcurrent = 2
  ReplayCap = 3
  FinishedKeep = 1
  MaxOutput <- WatchedOutput
  MaxCancels <- WatchedCancels
INVARIANTS McpInv ScheduleInv CalendarInv TaskInv
PROPERTIES NoBusyReap WorkEnds
CHECK_DEADLOCK FALSE
