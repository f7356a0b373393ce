SPECIFICATION ComponentsSpec
CONSTANTS
  MaxBoxes = 2
  MaxBlips = 1
  MaxJobs = 3
  MaxSlurmFaults = 1
  MaxFollowers = 3
  MaxPidFaults = 2
  MaxStarts = 2
  MaxLines = 4
  QueueSize = 2
  MaxLate = 1
  MaxInodes = 2
  MaxPieces = 3
  MaxMishaps = 1
  Callers = {a, b}
  MaxActions = 3
  MaxDrainCrashes = 1
  MaxCursorFaults = 1
  MaxSeconds = 2
  Sources = {1, 2}
  MaxIncidents = 4
  ShownAtOnce = 2
  Failures <- MCFailures
  PatternThreshold = 2
  MaxVaultIncidents = 3
  MaxVaultChildren = 1
  MaxVaultAttempts = 1
  MaxVaultFaults = 1
  MaxCounted = 1
  MaxResets = 1
  MaxFileFaults = 1
  MaxCalls = 3
  MaxSteps = 2
  MaxHeard = 3
  MaxClock = 2
  MaxTraceLines = 3
  Cooldown = 2
  NoProgress = 2
  MaxChildren = 2
  MaxFixes = 2
  MaxOwnEdits = 2
  MaxGitFailures = 1
INVARIANTS ComponentsTypeOK ChildIsHeard OneChild NewestLinesKept HeardOnce
  NonePassedOver VaultConsistent ReadersSeeWhole AnswerIsOwn RejectedNotReturned
  DetectorsSound ResetSticks WorkKept
PROPERTIES DeadBoxResolved WrittenIsHeard
CHECK_DEADLOCK FALSE
