SPECIFICATION ComponentsSpec
CONSTANTS
  MaxBoxes = 1
  MaxBlips = 1
  MaxJobs = 1
  MaxSlurmFaults = 1
  MaxFollowers = 3
  MaxPidFaults = 2
  MaxStarts = 2
  MaxLines = 4
  QueueSize = 2
  MaxLate = 1
  MaxInodes = 2
  MaxPieces = 2
  MaxMishaps = 0
  Callers = {a, b}
  MaxActions = 1
  MaxDrainCrashes = 1
  MaxCursorFaults = 1
  MaxSeconds = 2
  Sources = {1, 2}
  MaxIncidents = 1
  ShownAtOnce = 2
  Failures <- MCFailures
  PatternThreshold = 2
  MaxVaultIncidents = 3
  MaxVaultChildren = 1
  MaxVaultAttempts = 1
  MaxVaultFaults = 1
  MaxCounted = 1
  MaxResets = 1
  MaxFileFaults = 1
  MaxCalls = 3
  MaxSteps = 2
  MaxHeard = 1
  MaxClock = 0
  MaxTraceLines = 3
  Cooldown = 2
  NoProgress = 2
  MaxChildren = 2
  MaxFixes = 1
  MaxOwnEdits = 1
  MaxGitFailures = 1
INVARIANTS SkipsFirstOpenOnly
CHECK_DEADLOCK FALSE
