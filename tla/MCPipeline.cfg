SPECIFICATION FairSpec
CONSTANTS
  None = None
  N = 2
  MaxRuns = 2
  MaxLaunches = 2
  MaxFaults = 1
  HasDeadline = TRUE
  Kinds = {"local", "docker"}
  Prints = {0, 1}
  Layouts = {0}
  MaxEdits = 1
INVARIANTS
  TypeOK
  CompletionVerified
  EvidenceInOrder
  EvidenceBeforePointer
  OneWorkerUnlessKilled
  FreshBudget
  NothingLeftBehind
CHECK_DEADLOCK FALSE
PROPERTIES
  PipelineEnds
  ImplementsCheckpoint
