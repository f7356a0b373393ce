SPECIFICATION FairSpec
CONSTANTS
  line = line
  stall = stall
  exit = exit
  None = None
  LineDetectors <- MCLines
  TickDetectors <- MCTicks
  ExitDetectors <- MCExits
  DetectorOrder <- MCOrder
  SignalCode = 143
  RuleNames = {"restart_it", "rules"}
  ExitCodes = {0, 3}
  StopCodes = {0, 15}
  Configs <- AllConfigs
  Budgets = {0, 1}
  PriorRestarts = {0}
  PriorExits = {0}
  MaxEvents = 3
  MaxLines = 1
INVARIANTS
  TypeOK
  PendingTracked
  EscalationSound
  HealerBudgetRespected
  ExitZeroMeansSuccess
PROPERTIES
  RepeatGuard
  PausedNeverHealed
  ImplementsFixTrial
  DeadChildResolved
  StopEnds
