SPECIFICATION Spec
CONSTANTS
  line = line
  stall = stall
  exit = exit
  None = None
  LineDetectors <- MCLines
  TickDetectors <- MCTicks
  ExitDetectors <- MCExits
  DetectorOrder <- MCOrder
  SignalCode = 143
  RuleNames = {"restart_it", "rules"}
  ExitCodes = {3}
  StopCodes = {15}
  Configs <- OnlyHealing
  Budgets = {0}
  PriorRestarts = {0}
  PriorExits = {None}
  MaxEvents = 3
  MaxLines = 1
INVARIANTS
  RegressedFixReverted
