SPECIFICATION Spec
CONSTANTS
  line = line
  stall = stall
  exit = exit
  None = None
  LineDetectors <- MCLines
  TickDetectors <- MCTicks
  ExitDetectors <- MCExits
  DetectorOrder <- MCOrder
  SignalCode = 143
  RuleNames = {"restart_it", "rules"}
  ExitCodes = {3}
  StopCodes = {15}
  Configs <- OnlyThrifty
  Budgets = {0}
  PriorRestarts = {0}
  PriorExits = {None}
  MaxEvents = 4
  MaxLines = 1
INVARIANTS
  PauseEndsWithWindow
