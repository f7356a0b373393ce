SPECIFICATION Spec
CONSTANTS
  Keys = {k1}
  NoKey = NoKey
  None = None
  Faults = {"crash"}
  MaxNotices = 1
  MaxReplies = 2
  MaxFaults = 1
INVARIANT AppliedOnce
