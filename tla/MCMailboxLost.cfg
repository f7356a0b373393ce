SPECIFICATION Spec
CONSTANTS
  Keys = {k1, k2}
  NoKey = NoKey
  None = None
  Faults = {"raise"}
  MaxNotices = 2
  MaxReplies = 2
  MaxFaults = 1
INVARIANT RepliesLand
