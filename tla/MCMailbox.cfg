SPECIFICATION FairSpec
CONSTANTS
  Keys = {k1}
  NoKey = NoKey
  None = None
  Faults = {"refuse", "raise", "io", "crash", "restart"}
  MaxNotices = 2
  MaxReplies = 2
  MaxFaults = 2
INVARIANTS TypeOK SeenIsKept PassedIsApplied AtMostOnceWithoutFaults
PROPERTIES SentOnce RepliesApplied
