\* Two CAs, every fault, on-demand signing, rotation and reloads.
SPECIFICATION FairSpec
CONSTANTS
  A = A
  C = C
  None = None
  Label <- TwoLabel
  Order <- TwoOrder
  Urgent = {A}
  Serial = {1}
  WakesPerPass = 2
  MaxMade = 6
  Operators = {"sign", "reload", "rotate"}
  Faults = {"source", "material", "write", "fsync", "load", "hang", "kill"}
CHECK_DEADLOCK FALSE
INVARIANT TypeOK
INVARIANT AnnouncedIsRecorded
INVARIANT PassCovers
PROPERTY LockIsReleased
