\* One CA: revocations arrive during a scheduled pass.
SPECIFICATION Spec
CONSTANTS
  A = A
  C = C
  None = None
  Label <- OneLabel
  Order <- OneOrder
  Urgent = {A}
  Serial = {1, 2}
  WakesPerPass = 2
  MaxMade = 4
  Operators = {}
  Faults = {}
CHECK_DEADLOCK FALSE
PROPERTY BaselineIsProduced
