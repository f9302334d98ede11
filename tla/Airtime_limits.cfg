SPECIFICATION LiveSpec
CONSTANTS
  Bins = 4
  Costs = {1}
  BinMax = 2
  U16 = 4
  MaxDrain = 3
  Limits = {0, 2, 3}
INVARIANTS ChargesKept LimitsRespected
PROPERTY LockOpens
