SPECIFICATION LiveSpec
CONSTANTS
  PreambleMs = 1
  HeaderMs = 2
  Gaps = {1, 3}
  Restarts = TRUE
INVARIANT NoLostEdge
PROPERTIES Served CarrierReleased
