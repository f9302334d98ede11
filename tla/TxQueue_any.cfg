SPECIFICATION Spec
CONSTANTS
  QSize = 6
  MaxLen = 3
  MTU = 3
  U8 = 256
  U16 = 65536
  HostLens = {0, 1, 3}
  NodeLens = {1, 3}
  Regimes = {TRUE, FALSE}
  HostGate = "any"
  MaxFrames = 5
CHECK_DEADLOCK FALSE
INVARIANTS TypeOK FifosAgree
