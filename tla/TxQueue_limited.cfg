SPECIFICATION LiveSpec
CONSTANTS
  QSize = 6
  MaxLen = 3
  MTU = 3
  U8 = 256
  U16 = 65536
  HostLens = {1, 2, 3}
  NodeLens = {1, 2}
  Regimes = {FALSE}
  HostGate = "ready"
  MaxFrames = 6
CHECK_DEADLOCK FALSE
INVARIANTS RingAccounted HostFramesWhole
PROPERTIES RefinesPacketQueue ReadyAgain
