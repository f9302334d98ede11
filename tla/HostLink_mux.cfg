SPECIFICATION LiveSpec
CONSTANTS
  Counted = 2
  CMD_L = 2
  Streams <- MCStreams
  Room = 1
  WsSize = 2
  RxSize = 1
  MaxHosts = 2
CHECK_DEADLOCK FALSE
INVARIANTS ExclusiveHost  FramesCarriedOut
PROPERTY LoneHostServed
