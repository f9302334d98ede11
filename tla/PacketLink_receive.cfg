SPECIFICATION LiveSpec
CONSTANTS
  Senders = {a, b}
  Sizes = {2, 3}
  FrameMax = 2
  MTU = 4
  Seqs = {1, 2}
  QueueSize = 1
  Deferred = {TRUE, FALSE}
  Promisc = {TRUE, FALSE}
  MaxPackets = 3
  MaxInterrupting = 2
  a = a
  b = b
INVARIANTS HostGetsWholePackets QueuedPacketsWhole DeliveredInOrder
PROPERTY AllDelivered
