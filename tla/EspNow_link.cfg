SPECIFICATION LiveSpec
CONSTANTS
  Senders = {1, 2}
  Sizes = {2, 5}
  ChunkSize = 2
  MTU = 5
  Seqs = {1, 2}
  TxQueueSize = 3
  QueueSize = 1
  MaxPackets = 2
  MaxAlone = 3
CHECK_DEADLOCK FALSE
INVARIANTS Pacing DamageContained UndamagedDelivered GivenOnce
PROPERTY QueueDrains
