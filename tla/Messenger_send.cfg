SPECIFICATION LiveSpec
CONSTANTS
  PENDING_OUTBOUND_SIZE = 2
  PENDING_PROOFS_SIZE = 1
  RESOURCES_SIZE = 1
  MaxAttempts = 2
  MaxSends = 3
CHECK_DEADLOCK FALSE
INVARIANTS OneVerdict OutcomeIsTracked OnlyConfirmedInHistory SentIsWatched
PROPERTIES ConfirmedKept QueueMoves
