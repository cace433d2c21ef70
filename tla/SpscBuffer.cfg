\* Cancelled reservations, clear() and a generation counter that wraps; while nothing is
\* cancelled the ring is a FIFO channel, and buffers arrive.
CONSTANTS
  N_BUFFERS = 2
  GenMax = 2
  Sizes = {0, 2}
  MaxUses = 3
  AllowCancel = TRUE
  AllowClear = TRUE
SPECIFICATION FairSpec
INVARIANTS
  ExclusiveOwnership
  StaleHandlesInvalid
  DeliveredIntact
PROPERTIES
  ImplementsChannel
  CommittedIsReceived
CHECK_DEADLOCK FALSE
