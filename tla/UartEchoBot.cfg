\* Lines shorter than, as long as and longer than a message; a full queue.
CONSTANTS
  MSG_SIZE = 3
  QueueSize = 2
  MaxLines = 4
  MaxLength = 4
SPECIFICATION FairSpec
INVARIANTS
  EchoIsLine
  EchoInOrder
  NoLossBelowCapacity
PROPERTY QueuedIsEchoed
CHECK_DEADLOCK FALSE
