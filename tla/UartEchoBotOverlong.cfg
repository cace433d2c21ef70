\* A line longer than a message, whose rest would be echoed.
CONSTANTS
  MSG_SIZE = 3
  QueueSize = 2
  MaxLines = 2
  MaxLength = 5
SPECIFICATION Spec
INVARIANT OverlongIsDropped
CHECK_DEADLOCK FALSE
