\* All byte streams of up to 6 bytes, cut into interrupts in every way, with overflows.
CONSTANTS
  RingSize = 3
  FifoSize = 2
  LineSize = 4
  MaxBytes = 6
SPECIFICATION FairSpec
INVARIANTS
  CountsSentences
  SentenceIntact
PROPERTY AllConsumed
CHECK_DEADLOCK FALSE
