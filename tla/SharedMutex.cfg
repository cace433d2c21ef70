CONSTANTS
  Threads = {t1, t2, t3}
  MaxReaders = 2
  WriterBit = 8
SPECIFICATION MutexFairSpec
INVARIANTS
  Exclusion
PROPERTIES
  OvertakenAtMostOnce
  ReadersCannotStarveWriter
