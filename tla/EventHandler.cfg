\* Immediate, delayed and repeated events, shutdown from outside and inside.
CONSTANTS
  MaxEventCount = 2
  Delays = {0, 2}
  Repeats = {2}
  Intervals = {0, 1}
  MaxEvents = 3
  MaxTime = 3
  MayFail = TRUE
SPECIFICATION FairSpec
INVARIANTS
  SlotsAccounted
  NoOversleep
  RunsExactly
  NoUseAfterDestroy
PROPERTIES
  StartsInDueOrder
  EventsComplete
  ShutdownTerminates
CHECK_DEADLOCK FALSE
