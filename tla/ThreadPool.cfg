\* A thread and the tasks of both workers call stop(); any pthread call of the constructor may fail.
CONSTANTS
  ThreadCount = 2
  PendingTaskCount = 2
  Callers = {c1, c2}
  Stoppers = {c1, 1, 2}
  Owner = owner
  MaxTasks = 5
  MayFail = {"mutex", "cond", "create"}
SPECIFICATION FairSpec
INVARIANTS
  SlotsAccounted
  PendingInOrder
  NoLostWakeup
  NoUseAfterDestroy
PROPERTIES
  AcceptedIsTaken
  StopTerminates
