\* Two threads call stop() at the same time.
CONSTANTS
  ThreadCount = 1
  PendingTaskCount = 1
  Callers = {c1, c2}
  Stoppers = {c1, c2}
  Owner = owner
  MaxTasks = 1
  MayFail = {}
SPECIFICATION Spec
INVARIANT JoinedOnce
