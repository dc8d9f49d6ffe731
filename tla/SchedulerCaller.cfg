\* The caller runs tasks, with a pool thread beside it or alone; another thread
\* goes on scheduling while stop() runs and after it.
CONSTANTS
  Workers = {w1}
  Caller = main
  UseCaller = TRUE
  Task = {t1, t2}
  Cort = {c1, c2}
  Usage = {"yield", "sleep", "throw", "pin", "outside"}
  MaxSuspend = 1
  MaxStarts = 1
  Null = Null
SPECIFICATION FairSpec
INVARIANTS StopDrains
PROPERTIES StopReturns TaskTakenOver
