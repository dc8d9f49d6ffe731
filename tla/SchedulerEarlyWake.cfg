\* A coroutine is scheduled for its wake-up before it has left its thread.
CONSTANTS
  Workers = {w1, w2}
  Caller = main
  UseCaller = FALSE
  Task = {t1}
  Cort = {c1}
  Usage = {"sleep", "earlyWake"}
  MaxSuspend = 1
  MaxStarts = 1
  Null = Null
SPECIFICATION Spec
INVARIANTS OneThreadPerStack
