\* Tasks that yield and pin work to any thread.
CONSTANTS
  Workers = {w1, w2}
  Caller = main
  UseCaller = FALSE
  Task = {t1, t2}
  Cort = {c1, c2}
  Usage = {"yield", "pin", "pinOther"}
  MaxSuspend = 1
  MaxStarts = 1
  Null = Null
SPECIFICATION FairSpec
PROPERTIES TaskTakenOver
