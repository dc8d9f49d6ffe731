\* Two pool threads; the caller only starts and stops. Restart allowed.
CONSTANTS
  Workers = {w1, w2}
  Caller = main
  UseCaller = FALSE
  Task = {t1, t2}
  Cort = {c1, c2}
  Usage = {"yield", "sleep", "throw", "pin", "stale", "restart"}
  MaxSuspend = 1
  MaxStarts = 2
  Null = Null
SYMMETRY Symmetry
SPECIFICATION Spec
INVARIANTS TypeOK CountersExact NoAssertionFails OneHolder OneThreadPerStack StopDrains
PROPERTIES ImplementsTaskPool
