\* Three threads over two days; opening and writing may fail.
CONSTANTS
  Thread = {p1, p2, p3}
  MaxTime = 3
  DayOf <- Days
  Faults = {"openFails", "writeFails"}
SYMMETRY ThreadSymmetry
SPECIFICATION Spec
INVARIANTS NotInOldFile ReopenWorks
