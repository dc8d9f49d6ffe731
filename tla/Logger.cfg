\* Two threads log while a third changes the loggers.
CONSTANTS
  Writers = {p1, p2}
  Configurers = {p3}
  Name = {root, sub}
  Root = root
  Appender = {a0, a1}
  First = a0
  Formatter = {f0, f1}
  Std = f0
  Level = {1, 2}
  MaxLogs = 1
  MaxChanges = 3
  Null = Null
SPECIFICATION FairSpec
INVARIANTS NoNullFormatter FormatterRight SameOrder OneRoute
PROPERTIES CallsReturn
