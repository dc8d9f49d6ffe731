\* Documents that change every logger they share.
CONSTANTS
  root = root
  sys = sys
  Name = {root, sys}
  Root = root
  Pattern = {"f0", "f1", "f2"}
  Std = "f0"
  Null = Null
  Document <- Documents
SPECIFICATION Spec
INVARIANTS TypeOK ConfigTakesEffect RemovedSilent
           ValueRoundTrips DumpDefines FatalWritten
