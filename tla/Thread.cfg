\* Pools of up to 2 threads, started twice, and 2 threads of the program's own.
CONSTANTS
  MaxThreads = 6
  MaxCount = 2
  MaxOwn = 2
  Faults = {"create", "signal"}
SPECIFICATION FairSpec
INVARIANTS IdsKnown NoStrayWrite ReapedOnce CrashAfterFailureOnly
PROPERTIES CallsReturn
