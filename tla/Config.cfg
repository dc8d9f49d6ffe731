\* Two threads create, load, set, visit and listen; a listener throws, looks
\* names up and may want to write its own variable.
CONSTANTS
  n1 = n1
  n2 = n2
  bad = bad
  a = a
  b = b
  Thread = {p1, p2}
  Setters = {p1, p2}
  Var = {v1, v2}
  Val = {a, b}
  BadVal = BadVal
  Name = {n1, n2, bad}
  BadName = {bad}
  Default = a
  Listener = {l1, l2}
  Throwing = {l2}
  Reentrant = {l2}
  Creating = {l2}
  MaxOps = 5
  Null = Null
  Document <- Documents
SPECIFICATION FairSpec
INVARIANTS RegistryTypeOK HeldIsRegistered LoadTakesEffect LoadWhole ListenersUpToDate
           KeptUnlessMixed
PROPERTIES CallsReturn
