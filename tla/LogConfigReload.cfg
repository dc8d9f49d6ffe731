\* One logger stays as it is while another is added.
CONSTANTS
  root = root
  sys = sys
  Name = {root, sys}
  Root = root
  Pattern = {"f0", "f1", "f2"}
  Std = "f0"
  Null = Null
  Document <- Reloads
SPECIFICATION Spec
INVARIANTS ListenerReturns
