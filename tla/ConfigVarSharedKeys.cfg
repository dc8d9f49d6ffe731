\* Listeners of two variables of the same type.
CONSTANTS
  Thread = {p1, p2}
  Setters = {}
  Var = {v1, v2}
  Val = {a, b, c}
  Default = a
  Listener = {l1, l2, l3, l4}
  Throwing = {}
  Reentrant = {}
  MaxOps = 4
  Null = Null
SYMMETRY ListenerSymmetry
SPECIFICATION ConfigVarSpec
INVARIANTS ListenerKept
