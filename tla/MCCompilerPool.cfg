\* Contexts: three clients, two chips, rejected command lines.
CONSTANTS
  Clients = {p1, p2, p3}
  Options = {o1, o2}
  NoOptions = NoOptions
  GfxIps = {g1, g2}
  Contexts = {c1, c2}
  ContextReuseLimit = 1
  MaxUses = 3
  MaxResident = 0
SPECIFICATION Spec
SYMMETRY Symmetry
INVARIANTS ExclusiveUse PoolAlive OptionsNotMixed
\* A client stops at llvm_unreachable.
CHECK_DEADLOCK FALSE
