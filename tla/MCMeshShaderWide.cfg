SPECIFICATION Spec
CONSTANTS
  Shaders <- MCWideArray
INVARIANTS
  ExportsRight
CHECK_DEADLOCK FALSE
