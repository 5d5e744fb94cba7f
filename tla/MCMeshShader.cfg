SPECIFICATION Spec
CONSTANTS
  Shaders <- MCShaders
INVARIANTS
  InStep
  ExportsRight
  OneRequest
PROPERTIES
  WavesEnd
CHECK_DEADLOCK FALSE
