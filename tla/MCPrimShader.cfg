CONSTANTS
  MaxGsStreams = 2
  MaxTransformFeedbackBuffers = 2
  Shaders <- AllShaders
SPECIFICATION Spec
INVARIANTS ExportsRight RequestFirst UsedNotRaced StreamOutRight VisibleExported
PROPERTIES WavesEnd
CHECK_DEADLOCK FALSE
