\* Two helpers; requests of up to three shaders, one after the other.
CONSTANTS
  Main = m
  Helpers = {h1, h2}
  Requests <- requests
  Plans <- plans
  Shader <- shaders
  FlagBits = {1, 2}
  NoThread = NoThread
  NoRequest = NoRequest
  MaxFaults = 1
SPECIFICATION Spec
INVARIANTS ResultRight SummaryComplete OutputComplete MainContextExclusive
PROPERTIES ReturnsUnlessStranded
CHECK_DEADLOCK FALSE
