CONSTANTS
  Threads = {t1, t2}
  NoShader = NoShader
  Missing = Missing  Compiling = Compiling  Empty = Empty
  v1 = v1  v2 = v2  f1 = f1  f2 = f2  g1 = g1  b1 = b1  c1 = c1
  vBad = vBad  fBad = fBad  cBad = cBad
  Writes <- writes
  Reads <- reads
  Generic = {g1}
  Barycentric = {b1}
  Bad = {vBad, fBad, cBad}
  Scenarios <- scenarios
  MaxBuilds = 3
SPECIFICATION Spec
INVARIANTS AnswersRequest FailedCodeConfined NothingLeftBehind
PROPERTY BuildsReturn
CHECK_DEADLOCK FALSE
