\* On-disk cache whose file can fail; no symmetry because of liveness.
CONSTANTS
  Threads = {t1, t2}
  Keys = {k1, k2}
  Blobs = {b1, Empty}
  NoBlob = NoBlob
  EmptyBlob = Empty
  NoThread = NoThread
  FileOpen = TRUE
  MaxFailures = 2
SPECIFICATION AFairSpec
INVARIANTS ObligationTracked ElfStaysValid
PROPERTY AccessorsFinish
\* A thread stops at an assertion that does not hold.
CHECK_DEADLOCK FALSE
