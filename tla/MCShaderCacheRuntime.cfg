\* Runtime mode: no file; compiles fail. Liveness: no symmetry.
CONSTANTS
  Threads = {t1, t2, t3}
  Keys = {k1}
  Blobs = {b1, Empty}
  NoBlob = NoBlob
  EmptyBlob = Empty
  NoThread = NoThread
  FileOpen = FALSE
  MaxFailures = 2
SPECIFICATION FairSpec
INVARIANT RetrieveNeverNull
PROPERTY FindReturns
