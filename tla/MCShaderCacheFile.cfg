\* On-disk mode: insertions can be rolled back.
CONSTANTS
  Threads = {t1, t2, t3}
  Keys = {k1, k2}
  Blobs = {b1, Empty}
  NoBlob = NoBlob
  EmptyBlob = Empty
  NoThread = NoThread
  FileOpen = TRUE
  MaxFailures = 2
SPECIFICATION Spec
SYMMETRY Symmetry
INVARIANTS OneCompiler NoMissedWakeup HandedOutBlobStays HitRetrieves
PROPERTY ImplementsCompileOnce
