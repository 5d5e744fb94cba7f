\* Two caches of one build at a time share the file; one fault.
CONSTANTS
  Caches = {c1, c2}
  Keys = {"small", "large"}
  Size <- SmallAndLarge
  Builds = {b1, b2}
  NoBuild = NoBuild
  NoKey = NoKey
  Failed = Failed
  Empty = Empty
  Hole = Hole
  DiskModes = {"OnDisk", "OnDiskReadOnly"}
  MixedBuilds = FALSE
  MaxSessions = 3
  MaxShaders = 4
  MaxFaults = 1
SPECIFICATION Spec
SYMMETRY Symmetry
INVARIANTS Durable OnlyOwnBuild 
CHECK_DEADLOCK FALSE
