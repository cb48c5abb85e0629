SPECIFICATION Spec
CONSTANTS
  Paths = {f1, f2}
  Present = {f1, f2}
  MaxEdits = 3
  UPSERT_BATCH = 1
  FloodThreshold = 1
  MaxEntries = 1
  MaxLingering = 1
  Nobody = Nobody
  Dead = Dead
INVARIANTS
  SkippedFilesAreIndexed
  OneIngestAtATime
  WatchedFilesAreIndexed
CHECK_DEADLOCK FALSE
SYMMETRY FileSymmetry
CONSTRAINT NotShared
