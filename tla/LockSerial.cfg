CONSTANTS
  Proc = {p1, p2}
  NoFile = NoFile
  Overlap = FALSE
  MayAge = TRUE
SPECIFICATION Spec
INVARIANTS ExclusiveUnlessExpired
PROPERTIES NoLiveTakeover AttemptEnds
CHECK_DEADLOCK FALSE
