CONSTANTS
  s1 = s1
  StageId = {s1}
  None = None
  StageLists <- MCStageLists
  Job = {j1, j2}
  NoCall = NoCall
SPECIFICATION Spec
INVARIANTS EffectsFollowTheWrite CacheIsTheFile
PROPERTIES AbstractSpec CallsEnd
CHECK_DEADLOCK FALSE
