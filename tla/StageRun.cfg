CONSTANTS
  Stage = {s1}
  Task = {t1}
  None = None
  Result = {completed}
  MayFail = TRUE
  MayTear = TRUE
  MaxQueue = 3
SPECIFICATION Spec
INVARIANTS EventsFollowDocuments RecoveryFollowsReports
CHECK_DEADLOCK FALSE
