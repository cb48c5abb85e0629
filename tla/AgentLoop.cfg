CONSTANTS
  Note = {p, v}
  Permanent = {p}
  MaxNotes = 1
  None = None
  Threshold = 4
  Margin = 1
  Big = 4
  Roles = {"planner", "worker", "chat"}
  MaxCompactions = 1
  MaxFallbacks = 1
  MaxInvalid = 2
  MaxInvalidCalls = 2
  MaxNudges = 2
  MaxHookTurns = 1
  MaxRounds = 2
  MaxDepth = 1
  MaxSessions = 2
SPECIFICATION Spec
INVARIANTS RequestsAreWellFormed FirstPlannerHasItsNotes UnseenOnlyAfterFailure
PROPERTIES CancelEnds
CHECK_DEADLOCK FALSE
