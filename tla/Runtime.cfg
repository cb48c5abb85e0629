CONSTANTS
  Stage = {s1}
  None = None
  Restart = {r1, r2}
  Reason = {q1, q2}
  Default = Default
  Continuous = TRUE
  MayFail = TRUE
  MayCrash = TRUE
SPECIFICATION Spec
INVARIANTS FileIsCurrent ReasonsSurvive
PROPERTIES NoSessionAfterSignal ShutdownEnds RestartDuringSessionIsTold
CHECK_DEADLOCK FALSE
