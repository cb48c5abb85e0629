CONSTANTS
  Service = {s1, s2}
  Check = {c1}
  None = None
  RestartOnCrash = TRUE
  MaxCrashes = 3
  Threshold = 3
SPECIFICATION Spec
PROPERTY CrashedServicesComeBack
CHECK_DEADLOCK FALSE
