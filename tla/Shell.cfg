CONSTANTS
  ShellTimeout = 9
  Headroom = 4
  Grace = 1
  Floor = 2
  Poll = 1
  Timeouts = {0, 1, 3, 7}
  PrepareTime = 1
  CheckTime = 1
  FinishTime = 1
  MaxTime = 12
SPECIFICATION ShellSpec
PROPERTIES CommandsReportInTime OnlySilentCommandsAreKilled
CHECK_DEADLOCK FALSE
