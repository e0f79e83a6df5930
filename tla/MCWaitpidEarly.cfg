SPECIFICATION Spec
CONSTANTS
  MaxProcesses = 4
  MaxPid = 5
  Waited = {3}
  TickPoints <- OutsideWindows
  CreateMayFail = FALSE
PROPERTIES ReturnsWhenFinished
CHECK_DEADLOCK FALSE
