SPECIFICATION FairSpec
CONSTANTS
  MaxProcesses = 3
  MaxPid = 4
  Waited = {2}
  TickPoints <- OutsideWindows
  CreateMayFail = TRUE
CONSTRAINT NoneFailed
INVARIANTS TablesComplete RightProcessRuns
PROPERTIES ImplementsRoundRobin WaitpidWaits EveryoneGetsTheCPU BusyWaitsEnd
