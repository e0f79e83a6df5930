SPECIFICATION Spec
CONSTANTS
  NumProc = 2
  m = m
  n = n
  o = o
  Name <- Names
  MaxMQs = 2
  MaxFiles = 2
  MaxFDs = 2
  FDsLeft <- OneAndTwo
  Wrap = 4
  GoOn = FALSE
SYMMETRY Symmetric
INVARIANTS QueueIsOpen EndIsMine TablesAgree MutexesHeld
PROPERTIES OpenFailsForAReason
