SPECIFICATION Spec
CONSTANTS
  one = one
  two = two
  Proc = {one, two}
  Sleepers = {one}
  NoPID = none
  HasHeap = {two}
  MaxFiles = 5
  MaxMQs = 1
  QueueRoom = 1
  DeviceRoom = 2
  MaxBytes = 2
  Used = {0, 3, 4, 5}
  Closable = {4, 5}
  Pauses = {7}
  MaxTicks = 2
INVARIANTS TablesInStep BlockingCallsComplete RefusedCallsMoveNothing
PROPERTIES SleepLooksLongEnough
