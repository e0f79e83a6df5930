SPECIFICATION Spec
CONSTANTS
  StdinSize = 4
  RawSize = 2
  MaxBytes = 2
  MaxRepeats = 1
  Keys = {"letter", "enter", "backspace", "lshift", "lshiftUp", "rshift", "rshiftUp"}
  Modes = {"TTY", "RAW"}
  KeyPoints <- OutsideLoadStore
  ErasePoints <- OutsideDequeue
INVARIANTS LinesAreCounted ShiftMeansHeld
PROPERTIES ImplementsLineQueue RawKeysAreFIFO
CONSTRAINT OneBufferUsed
