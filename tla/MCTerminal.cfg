SPECIFICATION FairSpec
CONSTANTS
  Columns = 2
  Rows = 3
  w1 = w1
  w2 = w2
  Writer = {w1, w2}
  Text <- Lines
  Key = {"k", "newline", "backspace"}
  BufferSize = 4
  MaxCalls = 3
  MaxKeys = 2
  TickPoints <- Anywhere
  KeyPoints <- OutsideFlush
  
PROPERTIES BackspaceSparesOutput WritersFinish
