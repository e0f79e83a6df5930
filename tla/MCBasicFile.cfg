SPECIFICATION FairSpec
CONSTANTS
  a = a
  b = b
  noByte = noByte
  Byte <- MCByte
  EOF <- noByte
  Size = 3
  MaxBytes = 2
INVARIANTS NoSlotRace AnswersStayTrue
PROPERTIES ImplementsFIFO BytesKeepFlowing
