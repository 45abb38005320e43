\* An unlimited store; DEL of a key that expired without being looked up.
CONSTANTS
  a = a
  b = b
  c = c
  text = text
  None = None
  OK = OK
  ValueError = ValueError
  Keys <- TwoKeys
  Texts <- OneText
  InputValues <- OnlyText
  Seconds <- EdgeSeconds
  Millis <- OneMilli
  Amounts <- OneAmount
  MaxKeys = 0
  TicksPerSecond = 2
  MaxTime = 2
  MaxCount = 2
SPECIFICATION Spec
PROPERTIES
  DelCountsTheLiving
