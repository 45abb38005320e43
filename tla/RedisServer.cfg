\* Two clients that queue up to two commands each, and count up to three.
CONSTANTS
  c1 = c1
  c2 = c2
  counter = counter
  None = None
  OK = OK
  ValueError = ValueError
  Keys <- OneKey
  Texts <- NoTexts
  MaxKeys = 0
  TicksPerSecond = 1
  Connections <- TwoConnections
  MaxQueue = 2
  MaxIncr = 3
SPECIFICATION Spec
SYMMETRY Symmetry
INVARIANTS
  TypeOK
  ClientInSync
  CountExact
PROPERTIES
  ExecAnswersQueue
