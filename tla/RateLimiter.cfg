\* Overlapping requests of one client, counted late or out of order, by a Redis that may
\* lose its counters.
CONSTANTS
  c1 = c1
  r1 = r1
  r2 = r2
  None = None
  OK = OK
  ValueError = ValueError
  Keys <- Counters
  Texts <- NoTexts
  MaxKeys = 0
  TicksPerSecond = 1
  Clients <- OneClient
  Requests <- TwoRequests
  limit = 2
  window = 2
  MaxDelay = 3
  LastTick = 6
  MaxSent = 4
SPECIFICATION Spec
SYMMETRY Symmetry
INVARIANTS
  TypeOK
  WindowLimit
  NothingForgotten
  NoDoubleBurst
PROPERTIES
  RemainingHonest
CHECK_DEADLOCK FALSE
