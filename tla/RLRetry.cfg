\* A client that waits for Retry-After seconds.
CONSTANTS
  c1 = c1
  r1 = r1
  r2 = r2
  None = None
  OK = OK
  ValueError = ValueError
  Keys <- Counters
  Texts <- NoTexts
  MaxKeys = 0
  TicksPerSecond = 1
  Clients <- OneClient
  Requests <- OneRequest
  limit = 2
  window = 2
  MaxDelay = 0
  LastTick = 5
  MaxSent = 4
SPECIFICATION Spec
PROPERTIES
  RetryAfterSuffices
CHECK_DEADLOCK FALSE
