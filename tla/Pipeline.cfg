\* Two requests, a limit of one for one of two paths and of two for all others.
CONSTANTS
  r1 = r1
  r2 = r2
  None = None
  Requests <- TwoRequests
  Names <- TwoNames
  ENDPOINT_LIMITS <- Limits
  DEFAULT_LIMIT = 2
SPECIFICATION FairSpec
INVARIANTS
  TypeOK
  Truthful
  EndpointLimit
PROPERTIES
  Answered
CHECK_DEADLOCK FALSE
