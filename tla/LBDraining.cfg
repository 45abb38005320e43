\* A server that is set to DRAINING comes back by itself.
CONSTANTS
  r1 = r1
  r2 = r2
  x1 = x1
  None = None
  N = 2
  Requests <- OneRequest
  Sessions <- OneSession
  Threshold = 2
  Drainable <- FirstServer
  Conditions <- AlwaysUp
  Forgetful <- NoSessions
SPECIFICATION Spec
PROPERTIES
  DrainingIsKept
