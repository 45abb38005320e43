\* A 503 while another server is healthy.
CONSTANTS
  r1 = r1
  r2 = r2
  x1 = x1
  None = None
  N = 2
  Requests <- OneRequest
  Sessions <- OneSession
  Threshold = 2
  Drainable <- NoServers
  Conditions <- OneDown
  Forgetful <- NoSessions
SPECIFICATION Spec
PROPERTIES
  UnavailableOnlyIfNoneHealthy
