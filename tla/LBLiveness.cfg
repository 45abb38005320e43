\* Requests end, outages and recoveries are noticed, a drained server is left alone.
CONSTANTS
  r1 = r1
  r2 = r2
  x1 = x1
  None = None
  N = 2
  Requests <- OneRequest
  Sessions <- OneSession
  Threshold = 2
  Drainable <- FirstServer
  Conditions <- DownOrSick
  Forgetful <- NoSessions
SPECIFICATION FairSpec
PROPERTIES
  ImplementsProxy
  Answered
  OutageDetected
  RecoveryDetected
  DrainCompletes
