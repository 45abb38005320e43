\* Two requests at a time, a backend that goes down and comes back, pins that get lost.
CONSTANTS
  r1 = r1
  r2 = r2
  x1 = x1
  None = None
  N = 2
  Requests <- TwoRequests
  Sessions <- OneSession
  Threshold = 2
  Drainable <- NoServers
  Conditions <- OneDown
  Forgetful <- OneSession
SPECIFICATION Spec
SYMMETRY Symmetry
INVARIANTS
  TypeOK
  ConnsExact
  Sticky
  StatusMatchesFailures
