\* A store limited to two of the three keys in use; two ticks to the second, so that
\* TTL truncates.  The keys are interchangeable.
CONSTANTS
  a = a
  b = b
  c = c
  text = text
  None = None
  OK = OK
  ValueError = ValueError
  Keys <- ThreeKeys
  Texts <- OneText
  InputValues <- OnlyText
  Seconds <- EdgeSeconds
  Millis <- OneMilli
  Amounts <- OneAmount
  MaxKeys = 2
  TicksPerSecond = 2
  MaxTime = 2
  MaxCount = 2
SYMMETRY Symmetry
SPECIFICATION Spec
INVARIANTS
  TypeOK
  WithinMaxKeys
PROPERTIES
  RecentlyUsedSurvives
  DeadlineKept
  ImplementsMap
