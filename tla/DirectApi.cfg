SPECIFICATION FairSpec
CONSTANTS
  c1 = c1
  c2 = c2
  p1 = p1
  p2 = p2
  i1 = i1
  i2 = i2
  both = both
  shared = shared
  Calls <- MCCalls
  MaxConns = 1
  MaxItems = 1
  MaxBytes = 1
  AuditEnabled = TRUE
  Patterns <- MCPatterns
  Indices <- MCIndices
  Expressions <- MCExpressions
  Reaches <- MCReaches
  Matches <- MCMatches
  Scopes <- MCScopes
  ServicePatterns <- MCServicePatterns
  Shared <- shared
CHECK_DEADLOCK FALSE
INVARIANTS
  TypeOK
  WholeOrNothing
  OwnPatterns
  QueryAccounted
PROPERTIES
  TimedCallsReturn
