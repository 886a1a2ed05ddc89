SPECIFICATION FairSpec
CONSTANTS
  Statements = {s1, s2}
  NoSQL = NoSQL
  Callable <- MCCallable
  Exclusions <- MCExclusions
  MaxIter <- MCMaxIter
  ForceAt <- MCForceAt
  MaxCalls <- MCMaxCalls
INVARIANTS
  TypeOK
  CallsBounded
  EveryCallAnswered
  FallbackIsLastRun
  TerminalEventLast
  DryRunExecutesNothing
  RowsAreChecked
PROPERTY
  RequestEnds
\* the one request ends
CHECK_DEADLOCK FALSE
