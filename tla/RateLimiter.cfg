SPECIFICATION FairSpec
CONSTANTS
  Requests = {r1, r2, r3}
  HeaderKeys = {k1}
  RemoteAddrs = {a1}
  NoHeader = NoHeader
  NoWindow = NoWindow
  Limit <- MCLimit
  Minute <- MCMinute
  CleanupEvery <- MCCleanupEvery
  MaxTime <- MCMaxTime
INVARIANTS
  WindowLimit
  KeyLimitBarringStrays
PROPERTIES
  CleanupForgetsNothing
  ImplementsSlidingWindow
  EveryRequestAnswered
\* the clock stops at MaxTime and every request is then answered
CHECK_DEADLOCK FALSE
