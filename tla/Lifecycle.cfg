SPECIFICATION FairSpec
CONSTANTS
  Requests = {r1, r2, r3}
  d1 = d1
  d2 = d2
  q1 = q1
  q2 = q2
  Squads = {q1, q2}
  Databases = {d1, d2}
  SquadOf <- MCSquadOf
  BigQuery = BigQuery
  NoPool = NoPool
  Grace <- MCGrace
  MaxTime <- MCMaxTime
INVARIANTS
  TypeOK
  OnePoolPerDatabase
  GracefulClose
  CleanExit
PROPERTY
  ServerStops
\* the process exits
CHECK_DEADLOCK FALSE
