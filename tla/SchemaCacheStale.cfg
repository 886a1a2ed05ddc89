SPECIFICATION Spec
CONSTANTS
  Requests = {r1, r2, r3}
  Datasets = {d1}
  NoDataset = NoDataset
  Tables = {t1, t2}
  NoSection = NoSection
  NoEntry = NoEntry
  NoFlight = NoFlight
  Flaky = TRUE
  MaxVersion <- MCMaxVersion
INVARIANT InvalidationForcesRefetch
CHECK_DEADLOCK FALSE
