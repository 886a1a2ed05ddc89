SPECIFICATION FairSpec
CONSTANTS
  Requests = {r1, r2, r3}
  Datasets = {d1}
  NoDataset = NoDataset
  Tables = {t1, t2}
  NoSection = NoSection
  NoEntry = NoEntry
  NoFlight = NoFlight
  Flaky = TRUE
  MaxVersion <- MCMaxVersion
INVARIANTS
  TypeOK
  OneFetchPerDataset
  InvalidationHonoured
  CompleteUnlessTroubled
PROPERTIES
  LiveEntryNotOverwritten
  EveryLookupReturns
\* every request is answered in the end
CHECK_DEADLOCK FALSE
