SPECIFICATION VariantFairSpec
CONSTANTS
  a = a
  b = b
  c = c
  t1 = t1
  t2 = t2
  t3 = t3
  Accounts = {a, b, c}
  Ids = {a, b, c}
  Nobody = Nobody
  OpeningBalances <- Balances
  Apps = {"n-tier", "hexagonal", "onion", "clean", "ddd"}
  Transfers = {t1, t2, t3}
  Requests <- RingBodies
  Sent <- RingSent
  MayAbort = TRUE
INVARIANTS
  VariantTypeOK
  NoOverdraft
  ReadsStayCurrent
  RecordsExplainBalances
  EventsMatchRecords
PROPERTIES
  ImplementsLedger
  EveryRequestAnswered
  DeclinedIsRecorded
CHECK_DEADLOCK FALSE
