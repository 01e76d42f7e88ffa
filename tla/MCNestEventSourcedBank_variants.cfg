SPECIFICATION MCSpec
CONSTANTS
  a = a
  b = b
  unused = unused
  t1 = t1
  t2 = t2
  Accounts <- TwoAccounts
  Ids <- AllIds
  Transfers = {t1, t2}
  NoTransfer = NoTransfer
  Requests <- PairRequests
  OpeningBalances <- OneBalance
  SnapshotEvery = 2
  MayAbort = TRUE
PROPERTIES
  UndisturbedIsRestored
  ImplementsEventSourced
  EveryRequestAnswered
  VariantCatchesUp
CHECK_DEADLOCK FALSE
