SPECIFICATION Spec
CONSTANTS
  a = a
  b = b
  unused = unused
  t1 = t1
  t2 = t2
  t3 = t3
  Accounts <- TwoAccounts
  Ids <- AllIds
  Transfers = {t1, t2}
  NoTransfer = NoTransfer
  Requests <- HotRequests
  OpeningBalances <- OneBalance
  SnapshotEvery = 2
  MayAbort = TRUE
INVARIANTS
  NoPartialUpdate
CHECK_DEADLOCK FALSE
