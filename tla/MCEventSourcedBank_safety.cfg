SPECIFICATION Spec
CONSTANTS
  a = a
  b = b
  unused = unused
  t1 = t1
  t2 = t2
  t3 = t3
  Accounts <- TwoAccounts
  Ids <- AllIds
  Transfers = {t1, t2, t3}
  NoTransfer = NoTransfer
  Requests <- MixedRequests
  OpeningBalances <- Balances
  SnapshotEvery = 2
  MayAbort = TRUE
SYMMETRY TransferSymmetry
INVARIANTS
  TypeOK
  NoOverdraft
  DoubleEntry
  Conservation
  LoadedIsSumOfEvents
  ConflictIsContention
  FailedWasShort
  ReadModelLag
  SnapshotIsReplay
PROPERTIES
  ImplementsLedger
CHECK_DEADLOCK FALSE
