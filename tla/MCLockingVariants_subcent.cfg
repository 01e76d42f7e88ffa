SPECIFICATION VariantSpec
CONSTANTS
  a = a
  b = b
  c = c
  t1 = t1
  t2 = t2
  t3 = t3
  Accounts = {a, b, c}
  Ids = {a, b, c}
  Nobody = Nobody
  OpeningBalances <- Balances
  Apps = {"n-tier", "hexagonal", "onion", "clean", "ddd"}
  Transfers = {t1, t2}
  Requests <- SubCentBodies
  Sent <- SubCentSent
  MayAbort = FALSE
INVARIANT
  MoneyIsConserved
CHECK_DEADLOCK FALSE
