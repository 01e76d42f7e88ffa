SPECIFICATION Spec
CONSTANTS
  a1 = a1
  a2 = a2
  a3 = a3
  s1 = s1
  s2 = s2
  unknown = unknown
  malformed = malformed
  AccountIds = {a1, a2, a3}
  Slots = {s1, s2}
  UnknownId = unknown
  MalformedId = malformed
  Apps = {"cqrs-es", "cqrs-es-nestjs"}
  Deployments <- MCDeployments
  Accounts <- MCAccounts
  Limit = 1
  MayFail = TRUE
INVARIANT
  ConflictsAre409
CHECK_DEADLOCK FALSE
