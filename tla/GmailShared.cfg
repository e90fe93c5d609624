SPECIFICATION Spec
CONSTANTS
  e1 = e1
  e2 = e2
  e3 = e3
  a1 = a1
  a2 = a2
  NULL = NULL
  Emails = {e1, e2, e3}
  Accounts = {a1, a2}
  Of <- MCOf
  Skew <- MCSkew
  Items = {i1}
  BatchSize = 1
  Lookback = 1
  Faults = TRUE
  MaxDay = 2
  MaxConnects = 2
  MaxSyncs = 2
INVARIANTS
  TypeOK
  NothingSkipped
  OneSyncPerMail
  TokensOfOneAccount
PROPERTIES
  DisconnectIsFinal
CHECK_DEADLOCK FALSE
