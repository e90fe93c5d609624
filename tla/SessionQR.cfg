SPECIFICATION FairSpec
CONSTANTS
  MaxClients = 1
  MaxFlows = 1
  NCodes = 2
  MaxBusy = 2
  MaxTroubles = 0
  NULL = NULL
PROPERTY
  QRRenewed
CHECK_DEADLOCK FALSE
