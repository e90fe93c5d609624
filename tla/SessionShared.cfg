SPECIFICATION FairSpec
CONSTANTS
  MaxClients = 2
  MaxFlows = 2
  NCodes = 2
  MaxBusy = 2
  MaxTroubles = 2
  NULL = NULL
INVARIANTS
  TypeOK
  RowTruthful
  DisconnectHangsUp
PROPERTIES
  FlowsAreStreams
  LoginShown
CONSTRAINT Followed
CHECK_DEADLOCK FALSE
