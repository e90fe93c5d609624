SPECIFICATION Spec
CONSTANTS
  m1 = m1
  m2 = m2
  m3 = m3
  j1 = j1
  c1 = c1
  i1 = i1
  i2 = i2
  NULL = NULL
  Msgs = {m1, m2, m3}
  Jids = {j1}
  Sender <- MCSender
  Ignored = {m3}
  Categories = {c1}
  Items = {i1, i2}
  Named <- MCNamed
  Handlers = {h1}
  BatchSize = 1
  Aborts = TRUE
  MaxSyncs = 2
INVARIANTS
  TypeOK
  WhitelistHeld
  MarkedOnlyWhenStored
  DuplicatesExplained
PROPERTIES
  PipelineSpec
  ReadIsProcessed
CONSTRAINT Followed
CHECK_DEADLOCK FALSE
