SPECIFICATION FairSpec
CONSTANTS
  NCodes = 2
  Capacity = 2
  MaxNotices = 1
INVARIANTS
  OneCloser
  SilentEndExplained
PROPERTIES
  StreamSpec
  StreamEnds
  HangsUp
CHECK_DEADLOCK FALSE
