SPECIFICATION Spec
CONSTANTS
  p1 = p1
  NULL = NULL
  MaxId = 2
  Persons = {p1}
  Name <- MCName
  Later = {}
  Filters = {"pending", "done"}
  Windows = {FALSE}
  Faults = TRUE
  MaxLoads = 3
  MaxActs = 1
  MaxChanges = 1
INVARIANTS
  TypeOK
  FilterShown
  OwnChangesShown
  SelectionListed
  GroupedOnce
  BusyTruthful
VIEW WithoutPast
CONSTRAINT Followed
CHECK_DEADLOCK FALSE
