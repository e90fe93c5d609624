SPECIFICATION Spec
CONSTANTS
  p1 = p1
  c1 = c1
  t1 = t1
  n1 = n1
  NULL = NULL
  Absent = Absent
  Persons = {p1}
  Categories = {}
  Seeded = {}
  Titles = {t1}
  Notes = {n1}
  Requests = {r1, r2}
  Recs <- MCRecs
  Drafts <- SharedDrafts
  Edits <- SharedEdits
  Presets = {1}
  DriverModes = {FALSE}
  FreshUI = TRUE
  Aborts = FALSE
  MaxTasks = 3
  MaxDay = 0
INVARIANTS
  OneOpenOccurrence
CHECK_DEADLOCK FALSE
