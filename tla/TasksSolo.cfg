SPECIFICATION Spec
CONSTANTS
  p1 = p1
  c1 = c1
  t1 = t1
  n1 = n1
  NULL = NULL
  Absent = Absent
  Persons = {p1}
  Categories = {c1}
  Seeded = {}
  Titles = {t1}
  Notes = {n1}
  Requests = {r1}
  Recs <- MCRecs
  Drafts <- SoloDrafts
  Edits <- SoloEdits
  Presets = {1}
  DriverModes = {FALSE}
  FreshUI = TRUE
  Aborts = FALSE
  MaxTasks = 3
  MaxDay = 1
INVARIANTS
  OneOpenOccurrence
  NextOccurrenceCreated
PROPERTIES
  ChoreGoesOn
CONSTRAINT FewOneOffs
CHECK_DEADLOCK FALSE
