SPECIFICATION Spec
CONSTANTS
  FirstYear = 2027
  Months = 15
  FirstWeekday = 5
  Starts <- MCStarts
  Recs <- MCRecs
  Todays <- MCTodays
  StampModes = {TRUE, FALSE}
INVARIANTS
  TypeOK
  MonthlyDrift
  NoneBetweenViews
  WindowsNearlyRight
CHECK_DEADLOCK FALSE
