SPECIFICATION ScoreSpec
CONSTANTS
  emp = emp  col = col  hr = hr
  Person = {emp, col, hr}
  Profiles <- MCProfiles
  Month <- MCMonth
  Periods <- MCPeriods
  Starts <- MCStarts
  Steps = {1}
  Targets = {5, 20}
  MaxOps = 1
  None = None
INVARIANTS ScoreTypeOK HundredIsTheTop 
PROPERTIES MoreNeverLowers
CHECK_DEADLOCK FALSE
