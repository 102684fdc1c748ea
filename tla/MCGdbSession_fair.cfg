SPECIFICATION FairSpec
CONSTANTS
  NumCores = 2
  Elfs = {"a"}
  MaxResets = 1
  MaxFaults = 0
  Stoppable = TRUE
PROPERTIES
  BreakEndsRun
  StopEndsRun
