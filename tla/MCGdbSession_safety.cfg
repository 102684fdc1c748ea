SPECIFICATION Spec
CONSTANTS
  NumCores = 2
  Elfs = {"a"}
  MaxResets = 1
  MaxFaults = 1
  Stoppable = FALSE
INVARIANTS
  DebuggedKeepsPid
  
  HeldBetweenRequests
  DetachReleases
CHECK_DEADLOCK FALSE
