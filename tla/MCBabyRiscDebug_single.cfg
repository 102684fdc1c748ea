SPECIFICATION Spec
CONSTANTS
  main = main
  gdb = gdb
  Threads = {main}
  MaxStops = 2
  MaxResets = 1
  MaxFaults = 2
INVARIANTS
  BodyRunsHalted
  StoppedCoreStaysStopped
  StartWordRestored
  RunningCoreResumed
  ResetSignalRestored
