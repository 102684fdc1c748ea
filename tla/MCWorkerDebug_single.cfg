SPECIFICATION Spec
CONSTANTS
  Groups = {"rwc", "adc"}
  Words = 2
  LastLine = 2
  MaxSamples = 2
  Threads = {0, 2}
  MathThread = 2
  LastRow = 1
  Depth = 2
  MaxCalls = 2
  MaxFaults = 1
INVARIANTS
  SamplesExact
  InjectedOnce
  
CHECK_DEADLOCK FALSE
