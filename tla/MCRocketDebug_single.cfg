SPECIFICATION Spec
CONSTANTS
  h1 = h1  v1 = v1  v2 = v2
  Harts = {h1}
  First = h1
  Values = {v1, v2}
  MaxCalls = 3
  MaxFaults = 2
INVARIANTS
  
  
  OneInstruction
CHECK_DEADLOCK FALSE
