SPECIFICATION Spec
CONSTANTS
  a1 = a1  a2 = a2  none = none
  NumSlots = 2
  Addresses = {a1, a2}
  NoAddress = none
  MaxFaults = 1
INVARIANTS
  NoPointTwice
  BelievedIsPlanted
 
