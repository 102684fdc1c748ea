SPECIFICATION FairSpec
CONSTANTS
  Payloads <- BothPayloads
  Resume <- c
  AckModes = {TRUE, FALSE}
  MaxPackets = 3
  MaxBreaks = 1
  MaxTears = 1
  MaxErrors = 1
INVARIANTS
  InOrder
  
PROPERTY PacketsAnswered
CHECK_DEADLOCK FALSE
