SPECIFICATION FairSpec
CONSTANTS
  t1 = t1  t2 = t2  m = m  r = r  other = other  e1 = e1  e2 = e2
  Threads = {t1, t2}
  Local = {m}
  Remote = {r}
  Stranger = other
  EthCores <- TwoEths
  N300 = TRUE
  MaxCalls = 2
  MaxResets = 1
  MaxFaults = 1
  MaxLinkChanges = 1
INVARIANTS
  
  WorkingEthFound
  LocalRecovers
  AllRenewed
PROPERTY CallsReturn
CHECK_DEADLOCK FALSE
