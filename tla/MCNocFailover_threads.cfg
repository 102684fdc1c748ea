SPECIFICATION Spec
CONSTANTS
  main = main  gdb = gdb  d1 = d1
  noc0 = noc0  noc1 = noc1  system = system  none = none
  Threads = {main, gdb}
  Nocs = {noc0, noc1, system}
  NoNoc = none
  Devices = {d1}
  NumDevices = 1
  DeviceAt <- OneDevice
  NumNocs <- PairNumNocs
  Available <- PairAvailable
INVARIANTS
  ActiveNocAvailable
  TriedAtMostOnce
  HealthyNocFound
  PromptShowsActiveNoc

  
