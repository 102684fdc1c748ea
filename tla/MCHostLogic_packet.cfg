SPECIFICATION HostSpec
CONSTANTS
  AccessJobs = {}
  CheckJobs = {}
  SearchJobs = {}
  CodeJobs <- Codes
  RegisterJobs = {}
  LoadJobs = {}
  SignalJobs = {}
INVARIANT RegisterWriteAccepted
CHECK_DEADLOCK FALSE
