SPECIFICATION HostSpec
CONSTANTS
  AccessJobs <- Accesses
  CheckJobs <- Checks
  SearchJobs <- Searches
  CodeJobs <- Codes
  RegisterJobs <- RegisterAccesses
  LoadJobs <- Loads
  SignalJobs <- Buses
INVARIANTS
  
  ValidatedExactly
  FoundExactly
  EncodingReversed
  RegisterWritten
  
  
CHECK_DEADLOCK FALSE
