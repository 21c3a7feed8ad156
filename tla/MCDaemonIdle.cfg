SPECIFICATION FairSpec
CONSTANTS
  a = a
  b = b
  NoJob = NoJob
  Jobs <- AllJobs
  Setups <- IdleSetups
  MaxBacklog = 0
PROPERTIES WorkStarts
CHECK_DEADLOCK FALSE
