SPECIFICATION FairSpec
CONSTANTS
  a = a
  b = b
  NoJob = NoJob
  Jobs <- AllJobs
  Setups <- LiveSetups
  MaxBacklog = 0
INVARIANTS NoStrayRunner
PROPERTIES WorkStarts RunningMeansAlive OverdueEnds
CHECK_DEADLOCK FALSE
