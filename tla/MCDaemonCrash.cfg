SPECIFICATION Spec
CONSTANTS
  a = a
  b = b
  NoJob = NoJob
  Jobs <- AllJobs
  Setups <- CrashSetups
  MaxBacklog = 0
INVARIANTS RunnersRecorded
PROPERTIES ImplementsJobRun
CHECK_DEADLOCK FALSE
