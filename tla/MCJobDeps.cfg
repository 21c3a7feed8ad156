SPECIFICATION Spec
CONSTANTS
  NoJob = NoJob
  Jobs <- FourJobs
  Setups <- GraphAndTime
  MaxRestarts = 1
INVARIANTS BookkeepingExact NoJobStuck
PROPERTIES StartsOnlyWhenReady AllCancelJustified RetryTakesDependents
CHECK_DEADLOCK FALSE
