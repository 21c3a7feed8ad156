SPECIFICATION Spec
CONSTANTS
  NoJob = NoJob
  Jobs <- FourJobs
  Setups <- FaultySetups
  MaxRestarts = 0
INVARIANTS NoJobForgotten
PROPERTIES AnyCancelJustified UpdateReplaces StartsOnlyWhenReady
CHECK_DEADLOCK FALSE
