SPECIFICATION Spec
CONSTANTS
  a = a
  b = b
  NoJob = NoJob
  Jobs <- AllJobs
  Setups <- RefutedSetups
  MaxBacklog = 0
INVARIANTS CancelledPayloadsEnd SucceededNotFailed TimeoutJustified RunnerHasJobState
PROPERTIES RecoveryBelievesResults RecoveryAdoptsRunners
CHECK_DEADLOCK FALSE
