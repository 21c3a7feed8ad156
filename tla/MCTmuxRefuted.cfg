SPECIFICATION FairSpec
CONSTANTS
  a = a
  b = b
  Jobs <- AllJobs
  Timed <- Nobody
  Retries <- AllJobs
  AutoClose <- Nobody
  Stubborn <- Nobody
  Prefix <- APrefixOfB
  LaunchesFail = FALSE
  MaxStops = 1
  MaxVisits = 1
INVARIANTS FailuresRetried CancelledPayloadsEnd
PROPERTIES OthersSpared NothingStranded
CHECK_DEADLOCK FALSE
