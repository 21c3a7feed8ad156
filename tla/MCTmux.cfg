SPECIFICATION FairSpec
CONSTANTS
  a = a
  b = b
  Jobs <- AllJobs
  Timed <- OnlyA
  Retries <- AllJobs
  AutoClose <- OnlyB
  Stubborn <- Nobody
  Prefix <- APrefixOfB
  LaunchesFail = TRUE
  MaxStops = 1
  MaxVisits = 1
INVARIANTS SessionsAccountedFor
PROPERTIES CloseSparesRunning EndsNoticed ImplementsJobRun
CHECK_DEADLOCK FALSE
