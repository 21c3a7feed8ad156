SPECIFICATION FairSpec
CONSTANTS
  Jobs <- MCJobs
  Reservations <- MCReservations
  Quotas <- MCQuotas
  Versions = {1, 2}
  MaxStarts = 3
  MaxFailures = 1
  MaxMishaps = 1
INVARIANTS CleanMeansOnDisk
PROPERTIES NothingSavedIsLost SavesComplete
CHECK_DEADLOCK FALSE
