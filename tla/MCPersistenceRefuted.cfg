SPECIFICATION Spec
CONSTANTS
  Jobs <- MCJobs
  Reservations <- MCReservations
  Quotas <- MCQuotas
  Versions = {1, 2}
  MaxStarts = 3
  MaxFailures = 0
  MaxMishaps = 1
INVARIANTS SubmittedJobsExist
PROPERTIES StopSavesAll NewestFileWins ReadOnlyMeansReadOnly PuttingBackRestores
CHECK_DEADLOCK FALSE
