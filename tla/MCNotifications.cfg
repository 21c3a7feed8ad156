SPECIFICATION FairSpec
CONSTANTS
  Jobs <- TwoJobs
  Owner <- MCOwner
  Dependent <- NoDependents
  Mails <- MCMails
  Webhooks <- MCWebhooks
  Emails <- MCEmails
  MaxDeliveries = 1
  Capacity = 2
  Codes = {"0"}
  GpuEvents = {"available"}
  Followed = "j1"
  NoJob = "none"
  NoUser = "nobody"
  Modes <- Apart
  MaxEvents = 3
  MaxRequests = 1
  MaxOutages = 1
INVARIANTS OutcomesAreTrue
PROPERTIES WaiterReturns EveryoneIsTold
CHECK_DEADLOCK FALSE
