SPECIFICATION FairSpec
CONSTANTS
  Jobs <- OneJob
  Owner <- MCOwner
  Dependent <- NoDependents
  Mails <- MCMails
  Webhooks <- MCWebhooks
  Emails <- MCEmails
  MaxDeliveries = 1
  Capacity = 2
  Codes = {"0", "3", "gone"}
  GpuEvents = {"available", "taken"}
  Followed = "j1"
  NoJob = "none"
  NoUser = "nobody"
  Modes <- Both
  MaxEvents = 5
  MaxRequests = 1
  MaxOutages = 1
INVARIANTS OnlyEndsAreReported TimeoutIsTheEnd ExitIsPayloads
PROPERTIES EveryEndIsReported
CHECK_DEADLOCK FALSE
