SPECIFICATION SubmissionSpec
CONSTANTS
  a1 = a1
  a2 = a2
  b1 = b1
  Clients <- OneShell
  LoginOf <- LoginOfShell
  Offsets <- Chains
  Attempts = {0, 1}
  MaxQueued = 3
  MaxBatch = 2
  MaxCommands = 4
  MaxJobs = 5
PROPERTIES CountsSubmissions DependenciesFirst CopiesWaitAgain
CHECK_DEADLOCK FALSE
