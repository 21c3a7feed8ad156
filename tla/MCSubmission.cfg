SPECIFICATION SubmissionSpec
CONSTANTS
  a1 = a1
  a2 = a2
  b1 = b1
  Clients <- ThreeShells
  LoginOf <- LoginOfShell
  Offsets <- Chains
  Attempts = {1}
  MaxQueued = 2
  MaxBatch = 2
  MaxCommands = 3
  MaxJobs = 4
SYMMETRY SameUser
INVARIANTS CommandsSound
PROPERTIES CopiesFollowCopies
CHECK_DEADLOCK FALSE
