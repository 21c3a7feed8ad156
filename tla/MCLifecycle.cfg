SPECIFICATION Spec
CONSTANTS
  Pids <- MCPids
  Clients <- MCClients
  Nobody = "nobody"
  Absent = "absent"
  TmuxAvailable = {TRUE, FALSE}
  Ops <- AllOps
  Edits = {"e"}
  MaxBorn = 2
  MaxCommands = 3
  MaxCrashes = 1
  MaxTimeouts = 1
INVARIANTS InReachWithItsJobs AloneUnlessDisturbed
PROPERTIES StopsAndStarts
CHECK_DEADLOCK FALSE
