SPECIFICATION Spec
CONSTANTS
  Pids <- MCPids
  Clients <- MCClients
  Nobody = "nobody"
  Absent = "absent"
  TmuxAvailable = {TRUE, FALSE}
  Ops <- HandOps
  Edits = {"e"}
  MaxBorn = 2
  MaxCommands = 3
  MaxCrashes = 0
  MaxTimeouts = 1
INVARIANTS OneDirectDaemon ReloadKeepsJobs
PROPERTIES RecycledPidSpared EveryLoadIsComplete StopsAreComplete
CHECK_DEADLOCK FALSE
