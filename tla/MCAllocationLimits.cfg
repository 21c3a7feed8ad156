SPECIFICATION Spec
CONSTANTS
  NoGroup = NoGroup
  NoLimit = NoLimit
  Jobs <- MCJobs
  Gpus <- MCGpus
  Groups = {"array"}
  Users = {"alice", "bob"}
  Subjects = {"alice", "bob", "proj"}
  Requests <- LimRequests
  GroupOf <- LimGroupOf
  UserOf <- LimUserOf
  SubjectsOf <- LimSubjectsOf
  Priority <- LimPriority
  TimeBonus <- LimTimeBonus
  Keys = {}
  Limits = {NoLimit, 1}
  Quotas <- LimQuotas
  AllowedSets = {{0, 1}}
  Unmanaged = {}
  HostMemory = 3
  GpuMemory <- LimGpuMemory
  Unified = FALSE
  FairShare = TRUE
  Sequential = TRUE
INVARIANTS GroupIndexExact
PROPERTIES LimitsKept
CHECK_DEADLOCK FALSE
