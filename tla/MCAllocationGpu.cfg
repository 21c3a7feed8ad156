SPECIFICATION Spec
CONSTANTS
  NoGroup = NoGroup
  NoLimit = NoLimit
  Jobs <- MCJobs
  Gpus <- MCGpus
  Groups = {}
  Users = {"alice"}
  Subjects = {}
  Requests <- GpuRequests
  GroupOf <- GpuGroupOf
  UserOf <- GpuUserOf
  SubjectsOf <- GpuSubjectsOf
  Priority <- GpuPriority
  TimeBonus <- GpuTimeBonus
  Keys <- GpuKeys
  Limits = {NoLimit}
  Quotas <- GpuQuotas
  AllowedSets = {{0, 1}, {1}}
  Unmanaged = {}
  HostMemory = 6
  GpuMemory <- GpuGpuMemory
  Unified = TRUE
  FairShare = FALSE
  Sequential = FALSE
INVARIANTS ExclusiveIsolation AccountingExact PassListSound NoJobForgotten
PROPERTIES PassInOrder ImplementsLease
CHECK_DEADLOCK FALSE
