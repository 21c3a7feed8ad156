---------------------------- MODULE MCAllocation ----------------------------
(* Instances of Allocation for TLC: one where the jobs differ in how they use
   GPUs and memory, one where they compete for groups and quotas.  *)
EXTENDS Allocation

MCJobs == 1 .. 3
MCGpus == 0 .. 1

Exclusive(n, mem) == [gpus |-> n, mode |-> "Exclusive", gpu_mem |-> NoLimit, mem |-> mem]
SharedOne(gm, mem) == [gpus |-> 1, mode |-> "Shared", gpu_mem |-> gm, mem |-> mem]

(* GPU instance: one user, no groups, no quotas.  *)
GpuUserOf == [j \in MCJobs |-> "alice"]
GpuGroupOf == [j \in MCJobs |-> NoGroup]
GpuSubjectsOf == [j \in MCJobs |-> {}]
GpuPriority == [j \in MCJobs |-> IF j = 3 THEN 2 ELSE 1]
GpuTimeBonus == [j \in MCJobs |-> IF j = 3 THEN 100 ELSE 200]
(* What jobs 1 and 2 have, and lower than what job 3 is submitted with.  *)
GpuKeys == {[priority |-> 1, bonus |-> 200]}
GpuRequests == {Exclusive(1, 1), Exclusive(2, 0), SharedOne(2, 1)}
GpuQuotas == [s \in {} |-> {}]
(* GPU 1 is of unknown size.  *)
GpuGpuMemory == [g \in MCGpus |-> IF g = 0 THEN 3 ELSE NoLimit]

(* Limits instance: two users of one project, jobs 1 and 2 in a group.  *)
LimUserOf == [j \in MCJobs |-> IF j = 2 THEN "bob" ELSE "alice"]
LimGroupOf == [j \in MCJobs |-> IF j < 3 THEN "array" ELSE NoGroup]
LimSubjectsOf == [j \in MCJobs |-> {IF j = 2 THEN "bob" ELSE "alice", "proj"}]
LimPriority == [j \in MCJobs |-> IF j = 3 THEN 2 ELSE 1]
LimTimeBonus == [j \in MCJobs |-> 100]
LimRequests == {Exclusive(1, 0), Exclusive(0, 0)}
Open == [jobs |-> NoLimit, gpus |-> NoLimit, queued |-> NoLimit]
LimQuotas ==
    [s \in {"alice", "bob", "proj"} |->
        CASE s = "alice" -> {Open, [jobs |-> 1, gpus |-> NoLimit, queued |-> 1]}
          [] s = "bob"   -> {Open}
          [] s = "proj"  -> {Open, [jobs |-> NoLimit, gpus |-> 1, queued |-> NoLimit]}]
LimGpuMemory == [g \in MCGpus |-> NoLimit]
=============================================================================
