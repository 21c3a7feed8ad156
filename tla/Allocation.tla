----------------------------- MODULE Allocation -----------------------------
(***************************************************************************)
(* The allocator of the gflow daemon: how queued jobs are given GPUs, host *)
(* memory, a place in their group and a share of their quotas, and how     *)
(* they give them back.  Every handler runs under the daemon's write lock. *)
(* A scheduling pass (prepare_jobs_for_execution) is one critical section  *)
(* split here into a step that takes the snapshots it decides from, one    *)
(* step per job it considers and a step that ends it; every other handler  *)
(* is one step, and waits while a pass runs.                               *)
(*                                                                         *)
(* The jobs of this module have no dependencies and no begin time (see     *)
(* JobDeps), and no GPU reservation is active.  Of the ready heap the model *)
(* has the jobs with an entry of their current epoch, and of each job the  *)
(* highest key of its entries, current or outdated: the one popped first.  *)
(***************************************************************************)
EXTENDS Integers, FiniteSets, FiniteSetsExt

CONSTANTS
    Jobs,          \* job ids, given out in increasing order
    Gpus,          \* GPU indices of the machine
    Groups,        \* job-array groups (group_id)
    Users,         \* submitted_by
    Subjects,      \* everything a quota can be set on: users and projects
    Requests,      \* the resource requests a job may make
    GroupOf,       \* the group of a job, or NoGroup
    UserOf,        \* the submitter of a job
    SubjectsOf,    \* the quota subjects of a job: its user, its project
    Priority,      \* the priority a job is submitted with
    TimeBonus,     \* the tie-breaker computed from the time limit it is submitted with
    Keys,          \* the priorities and time bonuses an update may give a job
    Limits,        \* values max_concurrent can be set to
    Quotas,        \* the limit records each quota subject can be given
    AllowedSets,   \* the restrictions gctl set-gpus may impose
    Unmanaged,     \* GPUs that processes unknown to gflow may occupy
    HostMemory,    \* total_memory_mb
    GpuMemory,     \* total memory of each GPU, or NoLimit when unknown
    Unified,       \* unified_memory: GPU memory comes from host memory
    FairShare,     \* fair_share_enabled
    Sequential,    \* gpu_allocation_strategy is Sequential, not Random
    NoGroup,
    NoLimit        \* an Option that is None

Limit == Nat \cup {NoLimit}

Request == [gpus : Nat, mode : {"Exclusive", "Shared"},
            gpu_mem : Limit, mem : Nat]

Key == [priority : Nat, bonus : Nat]
NoEntry == [priority |-> 0, bonus |-> 0]    \* no entry: a time bonus is never 0

QuotaLimits == [jobs : Limit, gpus : Limit, queued : Limit]

ASSUME JobsAssumption ==
    /\ Jobs \subseteq Nat
    /\ IsFiniteSet(Jobs)
    /\ Gpus \subseteq Nat
    /\ IsFiniteSet(Gpus)
    /\ NoLimit \notin Nat
    /\ NoGroup \notin Groups

ASSUME RequestAssumption ==
    /\ Requests \subseteq Request
    /\ Requests # {}
    /\ \A r \in Requests : r.mode = "Shared" => r.gpu_mem # NoLimit
    /\ Limits \subseteq Limit
    /\ Limits # {}
    /\ \A s \in Subjects : Quotas[s] \subseteq QuotaLimits /\ Quotas[s] # {}

ASSUME JobAttributesAssumption ==
    /\ GroupOf \in [Jobs -> Groups \cup {NoGroup}]
    /\ UserOf \in [Jobs -> Users]
    /\ SubjectsOf \in [Jobs -> SUBSET Subjects]
    /\ Priority \in [Jobs -> Nat]
    /\ TimeBonus \in [Jobs -> Nat]
    /\ Keys \subseteq Key

ASSUME MachineAssumption ==
    /\ HostMemory \in Nat
    /\ GpuMemory \in [Gpus -> Limit]
    /\ AllowedSets \subseteq SUBSET Gpus
    /\ Unmanaged \subseteq Gpus
    /\ {Unified, FairShare, Sequential} \subseteq BOOLEAN

VARIABLES
    state,               \* the state of each job: "Absent" before submission
    request,             \* what each job asks for (gpus, mode, memory limits)
    gpu_ids,             \* the GPUs a job was given ({} stands for None too)
    max_concurrent,      \* the concurrency limit each job carries for its group
    key,                 \* the priority and the time bonus of each job
    ready,               \* jobs with an entry of their current epoch in ready_heap
    top,                 \* the highest key of the entries a job has in ready_heap
    lowered,             \* history: jobs not ended whose key an update has lowered
    group_running_count, \* index: running jobs of each group
    quota_usage,         \* index: running jobs and GPUs of each quota subject
    quota,               \* effective limits of each quota subject
    available_memory_mb, \* host memory the allocator believes is free
    slot_available,      \* GPUSlot::available of each GPU
    allowed,             \* allowed_gpu_indices
    launching,           \* jobs a pass handed to the executor, not yet started
    passing,             \* a scheduling pass holds the write lock
    todo,                \* pass: runnable jobs not considered yet
    started,             \* pass: jobs it moved to Running
    avail,               \* pass: snapshot of the available GPUs
    excl,                \* pass: GPUs occupied exclusively
    shared,              \* pass: GPUs with shared_gpu_occupancy above 0
    shared_mem,          \* pass: shared GPU memory promised on each GPU
    factor               \* pass: rank of each user's fair-share factor

heapVars == <<key, ready, top, lowered>>
jobVars == <<state, request, gpu_ids, max_concurrent, heapVars>>
indexVars == <<group_running_count, quota_usage>>
machineVars == <<quota, available_memory_mb, slot_available, allowed>>
passVars == <<passing, todo, started, avail, excl, shared, shared_mem, factor>>
vars == <<jobVars, indexVars, machineVars, launching, passVars>>

States == {"Absent", "Queued", "Hold", "Running", "Over"}

CanTransitionTo_rerun ==      \* mutant: an ended job may be queued again
    [s \in States |->
        CASE s = "Queued"  -> {"Running", "Hold", "Over"}
          [] s = "Hold"    -> {"Queued", "Over"}
          [] s = "Running" -> {"Over"}
          [] s = "Over"    -> {"Queued"}
          [] OTHER         -> {}]

(* JobState::can_transition_to.  The four final states (Finished, Failed,
   Cancelled, Timeout) are one here: the allocator treats them alike.  *)
CanTransitionTo ==
    [s \in States |->
        CASE s = "Queued"  -> {"Running", "Hold", "Over"}
          [] s = "Hold"    -> {"Queued", "Over"}
          [] s = "Running" -> {"Over"}
          [] OTHER         -> {}]

-----------------------------------------------------------------------------
(* Recounts from the job table, against which the indexes are judged.  *)

Running == {j \in Jobs : state[j] = "Running"}
RunningIn(G) == {j \in Running : GroupOf[j] = G}
RunningFor(s) == {j \in Running : s \in SubjectsOf[j]}
Pending(s) == {j \in Jobs : s \in SubjectsOf[j] /\ state[j] \in {"Queued", "Hold"}}

HoldersOf(g, m) == {j \in Running : g \in gpu_ids[j] /\ request[j].mode = m}

OrZero(n) == IF n = NoLimit THEN 0 ELSE n
Sub(a, b) == IF a > b THEN a - b ELSE 0     \* saturating_sub
AtMost(n, limit) == limit # NoLimit => n <= limit
Below(n, limit) == limit # NoLimit => n < limit

(* Scheduler::effective_host_memory_mb *)
HostNeed(r) == r.mem + IF Unified THEN OrZero(r.gpu_mem) * r.gpus ELSE 0

HostUsed == MapThenSumSet(LAMBDA j : HostNeed(request[j]), Running)

FreeHostMemory_all == HostMemory      \* mutant: running jobs are not subtracted

(* Scheduler::refresh_available_memory *)
FreeHostMemory == Sub(HostMemory, HostUsed)

GpusUsed(s) == MapThenSumSet(LAMBDA j : request[j].gpus, RunningFor(s))
SharedMemoryOn(g) ==
    MapThenSumSet(LAMBDA j : OrZero(request[j].gpu_mem), HoldersOf(g, "Shared"))

-----------------------------------------------------------------------------
TypeOK ==
    /\ state \in [Jobs -> States]
    /\ request \in [Jobs -> Requests]
    /\ gpu_ids \in [Jobs -> SUBSET Gpus]
    /\ max_concurrent \in [Jobs -> Limits]
    /\ key \in [Jobs -> Key]
    /\ ready \subseteq Jobs
    /\ top \in [Jobs -> Key]
    /\ lowered \subseteq Jobs
    /\ group_running_count \in [Groups -> Nat]
    /\ quota_usage \in [Subjects -> [jobs : Nat, gpus : Nat]]
    /\ quota \in [Subjects -> QuotaLimits]
    /\ slot_available \in [Gpus -> BOOLEAN]
    /\ allowed \subseteq Gpus
    /\ launching \subseteq Jobs
    /\ passing \in BOOLEAN
    /\ todo \subseteq Jobs
    /\ started \subseteq Jobs
    /\ avail \subseteq Gpus
    /\ excl \subseteq Gpus
    /\ shared \subseteq Gpus
    /\ factor \in [Users -> Nat]

Init ==
    /\ state = [j \in Jobs |-> "Absent"]
    /\ request = [j \in Jobs |-> CHOOSE r \in Requests : TRUE]
    /\ gpu_ids = [j \in Jobs |-> {}]
    /\ max_concurrent = [j \in Jobs |-> CHOOSE m \in Limits : TRUE]
    /\ key = [j \in Jobs |-> [priority |-> Priority[j], bonus |-> TimeBonus[j]]]
    /\ ready = {} /\ top = [j \in Jobs |-> NoEntry] /\ lowered = {}
    /\ group_running_count = [G \in Groups |-> 0]
    /\ quota_usage = [s \in Subjects |-> [jobs |-> 0, gpus |-> 0]]
    /\ quota = [s \in Subjects |-> CHOOSE q \in Quotas[s] : TRUE]
    /\ available_memory_mb = HostMemory
    /\ slot_available = [g \in Gpus |-> TRUE]
    /\ allowed = Gpus
    /\ launching = {}
    /\ passing = FALSE
    /\ todo = {} /\ started = {}
    /\ avail = {} /\ excl = {} /\ shared = {}
    /\ shared_mem = [g \in Gpus |-> 0]
    /\ factor = [u \in Users |-> 0]

-----------------------------------------------------------------------------
(* The state transition every handler goes through
   (transition_job_state_internal): the state and both indexes move
   together.  Entering Running and leaving it are the only transitions the
   indexes see.  *)

GroupCountEntering(j) ==
    IF GroupOf[j] = NoGroup THEN group_running_count
    ELSE [group_running_count EXCEPT ![GroupOf[j]] = @ + 1]

GroupCountLeaving_never(j) == group_running_count       \* mutant: no decrement

GroupCountLeaving_twice(j) ==                           \* mutant: two decrements
    IF GroupOf[j] = NoGroup THEN group_running_count
    ELSE [group_running_count EXCEPT ![GroupOf[j]] = @ - 2]

GroupCountLeaving(j) ==
    IF GroupOf[j] = NoGroup THEN group_running_count
    ELSE [group_running_count EXCEPT ![GroupOf[j]] = Sub(@, 1)]

RecordRunning(j) ==
    [s \in Subjects |->
        IF s \in SubjectsOf[j]
        THEN [jobs |-> quota_usage[s].jobs + 1,
              gpus |-> quota_usage[s].gpus + request[j].gpus]
        ELSE quota_usage[s]]

ReleaseRunning_jobs(j) ==              \* mutant: the GPUs are not given back
    [s \in Subjects |->
        IF s \in SubjectsOf[j]
        THEN [quota_usage[s] EXCEPT !.jobs = Sub(@, 1)]
        ELSE quota_usage[s]]

ReleaseRunning(j) ==
    [s \in Subjects |->
        IF s \in SubjectsOf[j]
        THEN [jobs |-> Sub(quota_usage[s].jobs, 1),
              gpus |-> Sub(quota_usage[s].gpus, request[j].gpus)]
        ELSE quota_usage[s]]

Transition(j, next) ==
    /\ next \in CanTransitionTo[state[j]]
    /\ state' = [state EXCEPT ![j] = next]
    /\ group_running_count' = IF next = "Running" THEN GroupCountEntering(j)
                              ELSE IF state[j] = "Running" THEN GroupCountLeaving(j)
                              ELSE group_running_count
    /\ quota_usage' = IF next = "Running" THEN RecordRunning(j)
                      ELSE IF state[j] = "Running" THEN ReleaseRunning(j)
                      ELSE quota_usage

-----------------------------------------------------------------------------
(* The ready heap.  An entry is never taken out of it: with a new epoch of the job it
   becomes an outdated one, which the next pass pops.  *)

Above(a, b) == \/ a.priority > b.priority
               \/ a.priority = b.priority /\ a.bonus > b.bonus
Higher(a, b) == IF Above(a, b) THEN a ELSE b

(* enqueue_if_ready of a queued job, with its key.  *)
Push(j, k) ==
    /\ ready' = ready \cup {j}
    /\ top' = [top EXCEPT ![j] = Higher(@, k)]

(* A job that has ended is never queued again: what the heap has of it is not kept.  *)
LeaveHeap(j) ==
    /\ ready' = ready \ {j}
    /\ top' = [top EXCEPT ![j] = NoEntry]
    /\ lowered' = lowered \ {j}

(* refresh_job_readiness of a job that has no dependencies and, since the update, key k.  *)
Rekey(j, k) ==
    /\ key' = [key EXCEPT ![j] = k]
    /\ lowered' = IF Above(key[j], k) THEN lowered \cup {j} ELSE lowered
    /\ IF state[j] = "Queued" THEN Push(j, k) ELSE UNCHANGED <<ready, top>>

-----------------------------------------------------------------------------
(* The handlers.  Each waits for the write lock, so none runs during a pass. *)

(* submit_job: the next free id, unless a queue-depth quota is reached.  *)
Submit(j) ==
    /\ ~passing
    /\ state[j] = "Absent"
    /\ \A k \in Jobs : k < j => state[k] # "Absent"
    /\ \A s \in SubjectsOf[j] : Below(Cardinality(Pending(s)), quota[s].queued)
    /\ state' = [state EXCEPT ![j] = "Queued"]
    /\ \E r \in Requests : request' = [request EXCEPT ![j] = r]
    /\ \E m \in Limits : max_concurrent' = [max_concurrent EXCEPT ![j] = m]
    /\ Push(j, key[j])
    /\ UNCHANGED <<gpu_ids, key, lowered, indexVars, machineVars, launching, passVars>>

Hold(j) ==
    /\ ~passing
    /\ Transition(j, "Hold")
    /\ ready' = ready \ {j}
    /\ UNCHANGED <<request, gpu_ids, max_concurrent, key, top, lowered, machineVars,
                   launching, passVars>>

Release(j) ==
    /\ ~passing
    /\ Transition(j, "Queued")
    /\ Push(j, key[j])
    /\ UNCHANGED <<request, gpu_ids, max_concurrent, key, lowered, machineVars, launching,
                   passVars>>

(* gjob update: resources, group limit, priority and time limit of a job that has
   not started; the sharing mode is not among the fields an update can change.
   With a priority or a time limit, though it be the one the job had, the job is
   put on the heap anew.  *)
UpdateJob(j) ==
    /\ ~passing
    /\ state[j] \in {"Queued", "Hold"}
    /\ \E r \in Requests : /\ r.mode = request[j].mode
                           /\ request' = [request EXCEPT ![j] = r]
    /\ \E m \in Limits : max_concurrent' = [max_concurrent EXCEPT ![j] = m]
    /\ \/ \E k \in Keys \cup {key[j]} : Rekey(j, k)
       \/ UNCHANGED heapVars
    /\ UNCHANGED <<state, gpu_ids, indexVars, machineVars, launching, passVars>>

(* cancel_job, finish_job, fail_job and timeout_job: a job ends and keeps its
   gpu_ids for the record.  *)
Complete(j) ==
    /\ ~passing
    /\ Transition(j, "Over")
    /\ LeaveHeap(j)
    /\ UNCHANGED <<request, gpu_ids, max_concurrent, key, machineVars, launching, passVars>>

(* The executor starts the payload of a job a pass handed over.  *)
Execute(j) ==
    /\ ~passing
    /\ j \in launching
    /\ state[j] = "Running"
    /\ launching' = launching \ {j}
    /\ UNCHANGED <<jobVars, indexVars, machineVars, passVars>>

(* It could not, or the job left Running first: step 3 of trigger_scheduling
   takes the GPUs back, fails the job if it is still Running and recomputes
   host memory.  *)
ExecutionFails(j) ==
    /\ ~passing
    /\ j \in launching
    /\ launching' = launching \ {j}
    /\ gpu_ids' = [gpu_ids EXCEPT ![j] = {}]
    /\ IF state[j] = "Running"
       THEN Transition(j, "Over") /\ LeaveHeap(j)
       ELSE UNCHANGED <<state, indexVars, ready, top, lowered>>
    /\ UNCHANGED <<request, max_concurrent, key, quota, slot_available, allowed, passVars>>
    /\ available_memory_mb' = FreeHostMemory'

SetGroupMaxConcurrency(G) ==
    /\ ~passing
    /\ \E j \in Jobs : GroupOf[j] = G /\ state[j] # "Absent"
    /\ \E m \in Limits \ {NoLimit} :
          max_concurrent' =
              [j \in Jobs |-> IF GroupOf[j] = G /\ state[j] # "Absent"
                              THEN m ELSE max_concurrent[j]]
    /\ UNCHANGED <<state, request, gpu_ids, heapVars, indexVars, machineVars,
                   launching, passVars>>

SetQuota(s) ==
    /\ ~passing
    /\ \E q \in Quotas[s] : quota' = [quota EXCEPT ![s] = q]
    /\ UNCHANGED <<jobVars, indexVars, available_memory_mb, slot_available,
                   allowed, launching, passVars>>

SetAllowedGpus ==
    /\ ~passing
    /\ allowed' \in AllowedSets
    /\ UNCHANGED <<jobVars, indexVars, quota, available_memory_mb,
                   slot_available, launching, passVars>>

(* refresh_gpu_slots: a GPU held exclusively is unavailable, one held in shared
   mode is available whatever runs on it, and an idle one is as NVML reports it
   (an NVML error leaves the slot as it was or makes it unavailable).  *)
SlotReadings(g) ==
    {slot_available[g]} \cup
    IF HoldersOf(g, "Exclusive") # {} THEN {FALSE}
    ELSE IF HoldersOf(g, "Shared") # {} \/ g \notin Unmanaged THEN {TRUE}
    ELSE BOOLEAN

RefreshedSlots == {f \in [Gpus -> BOOLEAN] : \A g \in Gpus : f[g] \in SlotReadings(g)}

RefreshGpuSlots ==
    /\ ~passing
    /\ slot_available' \in RefreshedSlots
    /\ UNCHANGED <<jobVars, indexVars, quota, available_memory_mb, allowed,
                   launching, passVars>>

-----------------------------------------------------------------------------
(* The scheduling pass.  *)

(* The fair-share factor ranks users; without fair share it ranks none.  *)
Factors == IF FairShare THEN [Users -> 0 .. Cardinality(Users) - 1]
                        ELSE {[u \in Users |-> 0]}

(* The drain of the heap looks at one entry of a job only, the first it pops: an
   outdated one of a higher key hides the one that counts.  Of entries with the
   same key the one of the latest epoch comes first.  *)
Hidden(j) == Above(top[j], key[j])

(* Memory is recounted, the GPUs and their occupancy are read once, and the
   ready heap is drained: entries of jobs that are not Queued are dropped.  *)
StartPass ==
    /\ ~passing
    /\ passing' = TRUE
    /\ todo' = {j \in ready : state[j] = "Queued" /\ ~Hidden(j)}
    /\ ready' = {} /\ top' = [j \in Jobs |-> NoEntry]
    /\ started' = {}
    /\ avail' = {g \in allowed : slot_available[g]}
    /\ excl' = {g \in Gpus : HoldersOf(g, "Exclusive") # {}}
    /\ shared' = {g \in Gpus : HoldersOf(g, "Shared") # {}}
    /\ shared_mem' = [g \in Gpus |-> SharedMemoryOn(g)]
    /\ factor' \in Factors
    /\ available_memory_mb' = FreeHostMemory
    /\ UNCHANGED <<state, request, gpu_ids, max_concurrent, key, lowered, indexVars, quota,
                   slot_available, allowed, launching>>

Before_id(j, k) == j < k      \* mutant: submission order only

(* The order of the pass: priority, fair-share factor, time bonus, then id.  *)
Before(j, k) ==
    \/ key[j].priority > key[k].priority
    \/ /\ key[j].priority = key[k].priority
       /\ \/ factor[UserOf[j]] > factor[UserOf[k]]
          \/ /\ factor[UserOf[j]] = factor[UserOf[k]]
             /\ \/ key[j].bonus > key[k].bonus
                \/ key[j].bonus = key[k].bonus /\ j < k

First(j) == j \in todo /\ \A k \in todo \ {j} : Before(j, k)

WithinGroupLimit(j) ==
    GroupOf[j] # NoGroup
        => Below(group_running_count[GroupOf[j]], max_concurrent[j])

WithinQuota_off(j) ==          \* mutant: <= where the code has <
    \A s \in SubjectsOf[j] :
        /\ AtMost(quota_usage[s].jobs, quota[s].jobs)
        /\ AtMost(quota_usage[s].gpus + request[j].gpus, quota[s].gpus)

WithinQuota(j) ==
    \A s \in SubjectsOf[j] :
        /\ Below(quota_usage[s].jobs, quota[s].jobs)
        /\ AtMost(quota_usage[s].gpus + request[j].gpus, quota[s].gpus)

FitsShared_alone(r, g) ==      \* mutant: what others were promised is ignored
    r.gpu_mem # NoLimit => AtMost(r.gpu_mem, GpuMemory[g])

FitsShared(r, g) ==
    r.gpu_mem # NoLimit => AtMost(shared_mem[g] + r.gpu_mem, GpuMemory[g])

CompatibleGpus_occupied(r) ==  \* mutant: exclusive jobs may join shared GPUs
    {g \in avail : g \notin excl /\ (r.mode = "Shared" => FitsShared(r, g))}

(* Shared jobs may join shared GPUs with memory left, exclusive jobs need idle
   ones.  *)
CompatibleGpus(r) ==
    {g \in avail : IF r.mode = "Shared"
                   THEN g \notin excl /\ FitsShared(r, g)
                   ELSE g \notin excl /\ g \notin shared}

(* The lowest indices, or with the Random strategy any.  *)
Allocations(r) ==
    {S \in SUBSET CompatibleGpus(r) :
        /\ Cardinality(S) = r.gpus
        /\ Sequential => \A g \in S : \A h \in CompatibleGpus(r) \ S : g < h}

MayStart_memory(j) == /\ WithinGroupLimit(j)      \* mutant: no memory check
                      /\ WithinQuota(j)
                      /\ Allocations(request[j]) # {}

MayStart(j) == /\ HostNeed(request[j]) <= available_memory_mb
               /\ WithinGroupLimit(j)
               /\ WithinQuota(j)
               /\ Allocations(request[j]) # {}

StartJob(j) ==
    /\ passing
    /\ First(j)
    /\ MayStart(j)
    /\ \E S \in Allocations(request[j]) :
          /\ gpu_ids' = [gpu_ids EXCEPT ![j] = S]
          /\ IF request[j].mode = "Shared"
             THEN /\ shared' = shared \cup S
                  /\ shared_mem' = [g \in Gpus |->
                        shared_mem[g] + IF g \in S THEN OrZero(request[j].gpu_mem)
                                        ELSE 0]
                  /\ UNCHANGED excl
             ELSE /\ excl' = excl \cup S
                  /\ UNCHANGED <<shared, shared_mem>>
    /\ Transition(j, "Running")
    /\ available_memory_mb' = Sub(available_memory_mb, HostNeed(request[j]))
    /\ started' = started \cup {j}
    /\ todo' = todo \ {j}
    /\ UNCHANGED <<request, max_concurrent, heapVars, quota, slot_available,
                   allowed, launching, passing, avail, factor>>

Requeue_drops(j) ==     \* mutant: a failed check forgets the job
    /\ passing /\ First(j) /\ ~MayStart(j)
    /\ todo' = todo \ {j}
    /\ UNCHANGED <<jobVars, indexVars, machineVars, launching, passing, started,
                   avail, excl, shared, shared_mem, factor>>

Requeue_keeps(j) ==     \* mutant: the job stays in the list it is taken from
    /\ passing /\ First(j) /\ ~MayStart(j) /\ j \notin ready
    /\ Push(j, key[j])
    /\ UNCHANGED <<state, request, gpu_ids, max_concurrent, key, lowered, indexVars,
                   machineVars, launching, passVars>>

Requeue_stops(j) ==     \* mutant: the first blocked job ends the pass
    /\ passing /\ First(j) /\ ~MayStart(j)
    /\ todo' = {}
    /\ ready' = ready \cup todo
    /\ top' = [k \in Jobs |-> IF k \in todo THEN key[k] ELSE top[k]]
    /\ UNCHANGED <<state, request, gpu_ids, max_concurrent, key, lowered, indexVars,
                   machineVars, launching, passing, started, avail, excl,
                   shared, shared_mem, factor>>

(* Any failed check puts the job back on the heap for the next pass.  *)
Requeue(j) ==
    /\ passing
    /\ First(j)
    /\ ~MayStart(j)
    /\ todo' = todo \ {j}
    /\ Push(j, key[j])
    /\ UNCHANGED <<state, request, gpu_ids, max_concurrent, key, lowered, indexVars,
                   machineVars, launching, passing, started, avail, excl,
                   shared, shared_mem, factor>>

(* The jobs go to the executor; if there are any the slots are refreshed before
   the lock is given up.  *)
EndPass ==
    /\ passing
    /\ todo = {}
    /\ passing' = FALSE
    /\ launching' = launching \cup started
    /\ IF started = {} THEN UNCHANGED slot_available
                       ELSE slot_available' \in RefreshedSlots
    /\ started' = {}
    /\ avail' = {} /\ excl' = {} /\ shared' = {}
    /\ shared_mem' = [g \in Gpus |-> 0]
    /\ factor' = [u \in Users |-> 0]
    /\ UNCHANGED <<jobVars, indexVars, quota, available_memory_mb, allowed, todo>>

-----------------------------------------------------------------------------
Next ==
    \/ \E j \in Jobs : \/ Submit(j) \/ Hold(j) \/ Release(j) \/ UpdateJob(j)
                       \/ Complete(j) \/ Execute(j) \/ ExecutionFails(j)
                       \/ StartJob(j) \/ Requeue(j)
    \/ \E G \in Groups : SetGroupMaxConcurrency(G)
    \/ \E s \in Subjects : SetQuota(s)
    \/ SetAllowedGpus \/ RefreshGpuSlots \/ StartPass \/ EndPass

Spec == Init /\ [][Next]_vars

-----------------------------------------------------------------------------
(* The properties.  *)

(* No two running jobs hold the same GPU unless both asked to share it: the
   isolation --shared and the exclusive default promise, which the pass must
   keep with occupancy it read once and updates itself.  *)
ExclusiveIsolation ==
    \A j, k \in Running :
        /\ j # k
        /\ gpu_ids[j] \cap gpu_ids[k] # {}
        => request[j].mode = "Shared" /\ request[k].mode = "Shared"

(* The memory promised to the jobs sharing a GPU never exceeds what the GPU
   has, over any sequence of passes, completions and updates.  *)
SharedMemoryFits ==
    \A g \in Gpus : AtMost(SharedMemoryOn(g), GpuMemory[g])

(* The running jobs' host memory limits fit the machine, although
   available_memory_mb is stale between passes.  *)
HostMemoryFits == HostUsed <= HostMemory

(* The O(1) group index is exact: group_running_count equals a recount of the
   running jobs after any sequence of transitions, executor failures and updates
   (saturating_sub must never hide a missed increment).  *)
GroupIndexExact ==
    \A G \in Groups : group_running_count[G] = Cardinality(RunningIn(G))

(* So is the quota index, in jobs and in GPUs, although a job's GPU count is read
   again when it stops and could have been updated in between.  *)
QuotaIndexExact ==
    \A s \in Subjects :
        quota_usage[s] = [jobs |-> Cardinality(RunningFor(s)), gpus |-> GpusUsed(s)]

(* A queued job has a valid heap entry or is in the pass's list, unless an update has
   lowered its key: no exit of the pass and no other handler leaves a runnable job
   where no later pass looks.  *)
Listed(j) == j \in ready \cup todo
NoJobForgotten == \A j \in Jobs : state[j] = "Queued" => Listed(j) \/ j \in lowered

(* Refuted.  "Heap of queued jobs whose dependencies are already satisfied"
   (core/scheduler.rs:168): the outdated entry of a job whose key was lowered is
   popped first, and the pass drops the valid one.  *)
HeapHasAllQueued == \A j \in Jobs : state[j] = "Queued" => Listed(j)

(* Every job in the pass's list is still Queued and is in it alone, so the
   transition to Running cannot be refused and the pass never has to roll an
   allocation back.  *)
PassListSound ==
    /\ \A j \in todo : state[j] = "Queued" /\ j \notin ready
    /\ ~passing => todo = {} /\ started = {}

(* During a pass what it decides from equals a recount of the running jobs:
   exclusive and shared occupancy, and what is left of GPU and host memory.  *)
OccupancyExact ==
    passing => /\ excl = {g \in Gpus : HoldersOf(g, "Exclusive") # {}}
               /\ shared = {g \in Gpus : HoldersOf(g, "Shared") # {}}

MemoryExact ==
    passing => /\ \A g \in Gpus : shared_mem[g] = SharedMemoryOn(g)
               /\ available_memory_mb = Sub(HostMemory, HostUsed)

SnapshotExact == OccupancyExact /\ MemoryExact

(* What the allocator counts is exact where it is used, and the memory it gives out
   is there.  *)
AccountingExact == TypeOK /\ SnapshotExact /\ SharedMemoryFits /\ HostMemoryFits

Starts(j) == state[j] # "Running" /\ state'[j] = "Running"

(* When a job starts, its group and each of its quota subjects are within their
   limits with the job counted, judged by a recount and not by the indexes.  A
   limit lowered later is not taken from running jobs, so this is a property of
   the starting step.  *)
StartedWithinGroupLimit ==
    \A j \in Jobs : Starts(j) /\ GroupOf[j] # NoGroup
        => AtMost(Cardinality(RunningIn(GroupOf[j])'), max_concurrent[j])

StartedWithinQuota ==
    \A j \in Jobs : Starts(j) =>
        \A s \in SubjectsOf[j] :
            /\ AtMost(Cardinality(RunningFor(s)'), quota[s].jobs)
            /\ AtMost(GpusUsed(s)', quota[s].gpus)

StartsWithinLimits == [][StartedWithinGroupLimit /\ StartedWithinQuota]_vars

(* The limits of users and projects are kept from an index that is exact.  *)
LimitsKept == []QuotaIndexExact /\ StartsWithinLimits

(* Whether job k could be started now, recounted from the job table.  *)
RoomOn(g, r) ==
    /\ HoldersOf(g, "Exclusive") = {}
    /\ IF r.mode = "Shared"
       THEN r.gpu_mem # NoLimit => AtMost(SharedMemoryOn(g) + r.gpu_mem, GpuMemory[g])
       ELSE HoldersOf(g, "Shared") = {}

Startable(k) ==
    /\ state[k] = "Queued"
    /\ HostUsed + HostNeed(request[k]) <= HostMemory
    /\ GroupOf[k] # NoGroup =>
          Below(Cardinality(RunningIn(GroupOf[k])), max_concurrent[k])
    /\ \A s \in SubjectsOf[k] :
          /\ Below(Cardinality(RunningFor(s)), quota[s].jobs)
          /\ AtMost(GpusUsed(s) + request[k].gpus, quota[s].gpus)
    /\ Cardinality({g \in Gpus : /\ g \in allowed /\ slot_available[g]
                                 /\ RoomOn(g, request[k])}) >= request[k].gpus

(* A job that an update has lost is on no list until it is released or updated.  *)
Lost(k) == k \in lowered /\ ~Listed(k)

(* No start over the head of a job that comes first: when a pass starts j, every
   queued job of higher priority could not be started at that moment.  *)
NoPriorityInversion ==
    [][\A j, k \in Jobs :
          Starts(j) /\ key[k].priority > key[j].priority => ~Startable(k) \/ Lost(k)]_vars

(* A pass is work conserving: it does not end while a queued job could still be
   started, so a job that is blocked never blocks one behind it.  *)
PassWorkConserving ==
    [][passing /\ ~passing' => \A k \in Jobs : ~Startable(k) \/ Lost(k)]_vars

(* A pass is greedy in the order of the queue: it passes over a job only while that
   job cannot start, and ends only when none can.  *)
PassInOrder == NoPriorityInversion /\ PassWorkConserving

LeasePhase == [j \in Jobs |-> CASE state[j] = "Running" -> "leased"
                                [] state[j] = "Over" -> "over"
                                [] OTHER -> "waiting"]
LeaseMode == [j \in Jobs |-> request[j].mode]
LeaseHeld == [j \in Jobs |-> IF state[j] = "Running" THEN gpu_ids[j] ELSE {}]

Lease == INSTANCE GpuLease WITH phase <- LeasePhase, mode <- LeaseMode,
                                lease <- LeaseHeld

(* The allocator implements the abstract leases: a job's lease is its gpu_ids
   while it runs, however the snapshots, the stale gpu_ids of ended jobs and
   failed executions got there, and no job ever runs twice.  *)
ImplementsLease == Lease!Spec
=============================================================================
