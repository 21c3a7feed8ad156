------------------------------ MODULE JobDeps ------------------------------
(***************************************************************************)
(* Which queued jobs may run: dependencies, begin times, retries and the   *)
(* ready heap of the scheduler core (core/scheduler/transitions.rs).       *)
(*                                                                         *)
(* A handler that ends or edits a job walks the graph of its dependents,   *)
(* and what it does there calls the same code again.  The recursion is     *)
(* kept as it is: `calls' is the stack of graph walks in progress, its     *)
(* head the innermost.  They belong to the handler that started them: it   *)
(* holds the write lock, so while the stack is not empty nothing else      *)
(* happens, and properties of what others see are stated for an empty one. *)
(*                                                                         *)
(* GPUs, memory, groups and quotas are those of Allocation: here a pass    *)
(* starts any of the jobs it finds runnable.  A key stands for priority    *)
(* and time bonus; Failed stands for Timeout too.                          *)
(***************************************************************************)
EXTENDS Integers, Sequences, FiniteSets, FiniteSetsExt

CONSTANTS
    Jobs,         \* job ids, given out in increasing order
    Setups,       \* what users may do, by name: one of these for a whole behaviour
    MaxRestarts,  \* bound on daemon restarts
    NoJob

Plan == [ids : SUBSET Jobs,                   \* depends_on_ids
         again : SUBSET Jobs,                 \* those of them listed twice
         legacy : Jobs \cup {NoJob},          \* depends_on
         mode : {"All", "Any"},               \* dependency_mode, All by default
         auto : BOOLEAN,                      \* auto_cancel_on_dependency_failure
         key : Nat,                           \* priority, then time bonus
         begin : {"none", "future", "due"},   \* scheduled_at, against the clock
         retries : Nat]                       \* attempts left of max_retries

Setup == [last : Jobs,                        \* the last id that is given out
          plans : [Jobs -> SUBSET Plan],      \* what each job may be submitted with
          ids : SUBSET SUBSET Jobs,           \* the dependency lists update may set,
          modes : SUBSET {"All", "Any"},      \* the modes,
          autos : SUBSET BOOLEAN,             \* the values of auto-cancel, and
          keys : SUBSET Nat,                  \* the priorities and time limits
          delayed : SUBSET {"Queued", "Hold"},\* where release --at may find a job
          edits : Nat]                        \* bound on hold, release and update calls

ASSUME JobsAssumption ==
    /\ Jobs \subseteq Nat
    /\ IsFiniteSet(Jobs)
    /\ NoJob \notin Jobs
    /\ MaxRestarts \in Nat

ASSUME SetupsAssumption ==
    \A u \in DOMAIN Setups :
        /\ Setups[u].last \in Jobs
        /\ \A j \in Jobs : Setups[u].plans[j] \subseteq Plan
        /\ Setups[u].ids \subseteq SUBSET Jobs
        /\ Setups[u].modes \subseteq {"All", "Any"}
        /\ Setups[u].autos \subseteq BOOLEAN
        /\ Setups[u].keys \subseteq Nat
        /\ Setups[u].delayed \subseteq {"Queued", "Hold"}
        /\ Setups[u].edits \in Nat

VARIABLES
    setup,      \* the name of the one that is used
    state,      \* the state of each job: "Absent" before submission
    reason,     \* why it waits
    spec,       \* what it was submitted with, as edited since
    edges,      \* dependents_graph: <<d, j>> when j depends on d
    dep_rt,     \* dependency_runtimes: the counters of each job
    epoch,      \* ready_epoch of each job
    heap,       \* ready_heap: entries [job, epoch, key]
    calls,      \* graph walks in progress
    edits,      \* user edits so far
    restarts    \* daemon restarts so far

vars == <<setup, state, reason, spec, edges, dep_rt, epoch, heap, calls, edits, restarts>>

Allowed == Setups[setup]

Ended == {"Finished", "Failed", "Cancelled"}
Unsuccessful_failed == {"Failed"}    \* mutant: a cancelled dependency may still end
Unsuccessful == {"Failed", "Cancelled"}
Retargeted_queued == {"Queued"}      \* mutant: held dependents are not moved
Retargeted == {"Queued", "Hold"}
States == {"Absent", "Queued", "Hold", "Running"} \cup Ended
Reasons == {"None", "Dependency", "BeginTime", "Resources", "CancelledByUser",
            "DependencyFailed"}

CanTransitionTo ==
    [s \in States |->
        CASE s = "Queued"  -> {"Running", "Hold", "Cancelled"}
          [] s = "Hold"    -> {"Queued", "Cancelled"}
          [] s = "Running" -> Ended
          [] OTHER         -> {}]

Counters == [total : Nat, success : Nat, failure : Nat,
             satisfied : BOOLEAN, impossible : BOOLEAN]

Entry == [job : Jobs, epoch : Nat, key : Nat]

(* The three walks: over the dependents of jobs that ended, over those of jobs
   whose wait reason changed, and over those of a job that is retried.  `left'
   is what remains of the dependents of the current source.  *)
Walk == [kind : {"propagate"}, work : Seq(Jobs \X BOOLEAN), success : BOOLEAN,
         left : SUBSET Jobs]
        \cup [kind : {"wave"}, work : Seq(Jobs), seen : SUBSET Jobs, left : SUBSET Jobs]
        \cup [kind : {"retry"}, old : Jobs, new : Jobs, left : SUBSET Jobs]

Propagate(j, success) ==
    <<[kind |-> "propagate", work |-> << <<j, success>> >>, success |-> success,
       left |-> {}]>>
Wave(j) == <<[kind |-> "wave", work |-> <<j>>, seen |-> {}, left |-> {}]>>

-----------------------------------------------------------------------------
(* Dependencies.  *)

(* normalized_dependency_ids: the list and the legacy field together.  *)
DepsIn(sp) == sp.ids \cup ({sp.legacy} \ {NoJob})
DepsOf(j) == DepsIn(spec[j])
Dependents(j) == {k \in Jobs : <<j, k>> \in edges}
EdgesTo(j, D) == D \X {j}

(* How many places the dependencies in S have in the list of plan sp.  *)
Listed(sp, S) == Cardinality(S) + Cardinality(S \cap sp.again)

Judged(mode, total, ok, bad) ==
    [total |-> total, success |-> ok, failure |-> bad,
     satisfied |-> \/ total = 0
                   \/ mode = "All" /\ ok = total
                   \/ mode = "Any" /\ ok > 0,
     impossible |-> /\ total # 0
                    /\ \/ mode = "All" /\ bad > 0
                       \/ mode = "Any" /\ ok = 0 /\ bad = total]

NoCounters == [total |-> 0, success |-> 0, failure |-> 0, satisfied |-> FALSE,
               impossible |-> FALSE]

Build_ended(sp, st) ==                 \* mutant: any ended dependency satisfies
    LET D == DepsIn(sp)
    IN  Judged(sp.mode, Listed(sp, D), Listed(sp, {d \in D : st[d] \in Ended}), 0)

(* build_dependency_runtime, of plan sp when the jobs are in states st: a
   dependency listed twice is counted twice.  *)
Build(sp, st) ==
    LET D == DepsIn(sp)
    IN  Judged(sp.mode, Listed(sp, D),
               Listed(sp, {d \in D : st[d] = "Finished"}),
               Listed(sp, {d \in D : st[d] \in Unsuccessful}))

(* One more dependency ended: the counters grow by one, whatever the list holds;
   nothing is recounted.  *)
Count_success(rt, mode, success) ==      \* mutant: any end counts as a success
    Judged(mode, rt.total, rt.success + 1, rt.failure)

Count_swapped(rt, mode, success) ==      \* mutant: the outcomes are confused
    IF success THEN Judged(mode, rt.total, rt.success, rt.failure + 1)
               ELSE Judged(mode, rt.total, rt.success + 1, rt.failure)

Count(rt, mode, success) ==
    IF success THEN Judged(mode, rt.total, rt.success + 1, rt.failure)
               ELSE Judged(mode, rt.total, rt.success, rt.failure + 1)

(* queued_wait_reason_for_job.  *)
WaitReason(st, sp, rt) ==
    IF st # "Queued" THEN "None"
    ELSE IF sp.begin = "future" THEN "BeginTime"
    ELSE IF rt.satisfied THEN "None" ELSE "Dependency"

Synced_kept(current, desired) ==         \* mutant: a reason is never cleared
    IF desired # "None" THEN desired ELSE current

(* sync_queued_wait_reason leaves reasons the scheduling pass wrote alone.  *)
Synced(current, desired) ==
    IF desired # "None" THEN desired
    ELSE IF current \in {"Dependency", "BeginTime"} THEN "None" ELSE current

Pushed_early(h, j, st, sp, rt, e) ==     \* mutant: the begin time is not looked at
    IF st = "Queued" /\ rt.satisfied
    THEN h \cup {[job |-> j, epoch |-> e, key |-> sp.key]} ELSE h

Pushed_stale(h, j, st, sp, rt, e) ==     \* mutant: pushed before the epoch is bumped
    IF st = "Queued" /\ sp.begin # "future" /\ rt.satisfied
    THEN h \cup {[job |-> j, epoch |-> e - 1, key |-> sp.key]} ELSE h

(* enqueue_if_ready.  *)
Pushed(h, j, st, sp, rt, e) ==
    IF st = "Queued" /\ sp.begin # "future" /\ rt.satisfied
    THEN h \cup {[job |-> j, epoch |-> e, key |-> sp.key]} ELSE h

-----------------------------------------------------------------------------
TypeOK ==
    /\ setup \in DOMAIN Setups
    /\ state \in [Jobs -> States]
    /\ reason \in [Jobs -> Reasons]
    /\ spec \in [Jobs -> Plan]
    /\ edges \subseteq Jobs \X Jobs
    /\ dep_rt \in [Jobs -> Counters]
    /\ epoch \in [Jobs -> Nat]
    /\ heap \subseteq Entry
    /\ calls \in Seq(Walk)
    /\ edits \in 0 .. Allowed.edits
    /\ restarts \in 0 .. MaxRestarts

Blank == [ids |-> {}, again |-> {}, legacy |-> NoJob, mode |-> "All", auto |-> TRUE,
          key |-> 0, begin |-> "none", retries |-> 0]

Init ==
    /\ setup \in DOMAIN Setups
    /\ state = [j \in Jobs |-> "Absent"]
    /\ reason = [j \in Jobs |-> "None"]
    /\ spec = [j \in Jobs |-> Blank]
    /\ edges = {}
    /\ dep_rt = [j \in Jobs |-> NoCounters]
    /\ epoch = [j \in Jobs |-> 0]
    /\ heap = {}
    /\ calls = <<>>
    /\ edits = 0
    /\ restarts = 0

Unlocked == calls = <<>>
Edit == edits < Allowed.edits /\ edits' = edits + 1
Next_id(j) == /\ state[j] = "Absent"
              /\ j <= Allowed.last
              /\ \A k \in Jobs : k < j => state[k] # "Absent"

(* refresh_single_job_readiness of j, when the caller has made the states st,
   the plans sp and the wait reason why: the counters are recounted, the old
   heap entry is invalidated, and j is cancelled if it can never run or pushed
   if it can run now.  The stack goes on as `changed' when j's wait reason
   differs from before, as `same' otherwise; a cancelled job's own propagation
   comes first.  *)
Refresh(j, st, sp, why, changed, same) ==
    LET rt      == Build(sp[j], st)
        before  == WaitReason(st[j], sp[j], dep_rt[j])
        after   == WaitReason(st[j], sp[j], rt)
        doomed  == st[j] = "Queued" /\ sp[j].auto /\ rt.impossible
    IN  /\ spec' = sp
        /\ dep_rt' = [dep_rt EXCEPT ![j] = rt]
        /\ epoch' = [epoch EXCEPT ![j] = @ + 1]
        /\ IF doomed
           THEN /\ state' = [st EXCEPT ![j] = "Cancelled"]
                /\ reason' = [reason EXCEPT ![j] = "DependencyFailed"]
                /\ calls' = Propagate(j, FALSE) \o changed
                /\ UNCHANGED heap
           ELSE /\ state' = st
                /\ reason' = [reason EXCEPT ![j] = Synced(why, after)]
                /\ calls' = IF after # before THEN changed ELSE same
                /\ heap' = Pushed(heap, j, st[j], sp[j], rt, epoch[j] + 1)

(* refresh_job_readiness: and then its dependents, if its reason changed.  *)
RefreshJob(j, st, sp, why, rest) == Refresh(j, st, sp, why, Wave(j) \o rest, rest)

(* A transition without a walk: to Hold or Running.  *)
Moved(S, next) == [j \in Jobs |-> IF j \in S THEN next ELSE state[j]]
Bumped(S) == [j \in Jobs |-> IF j \in S THEN epoch[j] + 1 ELSE epoch[j]]
Because(S, why) == [j \in Jobs |-> IF j \in S THEN why ELSE reason[j]]

(* A transition to a final state, which is propagated to the dependents.  *)
End(j, final, why) ==
    /\ Unlocked
    /\ final \in CanTransitionTo[state[j]]
    /\ state' = Moved({j}, final)
    /\ reason' = Because({j}, why)
    /\ epoch' = Bumped({j})
    /\ calls' = Propagate(j, final = "Finished")
    /\ UNCHANGED <<spec, edges, dep_rt, heap, edits, restarts, setup>>

-----------------------------------------------------------------------------
(* The handlers.  *)

(* create_job: every dependency must exist.  A new id has no dependents, so no
   cycle can be closed.  *)
Submit(j) ==
    /\ Unlocked
    /\ Next_id(j)
    /\ \E p \in Allowed.plans[j] :
          /\ \A d \in DepsIn(p) : state[d] # "Absent"
          /\ edges' = edges \cup EdgesTo(j, DepsIn(p))
          /\ RefreshJob(j, Moved({j}, "Queued"), [spec EXCEPT ![j] = p], "None", <<>>)
    /\ UNCHANGED <<edits, restarts, setup>>

Hold(j) ==
    /\ Unlocked
    /\ Edit
    /\ "Hold" \in CanTransitionTo[state[j]]
    /\ state' = Moved({j}, "Hold")
    /\ reason' = Because({j}, "None")
    /\ epoch' = Bumped({j})
    /\ UNCHANGED <<spec, edges, dep_rt, heap, calls, restarts, setup>>

Release(j) ==
    /\ Unlocked
    /\ Edit
    /\ "Queued" \in CanTransitionTo[state[j]]
    /\ RefreshJob(j, Moved({j}, "Queued"), spec, "None", <<>>)
    /\ UNCHANGED <<edges, restarts, setup>>

(* release_job_at sets the begin time whatever the job's state is; the client
   checked that it was on hold in an earlier request.  *)
ReleaseAt(j) ==
    /\ Unlocked
    /\ Edit
    /\ state[j] \in Allowed.delayed
    /\ LET sp == [spec EXCEPT ![j].begin = "future"]
       IN  IF "Queued" \in CanTransitionTo[state[j]]
           THEN RefreshJob(j, Moved({j}, "Queued"), sp, "None", <<>>)
           ELSE spec' = sp /\ UNCHANGED <<state, reason, dep_rt, epoch, heap, calls>>
    /\ UNCHANGED <<edges, restarts, setup>>

Cancel(j) == End(j, "Cancelled", "CancelledByUser")
Finish(j) == End(j, "Finished", "None")

(* fail_job and timeout_job, of a job with no retry left, or whose retry was
   refused by a quota.  *)
Fail(j) == End(j, "Failed", "None")

HasRetry_off(j) == spec[j].retries >= 0       \* mutant: one attempt too many
HasRetry(j) == spec[j].retries > 0

(* finalize_job_with_retry: the retry is submitted with the job's dependencies,
   the job's dependents are moved over to it one by one, and only then does
   the job fail, without propagation.  *)
FailAndRetry(j, n) ==
    /\ Unlocked
    /\ state[j] = "Running"
    /\ HasRetry(j)
    /\ Next_id(n)
    /\ LET p == [spec[j] EXCEPT !.ids = DepsOf(j),
                                !.legacy = IF Listed(spec[j], DepsOf(j)) = 1
                                           THEN CHOOSE d \in DepsOf(j) : TRUE ELSE NoJob,
                                !.begin = "none",
                                !.retries = @ - 1]
       IN  /\ edges' = edges \cup EdgesTo(n, DepsOf(j))
           /\ RefreshJob(n, Moved({n}, "Queued"), [spec EXCEPT ![n] = p], "None",
                         <<[kind |-> "retry", old |-> j, new |-> n,
                            left |-> Dependents(j)]>>)
    /\ UNCHANGED <<edits, restarts, setup>>

(* update_job changes a queued or held job; new dependencies must exist and
   must not reach the job.  depends_on_ids is replaced, depends_on is not.  *)
Reaches(a, b) ==
    \A S \in SUBSET Jobs : a \in S /\ (\A x \in S : DepsOf(x) \subseteq S) => b \in S

AllowedDep_any(j, d) == d # j /\ state[d] # "Absent"     \* mutant: no cycle check

AllowedDep(j, d) == state[d] # "Absent" /\ ~Reaches(d, j)

Revision(j, D, m, a, k) ==
    [spec[j] EXCEPT !.ids = D, !.again = IF D = spec[j].ids THEN @ ELSE {},
                    !.mode = m, !.auto = a, !.key = k]

Revised(j) ==
    LET allowed == {E \in Allowed.ids : \A d \in E : AllowedDep(j, d)}
    IN  {Revision(j, D, m, a, k) :
            D \in allowed \cup {spec[j].ids}, m \in Allowed.modes \cup {spec[j].mode},
            a \in Allowed.autos \cup {spec[j].auto}, k \in Allowed.keys \cup {spec[j].key}}

Relinked_added(j, p) == edges \cup EdgesTo(j, DepsIn(p))  \* mutant: old edges stay

Relinked(j, p) == (edges \ EdgesTo(j, DepsOf(j))) \cup EdgesTo(j, DepsIn(p))

(* validate_job_update; what it asks of the new dependencies is AllowedDep.  *)
MayUpdate(j) == state[j] \in {"Queued", "Hold"}

Update(j) ==
    /\ Unlocked
    /\ Edit
    /\ MayUpdate(j)
    /\ \E p \in Revised(j) :
          /\ p # spec[j]
          /\ edges' = Relinked(j, p)
          /\ RefreshJob(j, state, [spec EXCEPT ![j] = p], reason[j], <<>>)
    /\ UNCHANGED <<restarts, setup>>

(* The clock reaches a begin time.  *)
Tick(j) ==
    /\ spec[j].begin = "future"
    /\ Unlocked
    /\ spec' = [spec EXCEPT ![j].begin = "due"]
    /\ UNCHANGED <<state, reason, edges, dep_rt, epoch, heap, calls, edits, restarts, setup>>

(* release_due_scheduled_jobs, run by the begin-time monitor.  *)
Due == {j \in Jobs : /\ state[j] = "Queued"
                     /\ spec[j].begin = "due"
                     /\ reason[j] = "BeginTime"}

ReleaseDue ==
    /\ Unlocked
    /\ Due # {}
    /\ reason' = [j \in Jobs |->
                    IF j \in Due
                    THEN Synced("BeginTime", WaitReason("Queued", spec[j], dep_rt[j]))
                    ELSE reason[j]]
    /\ heap' = heap \cup {[job |-> j, epoch |-> epoch[j], key |-> spec[j].key] :
                             j \in {k \in Due : dep_rt[k].satisfied}}
    /\ UNCHANGED <<state, spec, edges, dep_rt, epoch, calls, edits, restarts, setup>>

(* The drain of the ready heap: of the entries of a job only the first popped,
   the one of highest key and then highest epoch, is looked at.  *)
FirstPopped(e) ==
    \A f \in heap : f.job = e.job =>
        e.key > f.key \/ (e.key = f.key /\ e.epoch >= f.epoch)

Valid(e) == /\ state[e.job] = "Queued"
            /\ e.epoch = epoch[e.job]
            /\ dep_rt[e.job].satisfied

Runnable == {e.job : e \in {f \in heap : FirstPopped(f) /\ Valid(f)}}

(* prepare_jobs_for_execution: some of the runnable jobs start, the others go
   back on the heap.  *)
Pass ==
    /\ Unlocked
    /\ heap # {}
    /\ \E S \in SUBSET Runnable :
          LET blocked == Runnable \ S
          IN  /\ state' = Moved(S, "Running")
              /\ epoch' = Bumped(S)
              /\ reason' = [j \in Jobs |-> IF j \in S THEN "None"
                                           ELSE IF j \in blocked THEN "Resources"
                                           ELSE reason[j]]
              /\ heap' = {[job |-> j, epoch |-> epoch[j], key |-> spec[j].key] :
                             j \in {k \in blocked : spec[k].begin # "future"}}
    /\ UNCHANGED <<spec, edges, dep_rt, calls, edits, restarts, setup>>

(* The daemon restarts from the jobs it saved: every index is rebuilt
   (rebuild_user_jobs_index).  *)
Restart ==
    /\ Unlocked
    /\ restarts < MaxRestarts
    /\ restarts' = restarts + 1
    /\ LET rt == [j \in Jobs |-> IF state[j] = "Absent" THEN NoCounters
                                 ELSE Build(spec[j], state)]
       IN  /\ dep_rt' = rt
           /\ reason' = [j \in Jobs |->
                            Synced(reason[j], WaitReason(state[j], spec[j], rt[j]))]
           /\ heap' = {[job |-> j, epoch |-> 0, key |-> spec[j].key] :
                          j \in {k \in Jobs : /\ state[k] = "Queued"
                                              /\ spec[k].begin # "future"
                                              /\ rt[k].satisfied}}
    /\ epoch' = [j \in Jobs |-> 0]
    /\ edges' = UNION {EdgesTo(j, DepsOf(j)) : j \in Jobs}
    /\ UNCHANGED <<state, spec, calls, edits, setup>>

-----------------------------------------------------------------------------
(* The walks.  *)

top == Head(calls)
rest == Tail(calls)
In(kind) == ~Unlocked /\ top.kind = kind
With(walk) == <<walk>> \o rest

(* The next source: the last pushed, for a propagation.  *)
NextSource ==
    /\ In("propagate")
    /\ top.left = {}
    /\ top.work # <<>>
    /\ LET source == top.work[Len(top.work)]
       IN  calls' = With([top EXCEPT !.work = SubSeq(@, 1, Len(@) - 1),
                                     !.success = source[2],
                                     !.left = Dependents(source[1])])
    /\ UNCHANGED <<state, reason, spec, edges, dep_rt, epoch, heap, edits, restarts, setup>>

(* One dependent of an ended job.  A dependent that becomes impossible is
   cancelled, which propagates at once, and is pushed as a source too.  *)
PropagateTo(j) ==
    /\ In("propagate")
    /\ j \in top.left /\ j = Min(top.left)
    /\ LET rt     == Count(dep_rt[j], spec[j].mode, top.success)
           doomed == /\ state[j] = "Queued"
                     /\ spec[j].auto
                     /\ rt.impossible /\ ~dep_rt[j].impossible
           ready  == rt.satisfied /\ ~dep_rt[j].satisfied
           next   == [top EXCEPT !.left = @ \ {j}]
       IN  /\ dep_rt' = [dep_rt EXCEPT ![j] = rt]
           /\ IF doomed
              THEN /\ state' = Moved({j}, "Cancelled")
                   /\ reason' = Because({j}, "DependencyFailed")
                   /\ epoch' = Bumped({j})
                   /\ calls' = Propagate(j, FALSE)
                               \o With([next EXCEPT !.work = Append(@, <<j, FALSE>>)])
                   /\ UNCHANGED heap
              ELSE /\ reason' = Because({j}, Synced(reason[j],
                                        WaitReason(state[j], spec[j], rt)))
                   /\ heap' = IF ready
                              THEN Pushed(heap, j, state[j], spec[j], rt, epoch[j])
                              ELSE heap
                   /\ calls' = With(next)
                   /\ UNCHANGED <<state, epoch>>
    /\ UNCHANGED <<spec, edges, edits, restarts, setup>>

(* The next source of a wave: the first queued, unless it was one before.  *)
NextWave ==
    /\ In("wave")
    /\ top.left = {}
    /\ top.work # <<>>
    /\ LET source == Head(top.work)
       IN  calls' = With([top EXCEPT !.work = Tail(@),
                                     !.seen = @ \cup {source},
                                     !.left = IF source \in top.seen THEN {}
                                              ELSE Dependents(source)])
    /\ UNCHANGED <<state, reason, spec, edges, dep_rt, epoch, heap, edits, restarts, setup>>

WaveTo(j) ==
    /\ In("wave")
    /\ j \in top.left /\ j = Min(top.left)
    /\ LET next == [top EXCEPT !.left = @ \ {j}]
       IN  IF state[j] = "Queued"
           THEN Refresh(j, state, spec, reason[j],
                        With([next EXCEPT !.work = Append(@, j)]), With(next))
           ELSE /\ calls' = With(next)
                /\ UNCHANGED <<state, reason, spec, dep_rt, epoch, heap>>
    /\ UNCHANGED <<edges, edits, restarts, setup>>

(* retarget_dependents_to_retry, one dependent.  *)
Retarget(j) ==
    /\ In("retry")
    /\ j \in top.left /\ j = Min(top.left)
    /\ LET next == [top EXCEPT !.left = @ \ {j}]
           D    == (DepsOf(j) \ {top.old}) \cup {top.new}
           p    == [spec[j] EXCEPT !.ids = D,
                                   !.again = {},
                                   !.legacy = IF D = {top.new} THEN top.new ELSE NoJob]
       IN  IF state[j] \in Retargeted /\ top.old \in DepsOf(j)
           THEN /\ edges' = (edges \ {<<top.old, j>>}) \cup EdgesTo(j, D)
                /\ RefreshJob(j, state, [spec EXCEPT ![j] = p], reason[j], With(next))
           ELSE /\ calls' = With(next)
                /\ UNCHANGED <<state, reason, spec, edges, dep_rt, epoch, heap>>
    /\ UNCHANGED <<edits, restarts, setup>>

(* The end of a walk; that of a retry fails the retried job.  *)
Return ==
    /\ ~Unlocked
    /\ top.left = {}
    /\ calls' = rest
    /\ IF top.kind = "retry"
       THEN /\ state' = Moved({top.old}, "Failed")
            /\ reason' = Because({top.old}, "None")
            /\ epoch' = Bumped({top.old})
       ELSE top.work = <<>> /\ UNCHANGED <<state, reason, epoch>>
    /\ UNCHANGED <<spec, edges, dep_rt, heap, edits, restarts, setup>>

-----------------------------------------------------------------------------
Next ==
    \/ \E j \in Jobs : \/ Submit(j) \/ Hold(j) \/ Release(j) \/ ReleaseAt(j)
                       \/ Cancel(j) \/ Finish(j) \/ Fail(j) \/ Update(j) \/ Tick(j)
                       \/ PropagateTo(j) \/ WaveTo(j) \/ Retarget(j)
    \/ \E j, n \in Jobs : FailAndRetry(j, n)
    \/ ReleaseDue \/ Pass \/ Restart \/ NextSource \/ NextWave \/ Return

Spec == Init /\ [][Next]_vars

-----------------------------------------------------------------------------
(* The properties.  *)

(* Recounts from the job table, against which the counters are judged.  *)
DependenciesMet(j) ==
    \/ DepsOf(j) = {}
    \/ spec[j].mode = "All" /\ \A d \in DepsOf(j) : state[d] = "Finished"
    \/ spec[j].mode = "Any" /\ \E d \in DepsOf(j) : state[d] = "Finished"

Hopeless(j) ==
    /\ DepsOf(j) # {}
    /\ \/ spec[j].mode = "All" /\ \E d \in DepsOf(j) : state[d] \in Ended \ {"Finished"}
       \/ spec[j].mode = "Any" /\ \A d \in DepsOf(j) : state[d] \in Ended \ {"Finished"}

Starts(j) == state[j] # "Running" /\ state'[j] = "Running"
AutoCancelled(j) == state[j] = "Queued" /\ state'[j] = "Cancelled"
                    /\ reason'[j] = "DependencyFailed"

(* A job starts only when its dependencies, as they are now, allow it
   (job-dependencies.md: "a job waits for other job(s) to finish before it can
   start"), whatever edits, retries and walks the counters went through, and never
   before its begin time.  *)
StartsOnlyWhenReady ==
    [][\A j \in Jobs : Starts(j) => DependenciesMet(j) /\ spec[j].begin # "future"]_vars

(* The counters of a job that has not started agree with a recount, although
   they are kept up one ended dependency at a time: successes exactly, and so
   whether the job may run.  (Failures may be counted twice.)  *)
ReadinessExact ==
    Unlocked => \A j \in Jobs : state[j] \in {"Queued", "Hold"} =>
        /\ dep_rt[j].satisfied = DependenciesMet(j)
        /\ dep_rt[j].success = Cardinality({d \in DepsOf(j) : state[d] = "Finished"})

(* The reverse graph the walks follow is the inverse of the dependencies at every
   step, in particular while a retry moves dependents from one job to another. *)
GraphExact ==
    edges = UNION {EdgesTo(j, DepsOf(j)) : j \in Jobs}

(* Dependencies never form a cycle: in any set of jobs one depends on none of the
   others.  Updates check the new list only, and keep depends_on.  *)
NoCycle ==
    \A S \in SUBSET Jobs : S # {} => \E j \in S : DepsOf(j) \cap S = {}

(* When the lock is free no queued job waits for dependencies that can no longer
   be met, unless its submitter asked for that (--no-auto-cancel).  *)
NoHopelessJob ==
    Unlocked => \A j \in Jobs : state[j] = "Queued" /\ spec[j].auto => ~Hopeless(j)

(* A job is auto-cancelled only if its dependencies can no longer be met.  *)
AllCancelJustified ==
    [][\A j \in Jobs : AutoCancelled(j) /\ spec'[j].mode = "All" => Hopeless(j)']_vars

AnyCancelJustified ==
    [][\A j \in Jobs : AutoCancelled(j) /\ spec'[j].mode = "Any" => Hopeless(j)']_vars

(* A queued job that may run will be found: the first entry popped for it is
   valid, or the begin-time monitor still has to release it (scheduler.rs: "Heap of
   queued jobs whose dependencies are already satisfied").  *)
NoJobForgotten ==
    Unlocked => \A j \in Jobs :
        state[j] = "Queued" /\ DependenciesMet(j) /\ spec[j].begin # "future"
            => j \in Runnable \cup Due

(* No queued job is stuck: not behind a dependency nor outside the heap.  *)
NoJobStuck == NoHopelessJob /\ NoJobForgotten

(* The wait reason users are shown is Dependency exactly when a job waits for its
   dependencies.  *)
ReasonExact ==
    Unlocked => \A j \in Jobs :
        state[j] = "Queued" /\ spec[j].begin = "none"
            => (reason[j] = "Dependency") = ~DependenciesMet(j)

(* What the jobs, the graph and the counters say of each other is true whenever
   others can look: an update, a retry or a restart leaves none of them behind.  *)
BookkeepingExact == TypeOK /\ ReadinessExact /\ GraphExact /\ NoCycle /\ ReasonExact

(* When a retried job fails, none of the jobs that wait depends on it any more:
   all of them wait for the new attempt (job-lifecycle.md: "Queued dependents are
   retargeted to the newest retry attempt automatically").  *)
RetryTakesDependents ==
    [][\A j \in Jobs : In("retry") /\ state[j] = "Running" /\ state'[j] = "Failed"
        => \A k \in Jobs : state[k] \in {"Queued", "Hold"} => j \notin DepsOf(k)]_vars

(* gjob update replaces the dependencies of a job by those it is given.  *)
UpdateReplaces ==
    [][\A j \in Jobs : state[j] # "Absent" /\ spec'[j].ids # spec[j].ids
        => DepsIn(spec'[j]) = spec'[j].ids]_vars
=============================================================================
