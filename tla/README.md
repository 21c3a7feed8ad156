# gflow in TLA+

gflow is a Slurm-like scheduler for one machine with GPUs: a daemon (`gflowd`)
keeps a table of jobs, decides which may run, gives them GPUs and starts them;
small clients (`gbatch`, `grun`, `gjob`, `gcancel`, `gctl`, `gqueue`, ...), an MCP
server and a web page talk to it over HTTP. This directory models the daemon, the
two executors, the way to and from the disk, the life of the daemon as a process,
and the clients whose work takes more than one request. TLC checks it; what matters
most about the allocator, dependencies, both executors, the files and the life of the
daemon is proved with TLAPS.

Source paths below are relative to `src/` (the repository root); `core/...` is
`src/core/...`, `gflowd/...` is `src/multicall/gflowd/...`, and the docs are in
`docs/src/user-guide/` and `docs/src/reference/`.

## 1. Inventory

### How the parts interact

```
 gbatch, grun, gjob, gcancel, gctl, gqueue, ginfo, MCP, web page
      |  one HTTP request at a time                ^ stream of events
      v                                            |
 server/handlers --write lock--> SchedulerRuntime --> Scheduler core
      |                               |    ^           (jobs, heap, indexes,
      |publish                   dirty|    |            reservations)
      v                               v    |read/write
  event bus ----> trigger handler   state saver --> state.msgpack or journal
      ^  |        (100 ms debounce) --> pass --> save --> executor
      |  +------> webhooks, e-mail                          |
      |                                                     v
  monitors: GPU (NVML), zombie, timeout,       process: runner + result file
            begin time, reservation            tmux: session that calls gcancel

  gflowd up / down / reload, systemd:  lock file, signals, tmux session of the daemon
```

One `RwLock` protects the runtime, and every handler does its work in one critical
section of it. The executor, the collection of results and the test whether a
runner lives happen outside it. Events are only hints: the trigger handler waits
for one, then runs a scheduling pass over whatever the table then holds.

### Components

| component | state it keeps | operations | what makes it correct | modules |
|---|---|---|---|---|
| resource allocation (`core/scheduler/scheduling.rs`, `quotas.rs`) | `gpu_ids`, group and quota indexes, memory, slots, allowed GPUs | scheduling pass, limits, quotas, launch failure | GPUs shared only as asked, limits kept, no job lost, jobs served in order | `Allocation` |
| job states and dependencies (`core/scheduler/transitions.rs`, `core/job/*`) | states, wait reasons, counters, reverse graph, ready heap with epochs | submit, hold, release, cancel, end, update, begin times, restart | starts are ready, who may run is found, who cannot is cancelled | `JobDeps` |
| automatic retry (`gflowd/scheduler_runtime/retry.rs`) | `retried_from` | retry, retargeting, budget | dependents wait for the newest attempt, attempts are bounded | `JobDeps`, `Submission` |
| runtime handlers (`gflowd/scheduler_runtime/jobs.rs`) | the runtime, dirty flag | one per request | each is atomic and refuses what the state does not allow | most modules |
| event loop and bus (`event_loop.rs`, `events.rs`) | `pending_schedule`, channel | publish, trigger, launch, failure | what could start is found by a pass | `Daemon`, `Notifications` |
| monitors (`monitors.rs`, `gpu.rs`) | what they saw last | polls, their events | what they report is true when it is acted on | `Daemon`, `Reservations`, `GpuSlots` |
| reservations (`core/scheduler/reservations.rs`, `core/conflict.rs`) | reservations, next id | create, cancel, status by the clock, filter in a pass | what was accepted can be honoured, and is | `Reservations` |
| persistence (`persistence.rs`, `state_saver.rs`) | state file, journal, modes, dirty flag | load, save, journal, recovery | what was saved is what is loaded | `Persistence` |
| HTTP server and handlers (`gflowd/server/*`) | none of its own | requests, listing, statistics, log tail | what is answered is complete | `Queries` and the others |
| executors (`gflowd/executor.rs`, `tmux.rs`) | runners, metadata, results; sessions | execute, terminate, collect, status | one payload per job, its end is noticed, its outcome is believed | `JobRun`, `Daemon`, `TmuxExecutor` |
| webhooks and e-mail (`webhooks.rs`, `emails.rs`) | semaphore, retries | match, deliver, retry, give up | everyone is told, and the truth | `Notifications` |
| daemon commands (`gflowd/commands/*`) | lock file, identity, tmux session, unit | up, down, restart, reload, status, service | one daemon per state directory, the right process is signalled | `Lifecycle` |
| client library (`client.rs`) | none | one request per call | | in the clients' modules |
| submission clients (`gbatch`, `grun`) | none between commands | requests in a row | `@` is the caller's, grun returns | `Submission`, `Notifications` |
| control and query clients | none | redo, close-sessions, tree, preview | copies follow copies, nothing running is closed | `Submission`, `TmuxExecutor`, `Queries`, `GpuSlots` |
| MCP server (`multicall/mcp/*`) | none | the same requests, paging | pages are complete | `Queries` |
| metrics; web UI; configuration, parsers, paths, time zones | none the scheduler reads | | | not modelled, section 8 |

### What is hard

* the pass decides from snapshots it updates by hand, in an order that is sorted twice;
* indexes that are kept up incrementally and saturate instead of failing;
* heap entries that are never removed but only outdated;
* graph walks that call themselves through the transition they make;
* two fields that both hold dependencies;
* handlers that check in one request and act in another, clients that make one
  request after the other while others do too;
* the launch, the end and the death of a runner, seen through files or through a
  report of its own, against cancellations, timeouts and restarts;
* events that are lost, merged, announced too early or never published;
* a clock that is read again by everyone who compares it;
* crashes between saving, launching and recording; files of different ages;
* two commands that start, stop and replace one daemon by pids, locks and sessions;
* processes of strangers on GPUs, known by pids that are used again.

`PROJECT.json` lists these hazards at their lines with the properties that cover
them.

## 2. Plan

| module | what it adds | state |
|---|---|---|
| `GpuLease` | abstract: a job holds GPUs while it runs, exclusively or shared, once | done |
| `Allocation` | the scheduling pass and everything it decides from; implements `GpuLease` | done |
| `Allocation_proofs` | sums over finite sets in any order; isolation, memory, indexes and limits, the order of the pass, nothing forgotten, refinement | done |
| `JobDeps` | dependencies, begin times, retries, the ready heap and the recursive walks | done |
| `JobRun` | abstract: what is promised of one job, whatever executor runs it and whatever crashes | done |
| `Daemon` | event bus, trigger, process executor, monitors, state file, crashes; implements `JobRun` | done |
| `TmuxExecutor` | the default executor and the users of its sessions; implements `JobRun` | done |
| `Reservations` | creation against conflicts, time-driven status, what a pass may use | done |
| `Persistence` | state file, journal, recovery mode, versions, saver | done |
| `Lifecycle` | up, down, reload, systemd, lock, pids | done |
| `Notifications` | the bus as others hear it: webhooks, e-mail, grun | done |
| `Submission` | gbatch, `@`, queue limits, retry budget, redo --cascade | done |
| `Queries` with `GpuSlots` | listings, pages, trees, log tails; NVML and ginfo | done |
| `JobDeps_proofs` | the graph and no cycle, bookkeeping, no job stuck, starts, cancellations, retries | done |
| `Daemon_proofs`, `TmuxExecutor_proofs` | what is recorded is true, no strays, both refinements of `JobRun` | done |
| `Records_proofs` | what is clean is on disk, what is saved is found; what the slots say of GPUs can be relied on; listings, pages and log tails are complete | done |
| `Lifecycle_proofs` | hand-overs leave the jobs alone, one daemon, stops and starts | done |
| `Reservations_proofs` | what was accepted can be honoured, what is reserved by index is kept | done |
| `Clients_proofs` | what is published and what grun exits with is what became of the job; queues, `@` and cascades | done |

The modules are views of one program. Each keeps the whole control of its own part
and reduces the others to what it needs: to `JobDeps` a pass starts any runnable jobs,
to `Allocation` a runnable job is one with an entry on the heap, to `Daemon` a
pass starts as many jobs as there is room for, to `TmuxExecutor` any queued job may
start. A composition of all has too many states to say anything; the interfaces
are the shared actions (a pass, an end, a hold), which each view models whole, and the
abstract modules: `Daemon` and `TmuxExecutor` are both shown to be a `JobRun`,
which is all the other modules assume of an executor.

## 3. Modules and code

`PROJECT.json` maps every definition to its lines. The tables name the variables and
the actions.

### `GpuLease` and `Allocation`

`GpuLease` says what `--exclusive` (the default) and `--shared` promise: `Acquire`,
`End`, `Configure`. It has no counterpart in the code. `Allocation` models
`core/scheduler/scheduling.rs`, `core/scheduler/quotas.rs`, `core/gpu_allocation.rs` and
the handlers in `transitions.rs`, `jobs.rs`, `gpu.rs`, `event_loop.rs` on the same state.

| model | code |
|---|---|
| `state`, `request`, `gpu_ids`, `max_concurrent` | `JobRuntime` / `JobSpec` fields |
| `key` | `priority` of the job and the bonus of its `time_limit`, by which the heap and the pass are ordered |
| `ready`, `top` | `ready_heap`: the jobs that have an entry of their current epoch, and the highest key of all entries of a job |
| `lowered` | history: the jobs whose key an update has lowered |
| `Push`, `Rekey`, `Hidden` | `enqueue_if_ready`; `refresh_job_readiness` after an update of priority or time limit; the drain, which looks at the first entry of a job only |
| `group_running_count`, `quota_usage` | the indexes of the same names |
| `available_memory_mb`, `slot_available`, `allowed` | fields of `Scheduler` and `GPUSlot` |
| `StartPass`, `StartJob`, `Requeue`, `EndPass` | `prepare_jobs_for_execution`: snapshots, one iteration that starts a job, one that does not, the refresh of the slots after it |
| `passing`, `todo`, `avail`, `excl`, `shared`, `shared_mem`, `factor` | its local variables; the write lock is held, so no other handler runs |
| `Execute`, `ExecutionFails` | steps 2 and 3 of `trigger_scheduling` |
| `Transition` | `transition_job_state_internal`, used by every handler |
| `Submit`, `Hold`, `Release`, `UpdateJob`, `Complete`, `Set...`, `RefreshGpuSlots` | the handlers |

### `JobDeps`

`core/scheduler/transitions.rs`, `core/job/*`, `gflowd/scheduler_runtime/retry.rs`
and the dependency part of `jobs.rs`.

| model | code |
|---|---|
| `state`, `reason`, `spec` | the job; `spec` keeps `depends_on_ids` and the older `depends_on` apart, because updates do |
| `edges`, `dep_rt` | `dependents_graph`, `dependency_runtimes` |
| `epoch`, `heap` | `ready_epoch`, `ready_heap`, outdated entries included |
| `calls` | the call stack: the walks propagate, wave and retry call `Refresh` and `End`, which start new walks before the old ones go on |
| `NextSource`, `PropagateTo`; `NextWave`, `WaveTo` | `propagate_terminal_state_to_dependents`; `refresh_job_readiness` over the dependents |
| `FailAndRetry`, `Retarget`, `Return` | `finalize_job_with_retry`, `retarget_dependents_to_retry` |
| `Tick`, `ReleaseDue`, `Pass`, `Restart` | the clock, `release_due_scheduled_jobs`, the drain of the heap, `rebuild_user_jobs_index` |

While `calls` is not empty the handler still holds the write lock; properties of
what others see are stated for an empty stack.

### `JobRun`, `Daemon`, `TmuxExecutor`

`JobRun` has no counterpart in the code: it is the contract of `core/executor.rs` as
the rest of the daemon relies on it. A record of a job only moves forward, a payload
is begun once and after the job was recorded as started, and a job is recorded as
Finished only if its payload succeeded. `Daemon` implements it with the *state file*
as the record, so a crash that loses what is in memory is covered; `TmuxExecutor`
implements it with the states in memory.

`Daemon`: `event_loop.rs`, `monitors.rs`, `gpu.rs`, `gflowd/events.rs`, the process
executor of `executor.rs`, `state_saver.rs`, `cancel_job` in `jobs.rs`.

| model | code |
|---|---|
| `state`, `capacity`, `slot` | the table, reduced to places and at most one GPU |
| `closing` | `cancel_job` keeps the write lock from the signal until the runner is gone (`Cancel`, `EndCancel`) |
| `disk`, `dirty` | state file and dirty flag (`Save`, `SaveBeforeLaunch`) |
| `runner`, `meta`, `result` | the session of the runner and the two files of the process executor |
| `inbox`, `pending` | unread events that ask for a pass, and `pending_schedule` (`ReadEvents`, `Tick`) |
| `results`, `timeouts`, `expiring` | unread `JobExecutionFinished`, `ZombieJobDetected` and `JobTimedOut` events, and the job the timeout handler is at |
| `phase`, `list`, `current`, `failed` | where each of the three callers of `trigger_scheduling` is: the trigger handler, the begin-time monitor, the start of the daemon |
| `Pass`, `SaveBeforeLaunch`, `Recheck`, `Execute`, `RecordRunner`, `Settle` | `trigger_scheduling` and `ProcessExecutor::execute`, cut where the lock is released or a file is written |
| `NoteRunning`, `CollectFinished`, `Probe`, `HandleResult` | `zombie_monitor_task` and the handler of its events |
| `TimeoutPoll`, `TimeoutTerminate`, `TimeoutApply`, `GpuPoll` | the other monitors and their handlers |
| `Lag` | a broadcast receiver that lags and loses the oldest events |
| `Crash`, `Recover` | the daemon dies at any step; `recover_running_jobs` and the first pass |
| `struck` | history: the jobs cancelled while the executor was at them, from the recheck to the metadata, when no lock is held and `cancel_job` finds no runner |

An event that asks for a pass is published right after the critical section that
caused it; the model sets `inbox` in the same step. Nobody can tell the difference,
since the handler looks at the table only in a later pass. `outcome` and `timely`
are history: what the payload really did.

`TmuxExecutor`: the tmux executor of `executor.rs`, `tmux.rs`, the zombie and timeout
handlers as they treat sessions, `gjob attach` and `gjob close-sessions`.

| model | code |
|---|---|
| `launch` | where `trigger_scheduling` is with a job: the session is made, then typed into |
| `struck` | history: the jobs cancelled after `trigger_scheduling` looked at them last |
| `shell` | the shell in the session: idle, the payload, reporting (`gcancel --finish`, `--fail`), none |
| `Ends` | a payload goes on to its report or, if it leaves the `bash -c` it is pasted into (`exit`, `exec`), to the idle shell that one was typed into |
| `Target`, `Prefix` | `-t name`: the session of that name or else the only one whose name begins with it, as `gjob-1` and `gjob-10` |
| `ReportFinish`, `ReportFail` | the hidden requests of the wrapped command; `unheard` are the jobs whose end no report will tell: it met no daemon, was cut off or was never made |
| `suspects`, `zombies`, `timeouts`, `expiring`, `young` | the monitors' polls and events, the grace period |
| `closing` | `close-sessions`: sessions listed, then running jobs listed, then closed |
| `Stop`, `Restart` | the daemon goes and comes back with the states it had; sessions stay |

### `Reservations`

`core/scheduler/reservations.rs`, `core/conflict.rs`, the reservation filter of
`scheduling.rs`, `reservation_monitor_task` and the reservation handlers.

| model | code |
|---|---|
| `now`, `Tick` | the clock, in half-hours; each read of it is a step, so it may tick between two |
| `reservations`, `next_id` | the fields of `Scheduler`; `cancelled` and `began` are history |
| `Create`, `Cancel` | the conflict check and the insertion; what is active or pending may be cancelled |
| `StartPass`, `Start`, `Wait`, `EndPass` | a pass: statuses first, then the jobs one by one |
| `todo`, `available`, `passing` | its local variables |
| `MonitorStartup`, `MonitorComputes`, `MonitorFires`, `MonitorReads` | the monitor with its `deadline`; `woken` is an event it has not read |
| `Submit`, `Complete`, `Restart` | what changes the jobs, and a daemon that stops and starts |

### `Persistence`

`scheduler_runtime/persistence.rs` and `serialization.rs`, `state_saver.rs`,
`core/migrations.rs` and what the handlers ask of `can_mutate`.

| model | code |
|---|---|
| `items`, `table_version`, `next_job_id` | the persisted part of `Scheduler`: jobs, reservations, quota overrides, each one thing |
| `state_writable`, `journal_writable`, `journal_applied` | the modes |
| `request`, `pending_save`, `saving`, `then` | the saver's channel and flag, where `save_state_if_dirty` is, and what follows it |
| `state`, `json`, `journal` | the three files: missing, damaged, or a table |
| `Start` | `load_state`: which file is taken, migration, recovery mode |
| `SubmitJob`, `SetQuota`, `Reserve` | requests, each with its own test whether it is allowed |
| `SaverReads`, `SaverTicks`, `PassSaves`, `Stop` | who saves |
| `WriteState`, `Truncate`, `WriteJournal`, `ClearDirty` | the steps of a save, each of which may be the last |
| `Exit`, `Crash`, `Corrupts`, `PutBack` | the end of a process, and what befalls the files meanwhile |

### `Lifecycle`

`gflowd/commands/*`, the start and the graceful shutdown of the server, and systemd as the
unit file describes it.

| model | code |
|---|---|
| `proc` | the processes of the machine: a daemon with its phase, or another program that got the pid |
| `path`, `identity` | `gflowd.lock`: the inode it names, and what is written in each inode |
| `session`, `fresh` | the tmux session `gflow_server`, and the one a reload has created: a shell that the daemon is typed into |
| `installed`, `revive` | the unit, and `Restart=on-failure` |
| `cmd` | where the command of each shell is: the steps of `up`, `down`, `restart`, `reload`, `status`, `service`; `old` in it are the daemons a reload saw before it began |
| `ReloadFindsPane`, `ReloadHangsUp`, `ReloadSignals` | `get_daemon_pid` finds the pid of the pane, which is the shell's while its daemon is in the foreground: the signal ends the shell, and the session with it. Without that daemon it finds the first one `pgrep` lists, and the signal is its |
| `ReloadConfirms`, `ReloadRenames` | the pane of the new session or a daemon that was not in `old`; rename, kill the session in the way, rename again |
| `AcquireLock`, `WriteIdentity`, `Load`, `Accept`, `Save`, `FinalSave`, `Exit` | the daemon itself |
| `Crash`, `Revive`, `Recycle` | a crash, systemd, and a pid given to another program |
| `disk`, `accepted`, `late`, `job`, `asked`, `doubled`, `disturbed`, `crashed` | what is saved, and history; `late` is what a daemon that was told to stop accepted, since it answers until it has saved and shut its executor down |

### `Notifications`

`events.rs`, `webhooks.rs`, `emails.rs`, `stream_events` and `grun`.

| model | code |
|---|---|
| `log`, `at` | the broadcast channel: everything sent, and how far each subscriber is; `Lag` skips what the channel no longer holds |
| `outbox` | events a handler publishes after it has released the lock |
| `mode` | what the machine has: webhooks and e-mail configured (`Notifies`), a `grun`, or both |
| `job`, `payload`, `overdue` | the states, how the process ended, the time limits |
| `Request`, `HandleResult`, `HandleTimeout`, `Hold`, `LaunchFails` | the handlers, each with what it publishes |
| `todo`, `inflight`, `permits` | deliveries to be started, under way, and the semaphore |
| `Receive`, `Dispatch`, `Accepted`, `Resend`, `Failed` | `run_webhook_notifier`, `run_email_notifier`, `deliver_with_retries` |
| `fol` | `grun`: submitted, subscribed or not, polling, interrupted, its exit status |

### `Submission`

`gbatch/commands/add.rs`, `gjob/commands/redo.rs`, `resolve_dependency`,
`create_job(s)`, the queue quota and the retry budget.

| model | code |
|---|---|
| `jobs` | the table; a position is an id |
| `cmd`, `told` | the command each shell runs, request by request, and the last id it was told |
| `GBatch`, `ResolveNext`, `PostBatch` | `gbatch`: one request per shorthand, then one with all jobs |
| `Redo`, `PostRedo`, `ListJobs`, `PostCopy` | `gjob redo`, with `--cascade` |
| `Fails` | a request that is refused, or a user who stops the command |
| `StartJob`, `End`, `Cancel`, `Retry`, `UpdateJob` | what happens to jobs meanwhile |

### `Queries` and `GpuSlots`

`Queries` models what is shown of a changing table: the indexes by user and state
that answer the listings (`jobs.rs`, `core/scheduler.rs`), paging (`mcp/server.rs`),
the tree of `gqueue -t` and its filters, `gstats`, `gcancel --dry-run`, and the tail of
a log that grows (`handlers/jobs.rs`, `gjob log`).

| model | code |
|---|---|
| `jobs`, `byUser`, `byState` | the table and the two indexes, kept up step by step |
| `Submit`, `Move`, `Update`, `Redo`, `Restart` | what changes them |
| `pager`, `BeginPaging`, `NextPage` | a client that follows `next_offset`; it keeps what left or joined where it had read |
| `log`, `tail`; `Write`, `Stat`, `Seek`, `Read` | the file, and the steps in which its tail is read |

`GpuSlots` models `gpu.rs`, `gpu_monitor_task`, the handlers of ignored processes and
allowed GPUs, and what `ginfo` makes of two answers.

| model | code |
|---|---|
| `procs`, `held` | what NVML would list, and what the running jobs use the GPUs as |
| `slots`, `ignored`, `allowed` | `GPUSlot`, `ignored_gpu_processes`, `allowed_gpu_indices` |
| `seen`, `due` | `previous_gpu_states` of the monitor; an event asks for a pass |
| `Poll`, `Pass`, `Wake`, `NewDaemon` | the monitor, the scheduler, other events, a restart |
| `Begin`, `Vanish`, `End` | processes of others, jobs that end |
| `SetAllowed`, `Ignore`, `Unignore`; `AskSlots`, `AskJobs`, `InfoShown` | requests; `ginfo` with its two |

### Setups

`JobDeps`, `Daemon`, `Queries` and `GpuSlots` take a function of *setups* (or machines):
records that say what users may do and what may go wrong. A behaviour chooses one in
`Init` and keeps it. One run so covers several small instances that would be too large
together, and a setup that adds one thing shows what that thing does. `MCQueries` checks
`Queries` and `GpuSlots` side by side: a behaviour is one of either.

## 4. Runs

| run | question and answer | distinct states |
|---|---|---|
| `MCAllocationGpu` | `ExclusiveIsolation`, `AccountingExact` (snapshots and memory), `PassListSound`, `NoJobForgotten`, `PassInOrder` (no startable job left behind, none overtaken by one that is worse), `ImplementsLease` | 785 k |
| `MCAllocationLimits` | `GroupIndexExact`; `LimitsKept`: quota usage is a recount and every start is within the limits in force | 2.0 M |
| `MCJobDeps` | `BookkeepingExact` (counters, graph, reasons, no cycle), `NoJobStuck` (who may run is found, who cannot is cancelled), `StartsOnlyWhenReady`, `AllCancelJustified`, `RetryTakesDependents` | 2.5 M |
| `MCDaemonCrash` | `RunnersRecorded`: memory, file and runners agree; `ImplementsJobRun`: nothing is run twice, through crashes | 1.8 M |
| `MCDaemonLive` | under fairness: `WorkStarts`, `RunningMeansAlive`, `OverdueEnds`; and `NoStrayRunner`, with cancellations at any moment | 113 k |
| `MCTmux` | `SessionsAccountedFor`, `CloseSparesRunning`, `EndsNoticed`, `ImplementsJobRun` for the tmux executor, names that are prefixes and payloads that never report among them | 600 k |
| `MCReservations` | `ReservationsSound`: what was accepted can be honoured and a pass knows the time; `PassesKeepReservations`, for owners and others | 2.3 M |
| `MCPersistence` | `CleanMeansOnDisk`, `NothingSavedIsLost`, `SavesComplete` (under fairness of the saver) | 1.3 M |
| `MCLifecycle` | `InReachWithItsJobs` (a stop finds the daemon, hand-overs that kill no session leave the jobs alone), `AloneUnlessDisturbed`, `StopsAndStarts` | 1.9 M |
| `MCNotifications` | `OutcomesAreTrue`; under fairness `EveryoneIsTold` and `WaiterReturns` | 200 k |
| `MCSubmission` | `CommandsSound` (queue limit, `@`), `CopiesFollowCopies` | 909 k |
| `MCQueries` | `ListingsComplete` (listings, pages, the summary against `gstats`), `TreeShowsAll`, `TailSound`, `SlotsTrustworthy` | 516 k |

All hold. Every property has a mutant in `PROJECT.json`: a plausible bug in one
definition, written before it in the module and marked "mutant", with which TLC
refutes the property under the same configuration.

### What the code does not keep

The passing properties are what the code keeps; where a doc, a comment or a test
says more, the property that says it stands in the module under "What the code does
not keep" or marked "Refuted", with a configuration under which TLC finds the
counterexample. TLC stops at the first property it refutes: to see another one of the
same configuration, or another setup of it, leave the others out. Docs are in
`docs/src/user-guide/` or `docs/src/reference/`.

| cfg | property | what happens | what the repository says |
|---|---|---|---|
| `MCAllocationRefuted` | `HeapHasAllQueued` | an update lowers a job's priority or lengthens its time limit; the outdated entry of higher key is popped first and the pass drops the valid one (`scheduling.rs:148`) | `core/scheduler.rs:168` |
| `MCJobDepsRefuted` | `NoJobForgotten`, setup `keys` | an outdated heap entry of higher key pops first and hides the valid one (`scheduling.rs:148`) | `core/scheduler.rs:168` |
| | `NoJobForgotten`, `twice` | a dependency listed twice is counted twice in the total and once when it ends | `job-dependencies.md:28` |
| | `NoJobForgotten`, `anytime` | a second success after the begin time clears the wait reason without a push; the monitor then looks for the reason | `transitions.rs:779` |
| | `NoJobForgotten`, `StartsOnlyWhenReady`, `delayed` | `release --at` on a job that is queued again drops it from the heap without a reason, or leaves an entry by which it starts early | `gjob-reference.md:108-110` |
| | `AnyCancelJustified`, `any` | an auto-cancelled job is propagated twice and its failure counted twice (`transitions.rs:396`) | `job-dependencies.md:31` |
| | `UpdateReplaces`, `replace` | an update replaces `depends_on_ids` and keeps `depends_on` | `gjob-reference.md:149` |
| `MCDaemonIdle` | `WorkStarts`, `gpu` | a job that starts and ends between two polls leaves the slot busy for the pass its end asks for (`monitors.rs:46`) | `job-lifecycle.md:53` |
| | `WorkStarts`, `fails`, `timeout`, `limits` | a failed launch, a timeout (after the pass its event asked for) and a raised limit make room and tell nobody | `multi-user.md:81-83` |
| `MCDaemonRefuted` | `SucceededNotFailed`, `plain` | a result written between the two looks of the zombie monitor is removed unread | `monitors.rs:120-121` |
| | `TimeoutJustified`, `timed` | a payload ends in time; its result is not collected before the limit passes | `job-lifecycle.md:65` |
| | `RunnerHasJobState`, `saves` | a save that fails before a launch is logged, and the launch goes on | `event_loop.rs:202-205` |
| | `CancelledPayloadsEnd`, `plain` | the lock is free between the last check and the spawn: a cancellation finds no runner | `event_loop.rs:224` |
| | `RecoveryBelievesResults`, `RecoveryAdoptsRunners`, `restart` | a crash after a result was removed and before the next save, or between spawn and metadata: recovery fails the job | `executor.rs:48-50` |
| `MCTmuxRefuted` | `FailuresRetried` | a failure the session reports (`gcancel --fail`) is final, only one the daemon finds is retried | `gbatch-reference.md:137` |
| | `OthersSpared` | tmux finds a session by a prefix of its name | `tmux.rs`, one session per job |
| | `NothingStranded` | a session counts as a run whatever its shell does: after a stop between making it and typing into it, after a payload that left by `exit` or `exec`, or if it is that of a job whose name begins the same | `recover_running_jobs` in `jobs.rs` |
| | `CancelledPayloadsEnd` | the Ctrl-C of a cancellation during the launch is typed before the payload is | `event_loop.rs:224` |
| `MCReservationsRefuted` | `StatusFollowsClock` | a change that is due when the monitor computes its deadline is passed over | `reservation_monitor_task` in `monitors.rs` |
| | `ReservedStayFree` | jobs are compared with a reservation by count one at a time | `tips.md:126` |
| | `NoWaitForNothing` | the event the monitor publishes starts no pass | the same task |
| `MCPersistenceRefuted` | `StopSavesAll` | the saver ends before the server does | `state_saver.rs:6` |
| | `NewestFileWins` | a journal that was not truncated wins over a newer state file | `scheduler_runtime/tests.rs:738` |
| | `SubmittedJobsExist` | ids after an unreadable file start at 2 000 000 000 and are no indices | `jobs.rs:210` |
| | `ReadOnlyMeansReadOnly` | the reservation requests do not ask for the mode | `configuration.md:354` |
| | `PuttingBackRestores` | the journal wins over the file that was put back | `configuration.md:356` |
| `MCLifecycleRefuted` | `OneDirectDaemon` | a command that finds the lock free unlinks a file a daemon may have locked since | `gflowd-reference.md:168` |
| | `RecycledPidSpared` | the wait before SIGKILL looks at the pid only | `gflowd-reference.md:172` |
| | `EveryLoadIsComplete` | a reload goes on after 3 s; a restart under tmux does not wait | `reload.rs`, before the signal |
| | `ReloadKeepsJobs` | the signal goes to the shell of the pane, which ends, and the session hangs up on the daemon: that is a stop, which ends the jobs | `reload.rs:31` |
| | `StopsAreComplete` | a daemon answers during its last save and while it shuts its executor down; what it accepts then is lost | `server.rs:293-341`, "graceful shutdown" |
| `MCNotificationsRefuted` | `OnlyEndsAreReported` | a refused transition is announced all the same | `notifications.md:75-79` |
| | `EveryEndIsReported` | a failed launch and a cancelled dependent are not announced | the same table |
| | `TimeoutIsTheEnd` | the event is published before the handler looks | `notifications.md:78` |
| | `ExitIsPayloads` | of the events in one chunk only the last counts, or a poll is first: the code is lost | `grun-reference.md`, Exit Status |
| `MCSubmissionRefuted` | `DependenciesFirst` | a cascade goes by id, and an update may point to a newer job | `redo.rs:364` |
| | `CopiesWaitAgain` | `depends_on` is not copied | `gjob-reference.md:183` |
| | `CountsSubmissions` | `@~n` counts jobs, retries and copies among them | `gbatch-reference.md:45` |
| `MCQueriesRefuted` | `TreeHidesNothing` | dependencies and redo links close a ring; no root is left | `gqueue-reference.md:84` |
| | `PreviewComplete` | the preview looks at `depends_on` only | `gcancel-reference.md:30` |
| | `TailBounded` | the file grows after its size is taken | `JobLogContentQuery` in `handlers/jobs.rs` |
| | `IdleGpuNoticed` | a GPU that was busy between two polls, or was just allowed, is no change to the monitor | `gpu-management.md:39` |
| | `NeverWithOthers` | a process that came after the last look; or the GPU holds a shared job, which counts as available whatever else is on it | `gpu-management.md:38` |

## 5. Bounds

* `MCAllocationGpu`: three jobs, two GPUs, requests for one GPU, two GPUs and a
  shared one. Enough for a job to be blocked by one and overtaken by another, for two
  to share, for a third to be refused memory, and for a GPU to be forbidden. One GPU has a
  known memory, one has not. Unified memory is on, so GPU memory counts against the host.
  Updates put jobs on the heap anew, and lower the key of the one that comes first to that
  of the others, so that outdated entries come before valid ones; the theorems are about
  any keys.
* `MCAllocationLimits`: two users of one project, a group of two, limits that appear
  and disappear, fair share with any ranking of users.
  Keys do not change there: the limits are checked job by job, whatever the order.
* `MCJobDeps`: four jobs, of which the last may be the retry of the first; chains,
  diamonds, AND and OR, begin times, edits, a restart. Its setups leave out what
  `MCJobDepsRefuted` shows to be faulty; the setups there add exactly one of these each. OR
  over jobs of which one depends on the other would meet the double count: its
  cancellations are judged there, those of AND here.
* `MCDaemonCrash`: two jobs and one place, with cancellations at any moment, those in the
  middle of a launch included, and one crash; two jobs of which one has a begin time and may
  be cancelled; one job with all three. `MCDaemonLive`: two jobs and one place, one of
  which may be cancelled; one job and a crash; one job with a time limit, failing
  launches, a GPU and a lag, because what is claimed of it is about one job; limits of
  one or two. The safety of both, for any mixture, is proved (section 7). `MaxBacklog = 0`: the zombie monitor polls
  every 10 s and starts a new poll only when the last one's events were read; its
  handler needs no more than the lock. A launch is over before the grace period (30 s)
  and before the time limit: `Age` and `Overrun` wait for it. Spawning takes
  milliseconds.
* `MCTmux`: two jobs, one with a time limit, one closed automatically, both retried;
  the name of one is a prefix of the other's, as `gjob-1` is of `gjob-10`;
  cancellations at any moment, payloads that never report, launches that fail, one stop
  of the daemon, one visit of a user to a session. A visit that closes a session while the
  launch is about to type in it is left out: the prefix would have the command typed into
  the other job's session, and what is typed at a payload is not modelled.
* `MCReservations`: three GPUs, a job of one GPU and one of two, four offers by index
  and by count, of two lengths and by two users, so that any two may conflict or not;
  two reservations, two half-hours and one restart, so that one ends, one begins and
  the monitor sleeps through a change.
* `MCPersistence`: one job, one reservation, one quota override: each kind is saved,
  snapshotted and refused in its own way. Two versions, three starts, one failing
  write, one mishap to a file: an upgrade and back, with a journal in between.
* `MCLifecycle`: two pids with two daemons each, so that pids are used again; two
  shells with three commands between them; one crash and one timeout. Every daemon under
  tmux is typed into the shell of its session, as `up.rs` and `reload.rs` do.
* `MCNotifications`: two jobs of two users, on one of two machines. One has a webhook that
  filters by user and gives up at once, and an e-mail target that filters by event and has
  a retry; one permit, so that they compete for it, and either may refuse all. The other
  has a `grun`, and one outage of the daemon as it sees it: the two do not meet, since
  neither changes what the other reads. A channel of two and three events, so that readers
  lag. Payloads exit with 0, and jobs also end by requests and by
  time; that the outcomes are true is proved for all exit codes.
* `MCSubmission`: two shells of one user (which are symmetric) and one of another,
  queues and batches of two, three commands, four jobs: a batch may run beside two
  others, and a cascade has two copies to make.
* `MCQueries`: up to four jobs, of two users with jobs of none or one GPU, of whom the
  summary shows one (ten in the code); pages of one job; two edits and two redos,
  enough for a ring; a log of eight bytes of which four are read for two lines. One GPU
  with a pid that is used again, a restart and a look that fails; two processes on one
  GPU; two GPUs.
* Deadlock is not checked: when all jobs have ended and no request comes, nothing
  more happens, and that is right.

## 6. Fairness

`Allocation`, `JobDeps`, `Reservations`, `Lifecycle`, `Submission`, `Queries` and
`GpuSlots` are checked for safety. (`Reservations` has a `FairSpec` for its two
refuted liveness claims: it assumes more than the code guarantees, so that the
counterexamples do not come from a task that stands still.)

* `Daemon`: weak fairness of the daemon's tasks (each waits for a timer, a channel or
  the lock, and tokio's `RwLock` is fair), of each caller of `trigger_scheduling`, of a
  restart after a crash (systemd or the user), of the death of a runner that was signalled
  (`SIGKILL` follows `SIGTERM`), and of time (`Age`). It assumes nothing of users, of
  payloads that are left alone, of time limits, of crashes and of lags.
* `TmuxExecutor`: the same for monitors, handlers, launches and restarts; and of the
  report typed after the payload, which the shell runs when the payload is over.
* `Persistence`: of the saver's task and of a save that has begun. Not of passes, so
  that an edit has to reach the disk without one; not of starts.
* `Notifications`: handlers publish what they have to, notifiers and lagging readers
  are scheduled, every request of a delivery is answered or times out, `grun` polls.
  Strong fairness of `Dispatch`: the permit comes and goes, and tokio's semaphore
  hands it out in the order in which it was asked for.

`WorkStarts`, `RunningMeansAlive` and `EndsNoticed` have the form `[]<>~P` (the
condition never lasts for ever), so a job that waits because others use its room
does not violate them.

## 7. Proofs

A module `M_proofs` extends `M` and holds what TLAPS proves of it. The theorems hold for
all values of the constants that satisfy the assumptions named in `M`: any finite sets
of jobs, GPUs, pids, commands or versions, any setups, any numbers of crashes. The proof
modules assume nothing more; where a theorem needs a hypothesis it is part of its
statement, and a refuting configuration of section 4 shows what happens without it.
Each system has one inductive invariant in named parts, `IInv` or a name that ends so; a
lemma per part and per group of actions shows that a step keeps it, and `Inductive` (or
a theorem of the system's name) puts them together.
TLC checked every `IInv` before it was proved.

### `Allocation_proofs`

The assumptions: ids and indices are naturals, `Jobs` and `Gpus` are finite, a shared
request names its GPU memory, which submission enforces.

* `TypeCorrect`: `TypeOK`, a part of `AccountingExact`;
* `Accounting`: `AccountingExact`, so no history of starts, updates, ends and failed
  launches promises more GPU or host memory than there is;
* `Limited`: `LimitsKept`, so the quota index equals a recount and every start is within
  the limits of its group and of its quota subjects;
* `InOrder`: `PassInOrder`, so no job is started over the head of one of higher priority
  that could start, and no pass ends while a queued job could, jobs lost by an update of
  their key excepted (`MCAllocationRefuted`);
* `Isolation`: `ExclusiveIsolation`, checked in `MCAllocationGpu`;
* `NothingForgotten`: `NoJobForgotten`. A job whose key no update has lowered has no entry
  above its key (`HeapSound`), since entries are pushed with the key of the time and keys
  else only rise; so what is popped first of it is what counts;
* `PassListCorrect`: `PassListSound`, hence the rollback of an allocation in
  `prepare_jobs_for_execution` is never taken;
* `GroupIndexCorrect`: `GroupIndexExact`;
* `GroupLimitRespected`: a start leaves its group within `max_concurrent`, by a
  recount (the group half of `LimitsKept`);
* `Refinement`: the allocator implements `GpuLease`.

Memory and GPUs are sums over sets of jobs, which the model writes as folds that take the
members in an order left open. `Total(f, S)` is such a sum, and the module begins with its
theory: its type (`TotalType`), that it depends on the terms of its members only
(`TotalSame`), what adding and removing a member does (`TotalAdd`, `TotalRemove`) and that
a part is no more than the whole (`TotalSubset`). A fold is the `CHOOSE` of a solution of
its equation, so first there is one (`Solvable`), then every solution gives the same sum in
any order (`AnyOrder`, `SameSolution`). The library's induction theorems take an operator;
these are inductions on a set of naturals or of subsets instead, by its least member
(`LeastOf`) and by `FiniteInduction`.

Isolation is not inductive. The pass decides from `excl` and `shared`, which it
read once and updates by hand, so these must equal the real occupancy
(`OccupancyExact`); that holds only if a job of the pass's list has not run already
(`PassListSound`), for it would be counted twice. In the same way that memory is never
promised twice needs `MemoryExact`: a start is checked against what the pass believes,
and believes what a recount gives; everything else only gives memory back
(`SumsShrink`). The limits need the indexes to be exact (`GroupIndexExact`,
`QuotaIndexExact`). For the quotas that rests on a fact about updates: what an ended job
gives back is read from its request again, and a request changes only while its job does
not run (`KeepsRunning`).

The order of the pass needs all of it. `PassedOver` says that no job the running pass has
put back on the heap could start. It is kept because a job is put back only when a check
fails on snapshots and indexes that are exact (`StartableMayStart`: what a recount would
let start, the pass lets start; `AvailableExact` is the part about the free GPUs, `Lowest`
the part about the choice among them), and because a start only takes room from the
others (`StartsOnlyTake`). A job that could start is then always still in the pass's list,
where nothing of lower priority is first, and which is empty when the pass ends. `IInv` is
the conjunction of these with `TypeOK` and `NoJobForgotten`.

The refinement maps `StartJob` to `Acquire`, an
end to `End`, submission and updates to `Configure` and everything else to a stutter.

### `Reservations_proofs`

* `Sound`: `ReservationsSound`, so at every instant to come the reservations accepted
  for it can be honoured together, whatever ticks, updates, cancellations and restarts
  come between;
* `Kept`: `PassesKeepReservations`, so GPUs reserved by index are kept from the others
  and given to their owners.

That promises can be kept (`AlwaysHonoured`, of every instant from now on) is not
inductive alone: a new reservation is counted against those of the table whose status
makes them conflict, so the table must say who was cancelled and have ids that were never
given before (`BooksSound`). `HonourMore` is the step: whoever is in force at an instant
of the new reservation overlaps it, so it was counted. `HonourPart` and
`HonourRelabelled` carry that over cancellations and changes of status. What reservations
without indices ask for is the size of a set of shares (`CountOf`), which `CountMore`,
`CountPart` and `CountSame` relate when one is added, dropped or relabelled. For the passes,
`PassKnowsTheTime` says that the statuses are those of the instant the pass began, so what
it takes to be in force is (`InForceSincePass`), and `PassSound` that it overlooks no GPU
that nobody holds.

### `JobDeps_proofs`

* `TypeCorrect`; `GraphInverse`: `dependents_graph` is the inverse of the dependencies
  after every step of every walk, update and retry; `Acyclic`: they never form a cycle;
* `Justified`: `AllCancelJustified`; `RetryTakes`: `RetryTakesDependents`;
* `Starting`: `StartsOnlyWhenReady`, if only jobs on hold are delayed
  (`HeldUntilReleased`). Setup `delayed` refutes it for a job that is queued again;
* `Bookkeeping`: `BookkeepingExact`, if no dependency is listed twice (`ListedOnce`).
  Setup `twice` refutes it otherwise;
* `NeverStuck`: `NoJobStuck`, under four hypotheses, each of which a setup of
  `MCJobDepsRefuted` shows to be needed: `ListedOnce` (`twice`); `HeldUntilReleased`
  (`delayed`); `KeysRaised`, an edit of a priority or a time limit does not lower the key
  (`keys`); `TimedNeedAll`, who has a begin time needs all of its dependencies (`anytime`).

The walks over the graph call themselves through the transition they make, so the
invariant speaks of a stack of walks of any depth. `Core` says what each walk stands for:
the work of a propagation are dependents of one that ended, those that a retry has
still to move wait for the old job, those a wave has still to cancel wait for one it has
seen. Without it a walk could tell a job of the end of a job it no longer waits for.
`CountersSound` says of the success counter of a job that it is short of the successes
among its dependencies by those still on the stack; it only needs an inequality, since a
plan may list a job twice, until `ListedOnce` (`NoAgain`) makes it exact. `HeapSound` is
what keeps a start honest: a valid entry is of a queued job that waits for nothing.
`ReasonsSound` relates the wait reason to the counters and begin times.

That no job is stuck has two halves. Who can no longer be released is cancelled:
`FailuresSound` says that every dependency that ended without success is counted or will
still be told by a walk on the stack (`Failing` counts those of each walk), and
`HopesSound` that the counters of a job that waits for auto-cancellation leave hope, so
that one more failure is what cancels it. Here a job may be told too often, never too
seldom: the walks of a job that is cancelled twice overlap. Who may run is found:
`Findable` says that a queued job whose counters are satisfied has a valid entry or is due
for the begin-time monitor, `KeysSound` that no outdated entry pops before the valid one,
`TimesSound` that who waits for its begin time says so and can be found by it, and
`ModesSound` that the second success of an OR dependency cannot take that reason away.
TLC checked these parts, with edits of keys added, on an instance of 7.9 million states
before they were proved.

### `Daemon_proofs`

* `TypeCorrect`;
* `Recorded`: `RunnersRecorded`, if saves succeed (setup `saves` refutes
  `RunnerHasJobState` otherwise);
* `NoStrays`: `NoStrayRunner`, with no hypothesis: until a crash, a runner that outlives its
  job is of one that was cancelled while the executor was at it (`struck`; setup `plain`
  of `MCDaemonRefuted` shows one);
* `Refinement`: the process executor with the state file as its record implements
  `JobRun`, if saves succeed.

The claims of the callers of `trigger_scheduling` are disjoint and of started jobs
(`CallersSound`): two passes never hold the same job although the lock is free between
their steps. `Core`, which a failed save and a later crash together would break, says
that claimed jobs have no runner yet, that events and result files say how the payload
ended, and that Finished means it succeeded. `DiskSound` orders memory and file: the file
may be behind by one state, never ahead, and a job is on disk as started before it has a
runner. `StraySound` follows every job that has ended to whoever will end its runner, or to
the cancellation that came while the executor was at it;
a crash forgets it, hence it is promised until the first crash.

### `TmuxExecutor_proofs`

* `TypeCorrect`; `Outcomes`: a job is Finished only if its payload succeeded, however
  the report in the session, the monitors and restarts interleave;
* `Accounted`: `SessionsAccountedFor`, with no hypothesis: cancellations at any moment,
  names that are prefixes and payloads that never report included;
* `ClosingSpares`: `CloseSparesRunning`;
* `Refinement`: the tmux executor implements `JobRun`, with no hypothesis at all.

A job is launched once and only a cancellation takes it away meanwhile (`LaunchSound`); a
shell reports what its payload did, and a success is on its way to the daemon or known to
be lost (`ShellsSound`); what the monitors found earlier still has no session when they act on
it (`MonitorsSound`); the names close-sessions chose are of jobs that have ended,
although its two lists are of different moments (`ClosingSound`): states only go forward.

### `Records_proofs`

* `CleanIsOnDisk`: `CleanMeansOnDisk`; `SavedIsFound`: `NothingSavedIsLost`;
* `SlotsAreTrustworthy`: `SlotsTrustworthy` of `GpuSlots`, its action property included,
  for any machine;
* `ListingsAreComplete`: `ListingsComplete`, and `TailsAreSound`: `TailSound` of `Queries`,
  for any users and any bounds.

The first two speak of a daemon between steps; a save takes several. `MidwaySound` says what is
written in the middle of one, `JournalNoticed` that a daemon that may write the state
file knows of a journal that would win over it, `FilesSound` that the state file is the
last good one or damaged, `SavedSound` where the last successful save is to be found.

Of the GPUs: a step either looks at them (`LookStep`: a poll, a pass that started jobs, an
override that is set or taken back) or it does not (`BlindStep`). What a look finds
available has no process of others without an override (`FreeOfStrangers`), and stays so
until the next look, since processes that begin later have not been found yet. A GPU
taken without a reason was one of an exclusive job at the last look (`ReasonsGiven`),
which holds of the slots that ginfo was sent, too, whatever happens before it asks for the
jobs (`AskSound`). The monitor compares with its own last poll only, so what was lost
since is not noticed when it comes back: `LossesMissed` says that all such GPUs are among
those `FreeGpuNoticed` leaves out (`NoticeKept`).

Of what users see, `IndexesSound` says that an index is the list of the jobs of its key in
the order of submission, whatever transitions, edits, redos and restarts made of it. The
model takes the numbers of a set in order by their rank (`Ascending`, `Nth`), so the proof
begins with ranks: they grow (`RankGrows`), a rank belongs to one number (`NthIs`, by
counting), and a list that rises is the ascending list of its members (`RisingIs`). With this the
steps of the code are steps of a set: a filter (`SelectedRises`), the newest id appended
(`AppendRises`), and the binary search of `update_state_jobs_index` (`InsertedRises`). A
listing is then the same from every index (`CandidatesAre`, `ListingIs`), and the summary
of the MCP server, which counts places of a listing, counts what `gstats` counts in the
table (`PlacesAre`, by a bijection of places and jobs). A user it leaves out has enough others
ahead of it, and every user it shows has not, so what they ask for is in that order
(`SummaryIs`). `gstats` has no count of held jobs; those are compared with the table.

An agent that pages knows an offset and nothing of the table. `PagerSound` relates the two:
unless a job left where it had read, it is past at least as many jobs as its offset says
and has read those of them that matched all along; unless one joined there, past no
more. The jobs behind the reader come first in the listing (`BehindIsFirst`), so the next
page goes on where the last one stopped, skips jobs only if one left and repeats jobs only if
one joined (`PageIs`, `PageStep`); what `left` and `joined` record is what a change of the table can do to it
(`DisturbedStep`).

A log only grows, so what its tail was asked of is still there when it is read
(`WrittenStays`), and a read that skips bytes never begins at the first one
(`LogTailSound`), since the file is at least as long as it was when its size was taken. So
a read that drops its first, partial line leaves something out, and the mark for a
truncated answer is exact (`WholeLines`, `ViewIs`). The assumption on `Setups` (`QueriesAssumption`)
has `bytes` and `lines` of at least one: the handler clamps them.

### `Lifecycle_proofs`

* `TypeCorrect`; `StopAndStart`: `StopsAndStarts`; `Alone`: `AloneUnlessDisturbed`;
* `JobsKept`: `JobsOutliveHandOvers`, the part of `InReachWithItsJobs` about the jobs. That
  a stop finds the daemon (`StopsFindIt`) is model-checked.

None has a hypothesis; what may go wrong is in the conditions of the properties themselves
(`disturbed`, `late`, `crashed`); `MCLifecycleRefuted` shows what lies outside the first two.

`Sound` holds whatever overlaps: an identity in a file is of a process of the past or of
the daemon that has the file open (`IdentitySound`), so a pid that was given away is never
taken for a daemon; commands are at their own stages (`StagesSound`). `JobsSound`
says that no daemon is told to stop until somebody asks for it or a session is killed under
one. `CalmSound` says what two daemons at a time would need: as long
as nothing was disturbed there is one command, every daemon is at its place (session or
lock file), and only one is. A reload of a daemon that runs in its session always is a
disturbance, since it kills that session and nobody waits for the daemon. `KnowledgeSound`
carries what was accepted before a stop (`Promised`: all but `late`) from the last save of one
daemon to the load of the next.

### `Clients_proofs`

* `Truthful`: `OutcomesAreTrue`, with no hypothesis: of every job whatever the handlers,
  results, timeouts, requests and grun's Ctrl-C do first;
* `CommandsAreSound`: `CommandsSound` of `Submission`, and `CopiesDoFollowCopies`:
  `CopiesFollowCopies`, for any shells, users, limits, batches and shorthands.

A verdict is announced after the lock is released, so by the time it is on the channel the
job may be in the hands of others; it is true because states of jobs that ended are final,
and who lost the race is in `refused` (`VerdictsSound`, `TrueStays`). `BusSound` says that
everything on the channel is about a job there is and with what it can say: a handler
comes to an event that was published long before, and ends the job it names.
`DeliveriesSound` is what the type of the deliveries needs: a delivery under way has one of the
permits, is of an event its notifier has read and of a target it has begun, and is not
one that was given up; since a notifier begins all deliveries of an event before it reads
the next one, no delivery begins twice (`DispatchStep`, `AdvanceKeeps`). `FollowerSound`
ties grun to the job it submitted; it exits with what it saw of that job in a final
state, which stays (`LookedEffect`).

Of `Submission`: the queue limit holds because a batch is checked against the jobs in the
table and those before it in the batch while the lock is held (`QueueAfter`), because a
retry takes the place of a job that runs and is checked as well, and because
auto-cancellation, ends and edits never add to a queue (`SettlementsAre`,
`QueueNotFuller`). `@` is current since ids grow in the order of submission: the job
counted as first from above is the largest id of the user (`NthFromAbove`,
`ResolveAnswers`), and what a shell was told stays a job of its user (`ToldSound`) though
others submit between any two of its requests (`AnswersSound`, `OtherShells`). A cascade
copies the lowest id it has left, so an older job it redoes has its copy already
(`CascadeSound`, `CopiedNext`); what others do to the table meanwhile touches neither
the snapshots it took nor the copies it made.

### Only model-checked

* liveness (`SavesComplete`, `WorkStarts`, `RunningMeansAlive`, `OverdueEnds`, `EndsNoticed`,
  `WaiterReturns`, `EveryoneIsTold`): fairness and ENABLED are out of TLAPS's reach;
* `TreeShowsAll`: the rows of `gqueue -t` are a recursion over the listing, and what it
  computes for every listing is an induction over data, as is the flattening of rows.

Recursion is written with recursive functions and folds throughout, so that every module
can be proved about.

## 8. Not modelled

* **Metrics and the web UI**: outputs; nothing depends on them.
* **Configuration, parsers, paths, time zones, tables**: conversions without state. What
  the configuration limits is a constant of the module it limits.
* **`gflowd init`**: a dialogue that writes the configuration.
* **Scripts of gbatch**: the parsing of `# GFLOW` lines. As the code stands, a dependency
  given in a script is parsed but not used, although `job-submission.md:53` lists it.
* **Run names and the project policy**: they only refuse requests.
* **Credited fair-share usage**: in `Allocation` the factor is any ranking of users, so
  what is shown of a pass holds for every usage history; decay is arithmetic on floats.
* **Events of reservations**: to a subscriber they look like those of GPUs, which
  `Notifications` has. `JobStateChanged` is never published by the code, hence
  `job_started`, `job_held` and `job_released` (`notifications.md:74`, `:79-80`) never fire.
* **Switching the log of a session** (`pipe-pane`) and the contents of logs, beyond the
  tail in `Queries`.
* **MCP tools that change jobs**: the same single requests as those of the clients.
* **A launch that outlasts the grace period** (`monitors.rs:5`): the age of a job and of
  its launch are not related by the model; see section 5. And the windows around the
  metadata file (`executor.rs:442`): the property that would cover them is one the code
  does not keep (`MCDaemonRefuted`).
