------------------------------- MODULE Daemon -------------------------------
(***************************************************************************)
(* The tasks of the gflow daemon around the scheduler core: the event bus  *)
(* and the trigger of scheduling passes, launches by the process executor, *)
(* the runners and the files they leave, the monitors that watch them, the *)
(* state file, and crashes of the daemon.                                  *)
(*                                                                         *)
(* A job needs one of `capacity' places, which stand for a quota or a      *)
(* group limit, and in some setups the one GPU of the machine as well,     *)
(* which it holds exclusively.  What else a pass looks at is in            *)
(* Allocation; retries, holds and dependencies are in JobDeps.  One action *)
(* is one critical section of the runtime's RwLock, or one step of a task  *)
(* that holds no lock.                                                     *)
(***************************************************************************)
EXTENDS Integers, FiniteSets, Sequences, SequencesExt

CONSTANTS
    Jobs,        \* job ids
    Setups,      \* what may happen, by name: one of these for a whole behaviour
    MaxBacklog,  \* bound on unread results, for a new poll to begin
    NoJob

Setup == [jobs : SUBSET Jobs,            \* jobs that may be submitted
          cancelled : SUBSET Jobs,       \* those users may cancel
          deferred : SUBSET Jobs,        \* those with a begin time
          timed : SUBSET Jobs,           \* those with a time limit
          gpu : BOOLEAN,                 \* every job needs the one GPU of the machine
          capacities : SUBSET Nat,       \* the limits gctl may set
          launchesFail : BOOLEAN,        \* the executor may fail to start a runner
          savesFail : BOOLEAN,           \* writing the state file may fail
          lags : Nat,                    \* bound on overflows of a broadcast channel
          crashes : Nat]                 \* bound on crashes of the daemon

ASSUME DaemonAssumption ==
    /\ IsFiniteSet(Jobs)
    /\ NoJob \notin Jobs
    /\ MaxBacklog \in Nat
    /\ \A u \in DOMAIN Setups :
          /\ \A S \in {Setups[u].jobs, Setups[u].cancelled, Setups[u].deferred,
                        Setups[u].timed} : S \subseteq Jobs
          /\ Setups[u].capacities \subseteq Nat \ {0}
          /\ Setups[u].capacities # {}
          /\ {Setups[u].lags, Setups[u].crashes} \subseteq Nat

VARIABLES
    setup,      \* the name of the one that is used
    state,      \* the state of each job: "Absent" before submission
    waiting,    \* jobs whose begin time the monitor has not acted on
    capacity,   \* how many jobs may run
    slot,       \* GPUSlot::available of the GPU
    closing,    \* the job a cancellation holds the write lock for, or NoJob
    disk,       \* the job states in the state file
    dirty,      \* SchedulerRuntime::dirty
    runner,     \* the runner process of each job
    meta,       \* jobs whose runner metadata file exists
    result,     \* the runner result file of each job
    outcome,    \* how each payload ended (history)
    timely,     \* jobs whose payload ended within the time limit (history)
    struck,     \* jobs cancelled while the executor was at them, until a crash
                \* (history)
    young,      \* running jobs in the startup grace period
    overdue,    \* running jobs beyond their time limit
    inbox,      \* the trigger handler has unread events that ask for a pass
    pending,    \* pending_schedule
    results,    \* events of the execution result handler
    timeouts,   \* jobs in unread JobTimedOut events
    expiring,   \* the job the timeout handler is at, or NoJob
    phase,      \* where each caller of trigger_scheduling is
    list,       \* its jobs_to_execute not looked at yet
    current,    \* the one it launches, or NoJob
    failed,     \* those it could not launch
    suspects,   \* running jobs of the zombie monitor's poll
    collected,  \* it has collected their results
    seen,       \* previous_gpu_states of the GPU monitor
    up,         \* the daemon runs, its recovery done
    lags, crashes

tableVars == <<state, waiting, capacity, slot>>
fileVars == <<disk, dirty>>
runnerVars == <<runner, meta, result, outcome, timely>>
clockVars == <<young, overdue>>
busVars == <<inbox, pending, results, timeouts, expiring>>
passVars == <<phase, list, current, failed>>
monitorVars == <<suspects, collected, seen>>
worldVars == <<setup, up, lags, crashes>>
vars == <<tableVars, closing, struck, fileVars, runnerVars, clockVars, busVars, passVars,
          monitorVars, worldVars>>

Allowed == Setups[setup]

(* Who calls trigger_scheduling: the trigger handler, the begin-time monitor and,
   once, run_event_driven itself.  *)
Callers == {"trigger", "begin", "startup"}
Phases == {"idle", "pass", "save", "launch", "execute", "record"}

Ended == {"Finished", "Failed", "Cancelled", "Timeout"}
States == {"Absent", "Queued", "Running"} \cup Ended

Running == {j \in Jobs : state[j] = "Running"}
Ready == {j \in Jobs : state[j] = "Queued"} \ waiting
Alive(j) == runner[j] \in {"alive", "killed"}
Launching(j) == \E t \in Callers : j \in list[t] \cup failed[t] \cup {current[t]}
Executing(j) == \E t \in Callers : j = current[t]
Unlocked == up /\ closing = NoJob

-----------------------------------------------------------------------------
TypeOK ==
    /\ setup \in DOMAIN Setups
    /\ state \in [Jobs -> States]
    /\ disk \in [Jobs -> States]
    /\ waiting \subseteq Jobs
    /\ capacity \in Allowed.capacities
    /\ slot \in {"free", "busy"}
    /\ closing \in Jobs \cup {NoJob}
    /\ dirty \in BOOLEAN
    /\ runner \in [Jobs -> {"none", "alive", "killed", "gone"}]
    /\ meta \subseteq Jobs
    /\ result \in [Jobs -> {"none", "ok", "bad"}]
    /\ outcome \in [Jobs -> {"none", "ok", "bad"}]
    /\ timely \subseteq Jobs
    /\ struck \subseteq Jobs
    /\ young \subseteq Jobs
    /\ overdue \subseteq Jobs
    /\ {inbox, pending, collected, up} \subseteq BOOLEAN
    /\ results \in Seq([job : Jobs, is : {"ok", "bad", "lost"}])
    /\ timeouts \subseteq Jobs
    /\ expiring \in Jobs \cup {NoJob}
    /\ phase \in [Callers -> Phases]
    /\ list \in [Callers -> SUBSET Jobs]
    /\ current \in [Callers -> Jobs \cup {NoJob}]
    /\ failed \in [Callers -> SUBSET Jobs]
    /\ suspects \subseteq Jobs
    /\ seen \in {"none", "free", "busy"}
    /\ lags \in 0 .. Allowed.lags
    /\ crashes \in 0 .. Allowed.crashes

Init ==
    /\ setup \in DOMAIN Setups
    /\ state = [j \in Jobs |-> "Absent"]
    /\ disk = state
    /\ waiting = {}
    /\ capacity \in Allowed.capacities
    /\ slot = "free"
    /\ closing = NoJob
    /\ dirty = FALSE
    /\ runner = [j \in Jobs |-> "none"]
    /\ meta = {}
    /\ result = [j \in Jobs |-> "none"]
    /\ outcome = result
    /\ timely = {} /\ struck = {} /\ young = {} /\ overdue = {}
    /\ inbox = FALSE /\ pending = FALSE
    /\ results = <<>> /\ timeouts = {} /\ expiring = NoJob
    /\ phase = [t \in Callers |-> "idle"]
    /\ list = [t \in Callers |-> {}]
    /\ current = [t \in Callers |-> NoJob]
    /\ failed = list
    /\ suspects = {} /\ collected = FALSE /\ seen = "none"
    /\ up = TRUE
    /\ lags = 0 /\ crashes = 0

-----------------------------------------------------------------------------
(* What the handlers are made of.  *)

(* The running jobs of S move to a final state and their runner files are removed
   (finish_job, fail_job, timeout_job with the executor's cleanup).  *)
Moved_only(S, next) == [j \in S |-> next]        \* mutant: the others are dropped
Moved(S, next) == [j \in Jobs |-> IF j \in S THEN next ELSE state[j]]
Cleanup(S) == /\ meta' = meta \ S
              /\ result' = [j \in Jobs |-> IF j \in S THEN "none" ELSE result[j]]
              /\ UNCHANGED <<runner, outcome, timely>>

(* The trigger handler is sent a JobCompleted event.  *)
JobCompleted_quiet == UNCHANGED inbox             \* mutant: it is not subscribed
JobCompleted == inbox' = TRUE

(* terminate: without metadata there is nothing to signal.  *)
Terminated_never(j) == runner                    \* mutant: nothing is signalled
Terminated(j) == IF j \in meta /\ Alive(j) THEN [runner EXCEPT ![j] = "killed"]
                                          ELSE runner

(* refresh_gpu_slots: a GPU held by a running job is busy, otherwise NVML tells;
   a runner that is still there may or may not show.  *)
RefreshedSlot(running) ==
    IF running # {} THEN {"busy"}
    ELSE IF \E j \in Jobs : Alive(j) THEN {"free", "busy"} ELSE {"free"}

(* execution_status of the process executor, and what collect_finished finds: the
   results of the runners that have metadata.  *)
HasResult(j) == result[j] # "none"
Collectable == {j \in meta : HasResult(j)}
Status(j) == CASE HasResult(j) -> "Finished"
               [] ~HasResult(j) /\ j \in meta /\ Alive(j) -> "Running"
               [] OTHER -> "Missing"

-----------------------------------------------------------------------------
(* The requests of users.  *)

Submit(j) ==
    /\ Unlocked
    /\ j \in Allowed.jobs
    /\ state[j] = "Absent"
    /\ state' = Moved({j}, "Queued")
    /\ waiting' = waiting \cup ({j} \cap Allowed.deferred)
    /\ dirty' = TRUE
    /\ inbox' = TRUE
    /\ UNCHANGED <<struck, capacity, slot, closing, disk, runnerVars, clockVars, pending,
                   results, timeouts, expiring, passVars, monitorVars, worldVars>>

(* cancel_job.  For a running job the lock is kept while its runner is given
   time to end, and released by EndCancel.  A job that has ended stays as it is,
   and all that comes of such a request, an event, is left out.  *)
Cancel(j) ==
    /\ Unlocked
    /\ j \in Allowed.cancelled
    /\ state[j] \in {"Queued", "Running"}
    /\ state' = Moved({j}, "Cancelled")
    /\ dirty' = TRUE
    /\ struck' = IF Executing(j) THEN struck \cup {j} ELSE struck
    /\ \/ /\ state[j] = "Running"
          /\ closing' = j
          /\ runner' = Terminated(j)
          /\ UNCHANGED inbox
       \/ /\ state[j] = "Queued"
          /\ JobCompleted
          /\ UNCHANGED <<closing, runner>>
    /\ UNCHANGED <<waiting, capacity, slot, disk, meta, result, outcome, timely,
                   clockVars, pending, results, timeouts, expiring, passVars,
                   monitorVars, worldVars>>

EndCancel ==
    /\ up
    /\ closing # NoJob
    /\ closing' = NoJob
    /\ Cleanup({closing})
    /\ JobCompleted
    /\ UNCHANGED <<struck, tableVars, fileVars, clockVars, pending, results, timeouts,
                   expiring, passVars, monitorVars, worldVars>>

(* gctl: set_quota and set_group_max_concurrency publish nothing.  *)
SetLimit ==
    /\ Unlocked
    /\ capacity' \in Allowed.capacities \ {capacity}
    /\ dirty' = TRUE
    /\ UNCHANGED <<struck, state, waiting, slot, closing, disk, runnerVars, clockVars, busVars,
                   passVars, monitorVars, worldVars>>

-----------------------------------------------------------------------------
(* The trigger of scheduling passes and trigger_scheduling.  *)

(* The trigger handler reads what is in its inbox.  It does nothing else while it
   is in trigger_scheduling.  *)
ReadEvents ==
    /\ up
    /\ inbox
    /\ phase["trigger"] = "idle"
    /\ inbox' = FALSE
    /\ pending' = TRUE
    /\ UNCHANGED <<struck, tableVars, closing, fileVars, runnerVars, clockVars, results,
                   timeouts, expiring, passVars, monitorVars, worldVars>>

(* The debounce interval ticks.  *)
Tick ==
    /\ up
    /\ pending
    /\ phase["trigger"] = "idle"
    /\ pending' = FALSE
    /\ phase' = [phase EXCEPT !["trigger"] = "pass"]
    /\ UNCHANGED <<struck, tableVars, closing, fileVars, runnerVars, clockVars, inbox, results,
                   timeouts, expiring, list, current, failed, monitorVars, worldVars>>

(* The begin-time monitor releases jobs whose time has come and calls
   trigger_scheduling itself.  *)
ReleaseDue ==
    /\ Unlocked
    /\ phase["begin"] = "idle"
    /\ \E S \in SUBSET waiting :
          /\ S # {}
          /\ waiting' = waiting \ S
    /\ dirty' = TRUE
    /\ phase' = [phase EXCEPT !["begin"] = "pass"]
    /\ UNCHANGED <<struck, state, capacity, slot, closing, disk, runnerVars, clockVars, busVars,
                   list, current, failed, monitorVars, worldVars>>

Places == IF Allowed.gpu THEN Min({1, capacity}) ELSE capacity
Room == IF Allowed.gpu /\ slot = "busy" THEN 0 ELSE Max({0, Places - Cardinality(Running)})

(* Step 1: the pass starts as many jobs as there is room for, and the GPU slots
   are refreshed if there are any.  *)
Pass(t) ==
    /\ Unlocked
    /\ phase[t] = "pass"
    /\ \E S \in SUBSET Ready :
          /\ Cardinality(S) = Min({Room, Cardinality(Ready)})
          /\ state' = Moved(S, "Running")
          /\ young' = young \cup S
          /\ overdue' = overdue \ S
          /\ IF S = {}
             THEN /\ phase' = [phase EXCEPT ![t] = "idle"]
                  /\ UNCHANGED <<list, dirty, slot>>
             ELSE /\ phase' = [phase EXCEPT ![t] = "save"]
                  /\ list' = [list EXCEPT ![t] = S]
                  /\ dirty' = TRUE
                  /\ slot' \in RefreshedSlot(Running')
    /\ UNCHANGED <<struck, waiting, capacity, closing, disk, runnerVars, busVars, current,
                   failed, monitorVars, worldVars>>

(* save_state_if_dirty: the flag is cleared whether or not the save succeeds.  *)
SavedStates_none == {disk}                       \* mutant: nothing is written
SavedStates == IF ~dirty THEN {disk} ELSE {state} \cup IF Allowed.savesFail THEN {disk} ELSE {}

(* The state is saved before anything is launched.  *)
SaveBeforeLaunch(t) ==
    /\ Unlocked
    /\ phase[t] = "save"
    /\ disk' \in SavedStates
    /\ dirty' = FALSE
    /\ phase' = [phase EXCEPT ![t] = "launch"]
    /\ UNCHANGED <<struck, tableVars, closing, runnerVars, clockVars, busVars, list, current,
                   failed, monitorVars, worldVars>>

(* Step 2, for one job after the other: the state is read again under the lock,
   which is released before the launch.  *)
Recheck(t) ==
    /\ Unlocked
    /\ phase[t] = "launch"
    /\ \E j \in list[t] :
          /\ list' = [list EXCEPT ![t] = @ \ {j}]
          /\ IF state[j] = "Running"
             THEN /\ current' = [current EXCEPT ![t] = j]
                  /\ phase' = [phase EXCEPT ![t] = "execute"]
                  /\ UNCHANGED failed
             ELSE /\ failed' = [failed EXCEPT ![t] = @ \cup {j}]
                  /\ UNCHANGED <<current, phase>>
    /\ UNCHANGED <<struck, tableVars, closing, fileVars, runnerVars, clockVars, busVars,
                   monitorVars, worldVars>>

(* execute: old runner files are removed and the runner is spawned, or not.  *)
Execute(t) ==
    /\ up
    /\ phase[t] = "execute"
    /\ LET j == current[t]
       IN  /\ meta' = meta \ {j}
           /\ result' = [result EXCEPT ![j] = "none"]
           /\ \/ /\ runner' = [runner EXCEPT ![j] = "alive"]
                 /\ phase' = [phase EXCEPT ![t] = "record"]
                 /\ UNCHANGED <<current, failed>>
              \/ /\ Allowed.launchesFail
                 /\ failed' = [failed EXCEPT ![t] = @ \cup {j}]
                 /\ current' = [current EXCEPT ![t] = NoJob]
                 /\ phase' = [phase EXCEPT ![t] = "launch"]
                 /\ UNCHANGED runner
    /\ UNCHANGED <<struck, tableVars, closing, fileVars, outcome, timely, clockVars, busVars,
                   list, monitorVars, worldVars>>

(* The runner's metadata is written: only now can the runner be found.  When that
   fails it is killed at once.  *)
RecordRunner(t) ==
    /\ up
    /\ phase[t] = "record"
    /\ \/ /\ meta' = meta \cup {current[t]}
          /\ UNCHANGED <<failed, runner>>
       \/ /\ Allowed.launchesFail
          /\ runner' = [runner EXCEPT ![current[t]] = "gone"]
          /\ failed' = [failed EXCEPT ![t] = @ \cup {current[t]}]
          /\ UNCHANGED meta
    /\ current' = [current EXCEPT ![t] = NoJob]
    /\ phase' = [phase EXCEPT ![t] = "launch"]
    /\ UNCHANGED <<struck, tableVars, closing, fileVars, result, outcome, timely, clockVars,
                   busVars, list, monitorVars, worldVars>>

(* Step 3: launches that failed fail their jobs, which publishes nothing.  *)
Settle(t) ==
    /\ Unlocked
    /\ phase[t] = "launch"
    /\ list[t] = {}
    /\ LET S == failed[t] \cap Running
       IN  /\ state' = Moved(S, "Failed")
           /\ Cleanup(S)
           /\ dirty' = (dirty \/ S # {})
    /\ failed' = [failed EXCEPT ![t] = {}]
    /\ phase' = [phase EXCEPT ![t] = "idle"]
    /\ UNCHANGED <<struck, waiting, capacity, slot, closing, disk, clockVars, busVars, list,
                   current, monitorVars, worldVars>>

Caller(t) == \/ Pass(t) \/ SaveBeforeLaunch(t) \/ Recheck(t) \/ Execute(t)
             \/ RecordRunner(t) \/ Settle(t)

(* The state saver's interval ticks after a change.  *)
Save ==
    /\ Unlocked
    /\ dirty
    /\ disk' \in SavedStates
    /\ dirty' = FALSE
    /\ UNCHANGED <<struck, tableVars, closing, runnerVars, clockVars, busVars, passVars,
                   monitorVars, worldVars>>

-----------------------------------------------------------------------------
(* The runners, and time.  *)

(* The payload ends and the runner writes the result file.  *)
Exit(j) ==
    /\ runner[j] = "alive"
    /\ runner' = [runner EXCEPT ![j] = "gone"]
    /\ \E r \in {"ok", "bad"} : /\ outcome' = [outcome EXCEPT ![j] = r]
                               /\ result' = [result EXCEPT ![j] = r]
    /\ timely' = timely \cup ({j} \ overdue)
    /\ UNCHANGED <<struck, tableVars, closing, fileVars, meta, clockVars, busVars, passVars,
                   monitorVars, worldVars>>

(* The runner is gone before it wrote a result.  *)
Die(j) ==
    /\ Alive(j)
    /\ runner' = [runner EXCEPT ![j] = "gone"]
    /\ UNCHANGED <<struck, tableVars, closing, fileVars, meta, result, outcome, timely,
                   clockVars, busVars, passVars, monitorVars, worldVars>>

(* The startup grace period ends; a launch is over by then.  *)
Age(j) ==
    /\ j \in young
    /\ ~Launching(j)
    /\ young' = young \ {j}
    /\ UNCHANGED <<struck, tableVars, closing, fileVars, runnerVars, overdue, busVars, passVars,
                   monitorVars, worldVars>>

(* The time limit passes.  *)
Overrun(j) ==
    /\ j \in (Allowed.timed \cap Running) \ overdue
    /\ ~Launching(j)
    /\ overdue' = overdue \cup {j}
    /\ UNCHANGED <<struck, tableVars, closing, fileVars, runnerVars, young, busVars, passVars,
                   monitorVars, worldVars>>

-----------------------------------------------------------------------------
(* zombie_monitor_task: the running jobs are noted under the lock, then results
   are collected and runners are probed without it.  *)
NoteRunning ==
    /\ Unlocked
    /\ suspects = {}
    /\ ~collected
    /\ Len(results) <= MaxBacklog
    /\ Running # {}
    /\ suspects' = Running
    /\ UNCHANGED <<struck, tableVars, closing, fileVars, runnerVars, clockVars, busVars, passVars,
                   collected, seen, worldVars>>

(* should_check_missing_session_as_zombie.  *)
ToProbe_none(S) == S \cap young                  \* mutant: the test is reversed
ToProbe(S) == S \ young

CollectFinished ==
    /\ up
    /\ suspects # {}
    /\ ~collected
    /\ LET found == suspects \cap Collectable
           event(j) == [job |-> j, is |-> result[j]]
       IN  /\ results' = results \o SetToSeq({event(j) : j \in found})
           /\ suspects' = ToProbe(suspects \ found)
    /\ collected' = (suspects' # {})
    /\ UNCHANGED <<struck, tableVars, closing, fileVars, runnerVars, clockVars, inbox, pending,
                   timeouts, expiring, passVars, seen, worldVars>>

Probe ==
    /\ up
    /\ collected
    /\ \E j \in suspects :
          /\ suspects' = suspects \ {j}
          /\ results' = IF Status(j) = "Running" THEN results
                        ELSE Append(results, [job |-> j, is |-> "lost"])
    /\ collected' = (suspects' # {})
    /\ UNCHANGED <<struck, tableVars, closing, fileVars, runnerVars, clockVars, inbox, pending,
                   timeouts, expiring, passVars, seen, worldVars>>

(* What a result makes of a job (ExecutionResult::succeeded).  *)
Verdict(r) == IF r = "ok" THEN "Finished" ELSE "Failed"

(* zombie_handler_task.  finish_job cleans up and reports success even when the
   job has left Running; fail_job does nothing then.  *)
HandleResult ==
    /\ Unlocked
    /\ results # <<>>
    /\ LET j == Head(results).job
           r == Head(results).is
       IN  IF j \in Running \/ r = "ok"
           THEN /\ state' = Moved({j} \cap Running, Verdict(r))
                /\ Cleanup({j})
                /\ dirty' = TRUE
                /\ JobCompleted
           ELSE UNCHANGED <<state, runnerVars, dirty, inbox>>
    /\ results' = Tail(results)
    /\ UNCHANGED <<struck, waiting, capacity, slot, closing, disk, clockVars, pending, timeouts,
                   expiring, passVars, monitorVars, worldVars>>

(* timeout_monitor_task: the trigger handler is woken by the same event.  *)
TimeoutPoll ==
    /\ Unlocked
    /\ overdue \cap Running # {}
    /\ timeouts' = timeouts \cup (overdue \cap Running)
    /\ inbox' = TRUE
    /\ UNCHANGED <<struck, tableVars, closing, fileVars, runnerVars, clockVars, pending, results,
                   expiring, passVars, monitorVars, worldVars>>

(* timeout_handler_task: the runner is signalled without the lock.  *)
TimeoutTerminate ==
    /\ up
    /\ expiring = NoJob
    /\ \E j \in timeouts :
          /\ timeouts' = timeouts \ {j}
          /\ expiring' = j
          /\ runner' = Terminated(j)
    /\ UNCHANGED <<struck, tableVars, closing, fileVars, meta, result, outcome, timely, clockVars,
                   inbox, pending, results, passVars, monitorVars, worldVars>>

(* The job is then marked, which publishes nothing.  *)
TimeoutApply ==
    /\ Unlocked
    /\ expiring # NoJob
    /\ expiring' = NoJob
    /\ LET S == {expiring} \cap Running
       IN  /\ state' = Moved(S, "Timeout")
           /\ Cleanup(S)
           /\ dirty' = (dirty \/ S # {})
    /\ UNCHANGED <<struck, waiting, capacity, slot, closing, disk, clockVars, inbox, pending,
                   results, timeouts, passVars, monitorVars, worldVars>>

(* gpu_monitor_task compares with what it saw itself the last time.  *)
GpuPoll ==
    /\ Allowed.gpu
    /\ Unlocked
    /\ slot' \in RefreshedSlot(Running)
    /\ seen' = slot'
    /\ inbox' = (inbox \/ slot' # seen)
    /\ UNCHANGED <<struck, state, waiting, capacity, closing, fileVars, runnerVars, clockVars,
                   pending, results, timeouts, expiring, passVars, suspects, collected,
                   worldVars>>

(* A handler that lags behind its broadcast channel loses the oldest events.  The
   trigger handler then asks for a pass, so to it nothing is lost.  *)
Lag ==
    /\ up
    /\ lags < Allowed.lags
    /\ lags' = lags + 1
    /\ \/ /\ results # <<>>
          /\ \E n \in 1 .. Len(results) : results' = SubSeq(results, n + 1, Len(results))
          /\ UNCHANGED timeouts
       \/ /\ timeouts # {}
          /\ \E S \in (SUBSET timeouts) \ {timeouts} : timeouts' = S
          /\ UNCHANGED results
    /\ UNCHANGED <<struck, tableVars, closing, fileVars, runnerVars, clockVars, inbox, pending,
                   expiring, passVars, monitorVars, setup, up, crashes>>

-----------------------------------------------------------------------------
(* The daemon dies; the runners are sessions of their own and go on.  What was
   never saved is forgotten, and a limit may be back at an earlier value.  *)
Crash ==
    /\ up
    /\ crashes < Allowed.crashes
    /\ crashes' = crashes + 1
    /\ up' = FALSE
    /\ state' = disk
    /\ waiting' = {j \in Allowed.deferred : disk[j] = "Queued"}
    /\ capacity' \in Allowed.capacities
    /\ slot' = "free"
    /\ closing' = NoJob
    /\ struck' = {}
    /\ dirty' = FALSE
    /\ inbox' = FALSE /\ pending' = FALSE
    /\ results' = <<>> /\ timeouts' = {} /\ expiring' = NoJob
    /\ phase' = [t \in Callers |-> "idle"]
    /\ list' = [t \in Callers |-> {}]
    /\ current' = [t \in Callers |-> NoJob]
    /\ failed' = list'
    /\ suspects' = {} /\ collected' = FALSE /\ seen' = "none"
    /\ UNCHANGED <<setup, disk, runnerVars, clockVars, lags>>

(* What recovery makes of a job that was running.  *)
Recovered_trusting(j) ==                          \* mutant: a job may have ended unseen
    IF Status(j) = "Running" THEN "Running"
    ELSE IF result[j] = "bad" THEN "Failed" ELSE "Finished"
Recovered(j) == CASE Status(j) = "Running" -> "Running"
                  [] Status(j) = "Finished" -> Verdict(result[j])
                  [] Status(j) = "Missing" -> "Failed"

(* recover_running_jobs, then a pass that does not wait for an event.  *)
Recover ==
    /\ ~up
    /\ up' = TRUE
    /\ LET S == {j \in Running : Recovered(j) # "Running"}
       IN  /\ state' = [j \in Jobs |-> IF j \in S THEN Recovered(j) ELSE state[j]]
           /\ Cleanup(S)
           /\ dirty' = (S # {})
           /\ inbox' = (S # {})
    /\ phase' = [phase EXCEPT !["startup"] = "pass"]
    /\ UNCHANGED <<struck, waiting, capacity, slot, closing, disk, clockVars, pending, results,
                   timeouts, expiring, list, current, failed, monitorVars, setup,
                   lags, crashes>>

-----------------------------------------------------------------------------
Monitor == NoteRunning \/ CollectFinished \/ Probe
TimeoutHandler == TimeoutTerminate \/ TimeoutApply

Next ==
    \/ \E j \in Jobs : \/ Submit(j) \/ Cancel(j)
                      \/ Exit(j) \/ Die(j) \/ Age(j) \/ Overrun(j)
    \/ EndCancel \/ SetLimit
    \/ ReadEvents \/ Tick \/ ReleaseDue
    \/ \E t \in Callers : Caller(t)
    \/ Save \/ Monitor \/ HandleResult
    \/ TimeoutPoll \/ TimeoutHandler \/ GpuPoll
    \/ Lag \/ Crash \/ Recover

Spec == Init /\ [][Next]_vars

(* The tasks of the daemon are never starved, a daemon that died is started
   again, a signalled runner dies (SIGKILL follows SIGTERM), and time passes.
   Nothing is assumed of users, nor of payloads that are left alone.  *)
Fairness ==
    /\ WF_vars(EndCancel) /\ WF_vars(ReadEvents) /\ WF_vars(Tick)
    /\ WF_vars(ReleaseDue) /\ WF_vars(Save) /\ WF_vars(Monitor)
    /\ WF_vars(HandleResult) /\ WF_vars(TimeoutPoll) /\ WF_vars(TimeoutHandler)
    /\ WF_vars(GpuPoll) /\ WF_vars(Recover)
    /\ \A t \in Callers : WF_vars(Caller(t))
    /\ \A j \in Jobs : WF_vars(Age(j)) /\ WF_vars(runner[j] = "killed" /\ Die(j))

FairSpec == Spec /\ Fairness

-----------------------------------------------------------------------------
(* Properties.  *)

(* A job is Finished only if its payload succeeded, whatever was lost, read late or
   read again after a crash.  *)
FinishedMeansSucceeded == \A j \in Jobs : state[j] = "Finished" => outcome[j] = "ok"

(* A runner is started only when the state file shows its job as started: "a crash
   in the handoff window must not leave a durable runner with no corresponding job
   state for the next daemon to adopt" (trigger_scheduling).  *)
RunnerHasJobState == \A j \in Jobs : runner[j] = "alive" => disk[j] \notin {"Absent", "Queued"}

(* What is in memory, on disk and running agrees as far as it must at every step,
   through launches and crashes.  *)
RunnersRecorded == TypeOK /\ FinishedMeansSucceeded /\ RunnerHasJobState

(* What the state file says of a job is what the runtime promises with any executor:
   in particular not two callers of trigger_scheduling, nor a daemon that crashed
   around a launch, run its payload twice.  *)
Work == [j \in Jobs |-> CASE outcome[j] # "none" -> outcome[j]
                          [] outcome[j] = "none" /\ Alive(j) -> "running"
                          [] outcome[j] = "none" /\ runner[j] = "gone" -> "bad"
                          [] OTHER -> "none"]
Promised == INSTANCE JobRun WITH record <- disk, work <- Work
ImplementsJobRun == Promised!Spec

(* As long as the daemon does not crash, a payload that runs unsignalled has a job
   that is Running: the places it uses are accounted for, whoever ends jobs and however
   late.  Only a cancellation that comes while the executor is at the job finds no
   runner to signal.  *)
NoStrayRunner ==
    crashes = 0 => \A j \in Jobs \ struck : runner[j] = "alive" => state[j] = "Running"

(* A job does not stay Running without a live runner: launches complete, and ends
   are noticed although events are lost and the daemon crashes.  *)
RunningMeansAlive ==
    \A j \in Jobs : []<>~(up /\ state[j] = "Running" /\ ~Alive(j))

(* The payload of a running job ends some time after its time limit, although the
   events may be lost, unless its runner was never recorded.  *)
OverdueEnds ==
    \A j \in Jobs : (j \in overdue \cap Running \cap meta) ~> ~Alive(j)

(* A job for which there is room starts (or the room is used, or it is cancelled).  *)
Startable(j) == up /\ j \in Ready /\ Places > Cardinality(Running)
WorkStarts == \A j \in Jobs : []<>~Startable(j)

(* What the code does not keep.  *)

(* A job that was cancelled does not run (trigger_scheduling looks at its state once
   more, which "prevents executing cancelled/held jobs").  *)
CancelledPayloadsEnd ==
    crashes = 0 => \A j \in Jobs : runner[j] = "alive" => state[j] # "Cancelled"

(* A job whose payload succeeded is not Failed (zombie_monitor_task: "A result is
   authoritative even if the runner is in the short window before it exits").  *)
SucceededNotFailed == \A j \in Jobs : outcome[j] = "ok" => state[j] # "Failed"

(* The runner's files let "a new daemon adopt the process or collect its result"
   (ProcessExecutor): recovery keeps a live runner's job Running ...  *)
RecoveryAdoptsRunners ==
    [][up' /\ ~up => \A j \in Running : runner[j] = "alive" => state'[j] = "Running"]_vars

(* ... and finishes a job whose payload succeeded.  *)
RecoveryBelievesResults ==
    [][up' /\ ~up => \A j \in Running : outcome[j] = "ok" => state'[j] = "Finished"]_vars

(* A job times out only if its payload exceeded the limit.  *)
TimeoutJustified == \A j \in Jobs : state[j] = "Timeout" => j \notin timely
=============================================================================
