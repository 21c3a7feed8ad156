---------------------------- MODULE Reservations ----------------------------
(***************************************************************************)
(* GPU reservations: how they are accepted against each other, how their   *)
(* status follows the clock, what a scheduling pass lets jobs use while    *)
(* they are in force, and the monitor that sleeps until the next change.   *)
(*                                                                         *)
(* Time is counted in half-hours, the grain gctl accepts for the start of  *)
(* a reservation; every read of the clock is a step of its own, so the     *)
(* clock may tick between two reads.  Index lists are sets: gctl sorts and *)
(* deduplicates them.  Jobs hold their GPUs exclusively and have no other  *)
(* limit; the rest of a pass is in Allocation.                             *)
(***************************************************************************)
EXTENDS Integers, FiniteSets, FiniteSetsExt

CONSTANTS
    Users,
    Gpus,             \* the GPU indices of the machine
    Jobs,             \* job ids
    UserOf, Need,     \* who submits a job, and how many GPUs it asks for
    Offers,           \* what users may reserve: who, which GPUs, how long
    MaxTime,          \* bound on the clock
    MaxReservations,  \* bound on the reservations created
    MaxRestarts,      \* bound on restarts of the daemon
    Never             \* the monitor has no deadline

ASSUME ReservationsAssumption ==
    /\ IsFiniteSet(Gpus) /\ Gpus # {}
    /\ IsFiniteSet(Jobs)
    /\ UserOf \in [Jobs -> Users]
    /\ Need \in [Jobs -> Nat]
    /\ IsFiniteSet(Offers) /\ Offers # {}
    /\ \A o \in Offers : /\ o.user \in Users
                         /\ o.spec.gpus \subseteq Gpus /\ o.spec.count \in Nat
                         /\ o.spec.gpus = {} \/ o.spec.count = 0
                         /\ o.duration \in Nat \ {0}
    /\ {MaxTime, MaxReservations, MaxRestarts} \subseteq Nat
    /\ Never \notin Nat

VARIABLES
    now,           \* the clock
    reservations,  \* Scheduler::reservations
    next_id,       \* next_reservation_id
    cancelled,     \* ids users cancelled (history)
    state,         \* the state of each job
    gpu_ids,       \* the GPUs it holds
    monitor,       \* what the reservation monitor does next
    deadline,      \* the transition it sleeps for, or Never
    woken,         \* the monitor has unread events
    pending,       \* the trigger will run a pass
    todo,          \* the jobs the running pass has not looked at
    available,     \* available_gpus, read when the pass began
    passing,       \* a pass holds the write lock
    began,         \* when the running pass updated the statuses (history)
    restarts

tableVars == <<reservations, next_id, cancelled>>
jobVars == <<state, gpu_ids>>
monitorVars == <<monitor, deadline, woken>>
passVars == <<todo, available, passing, began>>
vars == <<now, tableVars, jobVars, monitorVars, pending, passVars, restarts>>

-----------------------------------------------------------------------------
(* Reservations.  *)

Statuses == {"Pending", "Active", "Completed", "Cancelled"}
Reservation == [id : Nat, user : Users, spec : {o.spec : o \in Offers},
                start : Nat, end : Nat, status : Statuses]
Horizon == MaxTime + Max({o.duration : o \in Offers})

Size(s) == Cardinality(s.gpus) + s.count

\* The GPUs that those without indices ask for, in all.
Shares(R) == UNION {{r} \X (1 .. r.spec.count) : r \in R}
CountOf(R) == Cardinality(Shares(R))
IndicesOf(R) == UNION {r.spec.gpus : r \in R}

IsActive_late(r, t) == r.status # "Cancelled" /\ t > r.start /\ t < r.end
    \* mutant: the first instant does not count
IsActive(r, t) == r.status # "Cancelled" /\ t >= r.start /\ t < r.end

OverlapsWith_inside(r, start, end) == r.start <= start /\ start < r.end
    \* mutant: one that begins later is overlooked
OverlapsWith(r, start, end) == r.start < end /\ start < r.end

UpdatedStatus_stuck(r, t) ==
    IF r.status = "Pending" /\ IsActive(r, t) THEN "Active" ELSE r.status
    \* mutant: nothing completes
UpdatedStatus(r, t) ==
    CASE r.status = "Pending" /\ IsActive(r, t) -> "Active"
      [] r.status \in {"Pending", "Active"} /\ t >= r.end -> "Completed"
      [] OTHER -> r.status

(* The next status change of r after t, if there is one: a change that is due
   already does not count.  *)
Transitions(r, t) ==
    CASE r.status = "Pending" -> {r.start} \ 0 .. t
      [] r.status = "Active"  -> {r.end} \ 0 .. t
      [] OTHER -> {}

NextTransition(t) ==
    LET due == UNION {Transitions(r, t) : r \in reservations}
    IN  IF due = {} THEN Never ELSE Min(due)

(* update_reservation_statuses: what has ended is dropped.  *)
Updated_kept(t) == {[r EXCEPT !.status = UpdatedStatus(r, t)] : r \in reservations}
    \* mutant: nothing is dropped
Updated_twice(t) ==
    reservations \cup {[r EXCEPT !.status = UpdatedStatus(r, t)] : r \in reservations}
    \* mutant: what changed is added beside what was there
Updated(t) ==
    {r \in {[q EXCEPT !.status = UpdatedStatus(q, t)] : q \in reservations} :
        r.status \in {"Pending", "Active"}}

(* collect_reservation_state.  *)
Overlapping(start, end) ==
    {r \in reservations : r.status # "Cancelled" /\ OverlapsWith(r, start, end)}

CheckIndices_only(gpus, R) == gpus \cap IndicesOf(R) = {}
    \* mutant: reservations by count may be starved
CheckIndices(gpus, R) ==
    /\ gpus \cap IndicesOf(R) = {}
    /\ CountOf(R) <= Cardinality(Gpus) - Cardinality(IndicesOf(R)) - Cardinality(gpus)

CheckCount(n, R) == CountOf(R) + n <= Cardinality(Gpus) - Cardinality(IndicesOf(R))

CheckConflict(spec, R) == IF spec.gpus # {} THEN CheckIndices(spec.gpus, R)
                                            ELSE CheckCount(spec.count, R)

-----------------------------------------------------------------------------
(* What a pass lets a user have.  *)

(* get_active_reservations.  *)
InForce == {r \in reservations : r.status = "Active" /\ IsActive(r, now)}
Own(u) == {r \in InForce : r.user = u}
Others(u) == InForce \ Own(u)

RespectsReservations(u, n) ==
    LET blocked == IndicesOf(Others(u))
    IN  \/ InForce = {}
        \/ IndicesOf(Own(u)) # {} /\ n <= Cardinality(IndicesOf(Own(u)))
        \/ IndicesOf(Own(u)) = {} /\ CountOf(Own(u)) > 0 /\ n <= CountOf(Own(u))
        \/ /\ IndicesOf(Own(u)) = {} /\ CountOf(Own(u)) = 0
           /\ n <= Max({0, Cardinality(Gpus) - Cardinality(blocked) - CountOf(Others(u))})
           /\ n <= Cardinality(available \ blocked)

UsableGpus_any(u) == available \ IndicesOf(Others(u))
    \* mutant: the owner's GPUs are not preferred
UsableGpus_all(u) == available
    \* mutant: nothing is filtered
UsableGpus(u) == IF IndicesOf(Own(u)) # {} THEN available \cap IndicesOf(Own(u))
                                           ELSE available \ IndicesOf(Others(u))

Held == UNION {gpu_ids[j] : j \in Jobs}

-----------------------------------------------------------------------------
TypeOK ==
    /\ now \in 0 .. MaxTime
    /\ reservations \subseteq Reservation
    /\ \A r, q \in reservations : r.id = q.id => r = q
    /\ next_id \in 1 .. MaxReservations + 1
    /\ cancelled \subseteq 1 .. MaxReservations
    /\ state \in [Jobs -> {"Absent", "Queued", "Running", "Ended"}]
    /\ gpu_ids \in [Jobs -> SUBSET Gpus]
    /\ monitor \in {"startup", "compute", "sleep"}
    /\ deadline \in Nat \cup {Never}
    /\ {woken, pending, passing} \subseteq BOOLEAN
    /\ todo \subseteq Jobs
    /\ available \subseteq Gpus
    /\ began \in 0 .. MaxTime
    /\ restarts \in 0 .. MaxRestarts

Init ==
    /\ now = 0
    /\ reservations = {} /\ next_id = 1 /\ cancelled = {}
    /\ state = [j \in Jobs |-> "Absent"]
    /\ gpu_ids = [j \in Jobs |-> {}]
    /\ monitor = "startup" /\ deadline = Never /\ woken = FALSE
    /\ pending = TRUE
    /\ todo = {} /\ available = {} /\ passing = FALSE /\ began = 0
    /\ restarts = 0

Tick ==
    /\ now < MaxTime
    /\ now' = now + 1
    /\ UNCHANGED <<tableVars, jobVars, monitorVars, pending, passVars, restarts>>

-----------------------------------------------------------------------------
(* The requests of users.  A pass keeps the write lock they need.  *)

Acceptable(o, start) ==
    /\ Size(o.spec) \in 1 .. Cardinality(Gpus)
    /\ start >= now
    /\ CheckConflict(o.spec, Overlapping(start, start + o.duration))

Create(o, start) ==
    /\ ~passing
    /\ next_id <= MaxReservations
    /\ Acceptable(o, start)
    /\ reservations' = reservations \cup
          {[id |-> next_id, user |-> o.user, spec |-> o.spec, start |-> start,
            end |-> start + o.duration, status |-> "Pending"]}
    /\ next_id' = next_id + 1
    /\ woken' = TRUE
    /\ UNCHANGED <<now, cancelled, jobVars, monitor, deadline, pending, passVars, restarts>>

(* What cancel_reservation of the scheduler asks of the status it finds.  *)
Cancellable(r) == r.status \in {"Pending", "Active"}

Cancel(r) ==
    /\ ~passing
    /\ Cancellable(r)
    /\ reservations' = (reservations \ {r}) \cup {[r EXCEPT !.status = "Cancelled"]}
    /\ cancelled' = cancelled \cup {r.id}
    /\ woken' = TRUE
    /\ UNCHANGED <<now, next_id, jobVars, monitor, deadline, pending, passVars, restarts>>

Submit(j) ==
    /\ ~passing
    /\ state[j] = "Absent"
    /\ state' = [state EXCEPT ![j] = "Queued"]
    /\ woken' = TRUE
    /\ pending' = TRUE
    /\ UNCHANGED <<now, tableVars, gpu_ids, monitor, deadline, passVars, restarts>>

Complete(j) ==
    /\ ~passing
    /\ state[j] = "Running"
    /\ state' = [state EXCEPT ![j] = "Ended"]
    /\ gpu_ids' = [gpu_ids EXCEPT ![j] = {}]
    /\ woken' = TRUE
    /\ pending' = TRUE
    /\ UNCHANGED <<now, tableVars, monitor, deadline, passVars, restarts>>

-----------------------------------------------------------------------------
(* The scheduling pass: statuses are updated first, then the jobs are looked at
   in the order of the ready heap, which may be any.  *)

StartPass ==
    /\ pending /\ ~passing
    /\ pending' = FALSE
    /\ passing' = TRUE
    /\ reservations' = Updated(now)
    /\ began' = now
    /\ available' = Gpus \ Held
    /\ todo' = {j \in Jobs : state[j] = "Queued"}
    /\ UNCHANGED <<now, next_id, cancelled, jobVars, monitorVars, restarts>>

Fits(j) == /\ RespectsReservations(UserOf[j], Need[j])
           /\ Need[j] <= Cardinality(UsableGpus(UserOf[j]) \ Held)

Start(j) ==
    /\ j \in todo
    /\ Fits(j)
    /\ \E S \in kSubset(Need[j], UsableGpus(UserOf[j]) \ Held) :
          gpu_ids' = [gpu_ids EXCEPT ![j] = S]
    /\ state' = [state EXCEPT ![j] = "Running"]
    /\ todo' = todo \ {j}
    /\ UNCHANGED <<now, tableVars, monitorVars, pending, available, passing, began, restarts>>

Wait(j) ==
    /\ j \in todo
    /\ ~Fits(j)
    /\ todo' = todo \ {j}
    /\ UNCHANGED <<now, tableVars, jobVars, monitorVars, pending, available, passing,
                   began, restarts>>

EndPass ==
    /\ passing
    /\ todo = {}
    /\ passing' = FALSE
    /\ available' = {} /\ began' = 0
    /\ UNCHANGED <<now, tableVars, jobVars, monitorVars, pending, todo, restarts>>

-----------------------------------------------------------------------------
(* The reservation monitor.  The PeriodicHealthCheck it publishes after an update
   wakes nobody but itself.  *)

MonitorStartup ==
    /\ monitor = "startup" /\ ~passing
    /\ reservations' = Updated(now)
    /\ monitor' = "compute"
    /\ woken' = TRUE
    /\ UNCHANGED <<now, next_id, cancelled, jobVars, deadline, pending, passVars, restarts>>

MonitorComputes ==
    /\ monitor = "compute" /\ ~passing
    /\ deadline' = NextTransition(now)
    /\ monitor' = "sleep"
    /\ UNCHANGED <<now, tableVars, jobVars, woken, pending, passVars, restarts>>

MonitorFires ==
    /\ monitor = "sleep" /\ ~passing
    /\ deadline # Never
    /\ now >= deadline
    /\ reservations' = Updated(now)
    /\ monitor' = "compute"
    /\ deadline' = Never
    /\ woken' = TRUE
    /\ UNCHANGED <<now, next_id, cancelled, jobVars, pending, passVars, restarts>>

(* Any event makes it compute its deadline anew; a timer that is due as well may
   lose against the event.  *)
MonitorReads ==
    /\ monitor = "sleep"
    /\ woken
    /\ woken' = FALSE
    /\ monitor' = "compute"
    /\ deadline' = Never
    /\ UNCHANGED <<now, tableVars, jobVars, pending, passVars, restarts>>

(* The daemon stops, with its state saved, and starts again.  *)
Restart ==
    /\ restarts < MaxRestarts
    /\ ~passing
    /\ restarts' = restarts + 1
    /\ monitor' = "startup"
    /\ deadline' = Never
    /\ woken' = FALSE
    /\ pending' = TRUE
    /\ UNCHANGED <<now, tableVars, jobVars, passVars>>

Next ==
    \/ Tick
    \/ \E o \in Offers, start \in 0 .. MaxTime : Create(o, start)
    \/ \E r \in reservations : Cancel(r)
    \/ \E j \in Jobs : Submit(j) \/ Complete(j) \/ Start(j) \/ Wait(j)
    \/ StartPass \/ EndPass
    \/ MonitorStartup \/ MonitorComputes \/ MonitorFires \/ MonitorReads
    \/ Restart

Spec == Init /\ [][Next]_vars

(* The tasks of the daemon keep running and the clock too; users may stop.  *)
FairSpec ==
    /\ Spec
    /\ WF_vars(Tick)
    /\ WF_vars(StartPass) /\ WF_vars(EndPass)
    /\ \A j \in Jobs : WF_vars(Start(j)) /\ WF_vars(Wait(j))
    /\ WF_vars(MonitorStartup) /\ WF_vars(MonitorComputes)
    /\ WF_vars(MonitorFires) /\ WF_vars(MonitorReads)

-----------------------------------------------------------------------------
(* Properties are about what users were told, so they go by the clock and by
   what was cancelled, and never by the status field.  *)

Standing == {r \in reservations : r.id \notin cancelled}
At(t) == {r \in Standing : r.start <= t /\ t < r.end}

(* Those in force since the pass updated the statuses, and still.  *)
SincePass == At(began) \cap At(now)

(* Whatever was accepted can be honoured at every instant to come: no GPU is
   promised by index to two reservations, and with those promised by count there
   are never more than the machine has.  *)
NeverOvercommitted ==
    \A t \in now .. Horizon :
        /\ \A r, q \in At(t) : r # q => r.spec.gpus \cap q.spec.gpus = {}
        /\ Cardinality(IndicesOf(At(t))) + CountOf(At(t)) <= Cardinality(Gpus)

(* A pass works with statuses that are right at the instant it began, whatever
   the monitor missed, ticks and restarts: what is over or cancelled is gone, and
   the rest is active exactly if it has begun.  *)
PassKnowsTheTime ==
    passing => \A r \in reservations :
                  /\ r.id \notin cancelled
                  /\ began < r.end
                  /\ r.status = IF r.start <= began THEN "Active" ELSE "Pending"

(* The reservations in memory are well formed, can all be honoured, and have the
   statuses a pass may rely on.  *)
ReservationsSound == TypeOK /\ PassKnowsTheTime /\ NeverOvercommitted

Starts(j) == state[j] = "Queued" /\ state'[j] = "Running"

(* No job starts on a GPU another user has reserved by index.  A reservation that
   begins while a pass runs is respected from the next one on.  *)
StartsRespectReservations ==
    [][\A j \in Jobs : Starts(j) =>
          \A r \in SincePass : r.user # UserOf[j] => gpu_ids'[j] \cap r.spec.gpus = {}]_vars

(* A user with GPUs reserved by index is started on those and on no others, and a
   pass never leaves a job of that user waiting that fits on those nobody holds.  *)
OwnersServed ==
    [][\A j \in Jobs :
          LET own == IndicesOf({r \in SincePass : r.user = UserOf[j]})
          IN  own # {} => /\ Starts(j) => gpu_ids'[j] \subseteq own
                          /\ j \in todo \ todo' /\ ~Starts(j)
                                 => Need[j] > Cardinality(own \ Held)]_vars

(* What is reserved by index is kept for its owner, from both sides.  *)
PassesKeepReservations == StartsRespectReservations /\ OwnersServed

(* Refuted.  "Block out GPUs for a user/time window (e.g. a demo) so other users
   can't take them while the reservation is active" (docs user-guide/tips.md): a
   pass compares each job of the others with what is not reserved, never all of
   them together, so a reservation by count is eaten up one job at a time.  *)
ReservedStayFree ==
    [][\A j \in Jobs : Starts(j) =>
          \A r \in SincePass : r.user # UserOf[j] =>
              Cardinality(UNION {gpu_ids'[k] : k \in {i \in Jobs : UserOf[i] # r.user}})
                  + Size(r.spec) <= Cardinality(Gpus)]_vars

(* Refuted.  "Trigger scheduling in case reservations changed" (monitors.rs): the
   event published for that is one the trigger ignores, so a job that waited for
   a reservation to end waits on when it has.  *)
NoWaitForNothing ==
    \A j \in Jobs :
        ~<>[](/\ state[j] = "Queued"
              /\ Need[j] <= Cardinality(Gpus \ Held)
              /\ \A t \in now .. Horizon : At(t) = {})

(* Refuted.  "Reservation monitor task - uses precise timers for status
   transitions" (monitors.rs): a transition that is due when the monitor computes
   its deadline is passed over.  *)
StatusFollowsClock ==
    \A i \in 1 .. MaxReservations :
        ~<>[](\E r \in Standing : /\ r.id = i
                                  /\ r.status # "Completed" /\ r.end <= now)
=============================================================================
