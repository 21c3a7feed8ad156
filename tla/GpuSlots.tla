------------------------------ MODULE GpuSlots ------------------------------
(***************************************************************************)
(* What the daemon believes of its GPUs.  A slot is available or not as it *)
(* was when NVML was last asked: by the monitor's poll, by a pass that     *)
(* started jobs, and for an administrator who has a process ignored, or no *)
(* longer ignored.  Between two looks processes come and go, jobs end, and *)
(* passes give GPUs out by what the slots say.  ginfo asks for the slots   *)
(* and for the jobs in two requests.                                       *)
(*                                                                         *)
(* A job here needs one GPU (see Allocation for the allocator), and what a *)
(* pass starts is any jobs or none: those that wait are not in the model.  *)
(***************************************************************************)
EXTENDS Integers, FiniteSets

CONSTANT Machines     \* the machines, by name

Machine == [gpus : SUBSET Nat,         \* its GPUs
            pids : SUBSET Nat,         \* processes that come and go
            modes : SUBSET {"exclusive", "shared"},   \* how jobs use a GPU
            restrictions : SUBSET SUBSET Nat,         \* gctl set-gpus
            blind : Nat,               \* looks that NVML answers in part
            restarts : Nat,
            asks : BOOLEAN]            \* ginfo is run

VARIABLES
    machine,   \* the machine of this behaviour
    held,      \* what the running jobs of a GPU use it as
    procs,     \* compute processes NVML would list, by GPU
    slots,     \* GPUSlot of each GPU
    ignored,   \* ignored_gpu_processes
    allowed,   \* allowed_gpu_indices
    seen,      \* previous_gpu_states of the monitor
    due,       \* an event asks the trigger handler for a pass
    spent,     \* partial looks and restarts so far
    ask,       \* a run of ginfo
    past       \* history, for the properties

gpuVars == <<machine, held, procs, slots, ignored, allowed, seen, due, spent, ask, past>>

ASSUME MachinesAssumption == \A m \in DOMAIN Machines : Machines[m] \in Machine

Here == Machines[machine]
Gpus == Here.gpus
Nothing == [why |-> "none", pids |-> {}]

-----------------------------------------------------------------------------
(* refresh_gpu_slots.  *)

On(g, list) == {p \in Here.pids : <<g, p>> \in list}

Excused_anywhere(g, list) ==     \* mutant: an override holds for every GPU
    {p \in On(g, procs) : \E h \in Gpus : <<h, p>> \in list}
Excused(g, list) == On(g, procs) \cap On(g, list)

(* What a look at a GPU makes of it: jobs come before processes.  *)
Looked(g, jobs, list) ==
    LET excused == Excused(g, list)
        others  == On(g, procs) \ excused
    IN  [available |-> jobs[g] = "shared" \/ (jobs[g] = "none" /\ others = {}),
         reason |-> IF jobs[g] # "none" \/ On(g, procs) = {} THEN Nothing
                    ELSE IF others # {} THEN [why |-> "unmanaged", pids |-> others]
                    ELSE [why |-> "ignored", pids |-> excused]]

(* The processes could not be listed.  *)
Unreadable(g, jobs) ==
    [available |-> jobs[g] = "shared",
     reason |-> IF jobs[g] = "none" THEN [why |-> "nvml_query_failed", pids |-> {}] ELSE Nothing]

(* NVML does not know a device, or does not list its processes, now and then.  *)
Views == {[missing |-> m, unread |-> u] : m, u \in {{}} \cup {{g} : g \in Gpus}}
Listed(v) == Gpus \ (v.missing \cup v.unread)
NoView == [missing |-> Gpus, unread |-> {}]

(* The overrides of a GPU that was read are kept for the processes it has.  *)
Kept(v, list) == {e \in list : e[1] \in Listed(v) => e \in procs}

Refresh(v, jobs, list) ==
    /\ spent' = [spent EXCEPT !.blind = @ + (IF Listed(v) = Gpus THEN 0 ELSE 1)]
    /\ spent'.blind <= Here.blind
    /\ slots' = [g \in Gpus |-> IF g \in v.missing THEN slots[g]
                                ELSE IF g \in v.unread THEN Unreadable(g, jobs)
                                ELSE Looked(g, jobs, list)]
    /\ ignored' = Kept(v, list)

-----------------------------------------------------------------------------
(* History.  met: the processes a look has found; gone: those that ended since
   the last look at their GPU; excused: those an override is for, be it that they
   were named or that they took the pid of one that was before any look; under:
   what held a GPU when it was last looked at; offered: the GPUs that have been
   available since a pass found them so; missed: those the monitor has seen
   available and that were not in between, and those newly allowed.  *)

Free(g) == slots[g].available
Available == {g \in allowed : Free(g)}      \* get_available_gpu_slots

Remember(v) ==
    LET begun  == procs' \ procs
        passed == IF due /\ ~due' THEN Available ELSE {}
    IN  past' =
        [met |-> {e \in procs' : e \in past.met \/ e[1] \in Listed(v)},
         gone |-> {e \in (past.gone \cup procs) \ procs' : e[1] \notin Listed(v)},
         excused |-> {e \in past.excused \cup (ignored' \ ignored)
                           \cup (begun \cap ignored \cap past.gone) :
                         e \in procs' /\ (e[1] \notin v.missing => e \in ignored')},
         under |-> [g \in Gpus |-> IF g \in v.missing THEN past.under[g] ELSE held'[g]],
         offered |-> {g \in past.offered \cup passed : Free(g)'},
         missed |-> {g \in Gpus : seen'[g] # "no" /\
                        \/ g \in (past.missed \ passed) \cup (allowed' \ allowed)
                        \/ seen[g] = "yes" /\ ~Free(g)'}]

-----------------------------------------------------------------------------
(* gpu_monitor_task: a change is one from what its own last poll saw.  *)
Changed_refreshed == \E g \in Gpus : Free(g)' # Free(g)   \* mutant: made by this refresh
Changed == seen' # seen
Poll ==
    /\ \E v \in Views :
          /\ Refresh(v, held, ignored)
          /\ seen' = [g \in Gpus |-> IF Free(g)' THEN "yes" ELSE "no"]
          /\ due' = (due \/ Changed)
          /\ UNCHANGED <<machine, held, procs, allowed, ask>>
          /\ Remember(v)

(* A pass, and the refresh that follows it if it started a job.  *)
Takes(g, mode) == held[g] = "none" \/ (held[g] = "shared" /\ mode = "shared")
Pass ==
    /\ due /\ due' = FALSE
    /\ UNCHANGED <<machine, procs, allowed, seen, ask>>
    /\ \E started \in UNION {[G -> Here.modes] : G \in SUBSET Available}, v \in Views \cup {NoView} :
          /\ \A g \in DOMAIN started : Takes(g, started[g])
          /\ held' = [g \in Gpus |-> IF g \in DOMAIN started THEN started[g] ELSE held[g]]
          /\ v = NoView <=> DOMAIN started = {}
          /\ IF v = NoView THEN UNCHANGED <<slots, ignored, spent>> ELSE Refresh(v, held', ignored)
          /\ Remember(v)

(* The last job of a GPU ends, which is an event.  The slot stays as it was.  *)
End(g) ==
    /\ held[g] # "none"
    /\ held' = [held EXCEPT ![g] = "none"]
    /\ due' = TRUE
    /\ UNCHANGED <<machine, procs, slots, ignored, allowed, seen, spent, ask>>
    /\ Remember(NoView)

(* Anything else that asks for a pass, a submission for one.  *)
Wake ==
    /\ ~due /\ due' = TRUE
    /\ UNCHANGED <<machine, held, procs, slots, ignored, allowed, seen, spent, ask>>
    /\ Remember(NoView)

(* A compute process starts on a GPU, or ends.  *)
Begin(g, p) ==
    /\ <<g, p>> \notin procs
    /\ procs' = procs \cup {<<g, p>>}
    /\ UNCHANGED <<machine, held, slots, ignored, allowed, seen, due, spent, ask>>
    /\ Remember(NoView)

Vanish(g, p) ==
    /\ <<g, p>> \in procs
    /\ procs' = procs \ {<<g, p>>}
    /\ UNCHANGED <<machine, held, slots, ignored, allowed, seen, due, spent, ask>>
    /\ Remember(NoView)

-----------------------------------------------------------------------------
(* gctl gpu-process ignore and unignore: all GPUs are looked at, and an event says
   so if the availability of the one that was named changed.  *)

Told(g) == due' = (due \/ Free(g)' # Free(g))

(* current_compute_processes_on_gpu has to list the process.  *)
Current(g, p) == <<g, p>> \in procs
IgnoreProcess(v, g, p) == Refresh(v, held, ignored \cup {<<g, p>>})
Ignore(g, p) ==
    /\ Current(g, p)
    /\ \E v \in Views :
          /\ IgnoreProcess(v, g, p)
          /\ Told(g)
          /\ UNCHANGED <<machine, held, procs, allowed, seen, ask>>
          /\ Remember(v)

(* An override that is not there is NOT_FOUND, but only after the refresh.  *)
UnignoreProcess(v, g, p) == Refresh(v, held, ignored \ {<<g, p>>})
Unignore(g, p) ==
    \E v \in Views :
        /\ UnignoreProcess(v, g, p)
        /\ IF <<g, p>> \in ignored THEN Told(g) ELSE due' = due
        /\ UNCHANGED <<machine, held, procs, allowed, seen, ask>>
        /\ Remember(v)

(* gctl set-gpus tells nobody.  *)
SetAllowed(S) ==
    /\ S \subseteq Gpus /\ S # allowed
    /\ allowed' = S
    /\ UNCHANGED <<machine, held, procs, slots, ignored, seen, due, spent, ask>>
    /\ Remember(NoView)

NewSlots == [g \in Gpus |-> [available |-> TRUE, reason |-> Nothing]]

(* A new daemon: no override, and slots that are available until the first look,
   which may come after the first pass.  *)
NewDaemon ==
    /\ spent.restarts < Here.restarts
    /\ spent' = [spent EXCEPT !.restarts = @ + 1]
    /\ slots' = NewSlots
    /\ ignored' = {}
    /\ seen' = [g \in Gpus |-> "never"]
    /\ due' = TRUE
    /\ ask' = [op |-> "none"]
    /\ past' = [past EXCEPT !.met = {}, !.gone = {}, !.excused = {}, !.offered = {}, !.missed = {},
                            !.under = [g \in Gpus |-> "none"]]
    /\ UNCHANGED <<machine, held, procs, allowed>>

-----------------------------------------------------------------------------
(* ginfo.  *)

AskSlots ==
    /\ ask.op = "none" /\ Here.asks
    /\ ask' = [op |-> "jobs", slots |-> slots, under |-> past.under]
    /\ UNCHANGED <<machine, held, procs, slots, ignored, allowed, seen, due, spent>>
    /\ Remember(NoView)

(* print_gpu_allocation: the row a GPU is in.  *)
Row(slot, user) ==
    IF slot.available THEN "idle"
    ELSE IF user # "none" THEN "job"
    ELSE IF slot.reason.why = "none" THEN "unknown" ELSE slot.reason.why

AskJobs ==
    /\ ask.op = "jobs"
    /\ ask' = [op |-> "shown", under |-> ask.under,
               rows |-> [g \in Gpus |-> Row(ask.slots[g], held[g])]]
    /\ UNCHANGED <<machine, held, procs, slots, ignored, allowed, seen, due, spent>>
    /\ Remember(NoView)

InfoShown ==
    /\ ask.op = "shown"
    /\ ask' = [op |-> "none"]
    /\ UNCHANGED <<machine, held, procs, slots, ignored, allowed, seen, due, spent>>
    /\ Remember(NoView)
-----------------------------------------------------------------------------
GpuInit ==
    /\ machine \in DOMAIN Machines
    /\ held = [g \in Gpus |-> "none"]
    /\ procs \in SUBSET (Gpus \X Here.pids)
    /\ slots = NewSlots
    /\ ignored = {}
    /\ allowed = Gpus
    /\ seen = [g \in Gpus |-> "never"]
    /\ due = TRUE
    /\ spent = [blind |-> 0, restarts |-> 0]
    /\ ask = [op |-> "none"]
    /\ past = [met |-> {}, gone |-> {}, excused |-> {}, offered |-> {}, missed |-> {},
               under |-> [g \in Gpus |-> "none"]]

GpuNext ==
    \/ Poll \/ Pass \/ Wake \/ NewDaemon
    \/ AskSlots \/ AskJobs \/ InfoShown
    \/ \E S \in Here.restrictions : SetAllowed(S)
    \/ \E g \in Gpus :
          \/ End(g)
          \/ \E p \in Here.pids : Begin(g, p) \/ Vanish(g, p) \/ Ignore(g, p) \/ Unignore(g, p)

-----------------------------------------------------------------------------
(* What must hold.  *)

GpuTypeOK ==
    /\ held \in [Gpus -> {"none", "exclusive", "shared"}]
    /\ procs \subseteq Gpus \X Here.pids /\ ignored \subseteq Gpus \X Here.pids
    /\ allowed \subseteq Gpus
    /\ seen \in [Gpus -> {"never", "yes", "no"}]
    /\ spent.blind <= Here.blind /\ spent.restarts <= Here.restarts

(* A GPU that could be given to a job has been offered to a pass, or a pass is due,
   or the monitor's next poll will see the change and ask for one.  Two cases are
   left out, the GPUs in `missed': one that became unavailable and available
   again between two polls, and one an administrator has just allowed; there a
   waiting job depends on some other event.  *)
FreeGpuNoticed ==
    \A g \in Available :
        held[g] = "none" => due \/ seen[g] # "yes" \/ g \in past.offered \cup past.missed

(* No job is given a GPU with a process of others that a look has found, unless
   that process is ignored, or the GPU was one of shared jobs at the last look,
   which then counts as available whatever else is on it.  *)
StrangersSpared ==
    \A g \in Gpus : held[g] = "none" /\ held'[g] # "none" =>
        \/ past.under[g] = "shared"
        \/ \A e \in procs \cap past.met : e[1] = g => e \in past.excused

(* An override is for the process that was named; it outlasts it only until the
   next look at the GPU, and passes on to another process only if that one takes
   the pid before then.  *)
OverridesLapse ==
    \A e \in ignored : IF e \in procs THEN e \in past.excused ELSE e \in past.gone

(* A GPU of an exclusive job is not available, except where NVML or a new daemon
   has not looked at it since; and ginfo shows neither a job nor a reason only
   when a job that had the GPU at the last look has ended.  *)
BusyGpusShown ==
    /\ spent = [blind |-> 0, restarts |-> 0] =>
          \A g \in Gpus : held[g] = "exclusive" => ~Free(g)
    /\ ask.op = "shown" =>
          \A g \in Gpus : ask.rows[g] = "unknown" => ask.under[g] = "exclusive"

(* What the slots and the overrides say can be relied on to give GPUs out.  *)
SlotsTrustworthy ==
    /\ [](GpuTypeOK /\ OverridesLapse /\ BusyGpusShown)
    /\ []FreeGpuNoticed
    /\ [][StrangersSpared]_gpuVars

(* Refuted.  "gflow does not preempt/kill non-gflow processes; jobs wait until the
   GPU becomes idle" (docs/src/user-guide/gpu-management.md:39): it may have been
   idle at the poll before, too.  *)
IdleGpuNoticed ==
    \A g \in Available \cap past.missed : held[g] = "none" => due \/ seen[g] # "yes" \/ g \in past.offered

(* Refuted.  "If NVML reports running compute processes on a GPU, gflow treats it as
   unavailable [...] and will not allocate it"
   (docs/src/user-guide/gpu-management.md:38).  *)
NeverWithOthers ==
    [][\A e \in procs \cap (past.met \ past.excused) :
          held[e[1]] = "none" => held'[e[1]] = "none"]_gpuVars

GpuSpec == GpuInit /\ [][GpuNext]_gpuVars
=============================================================================
