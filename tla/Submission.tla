---------------------------- MODULE Submission ----------------------------
(***************************************************************************)
(* How jobs get into the queue: gbatch (single jobs, arrays and parameter  *)
(* sweeps), the `@' shorthands for recent jobs, and gjob redo with         *)
(* --cascade.  Each command is a series of requests to the daemon, and     *)
(* between two of them other commands are served, jobs end, are retried,   *)
(* are edited and auto-cancelled.                                          *)
(*                                                                         *)
(* The daemon serves one request at a time under its write lock.  What a   *)
(* job runs and asks for is left out: a request is its submitter, its      *)
(* dependencies and its retries.  All dependencies must finish (the other  *)
(* mode is in JobDeps); resources, holds and begin times are elsewhere.    *)
(***************************************************************************)
EXTENDS Integers, Sequences, FiniteSets

CONSTANTS
    Clients,      \* shells in which commands are run
    LoginOf,      \* the user of each
    Offsets,      \* the lists given to --depends-on-all: n stands for @~n, 1 for @
    Attempts,     \* the values of --max-retries
    MaxQueued,    \* max_queued_jobs of every user
    MaxBatch,     \* bound on the jobs of one gbatch
    MaxCommands,  \* bound on commands
    MaxJobs       \* bound on jobs

ASSUME SubmissionAssumption ==
    /\ IsFiniteSet(Clients)
    /\ \A list \in Offsets : list \in Seq(Nat \ {0})
    /\ Attempts \subseteq Nat
    /\ {MaxQueued, MaxBatch, MaxCommands, MaxJobs} \subseteq Nat

VARIABLES
    jobs,      \* the job table; ids are positions in it
    cmd,       \* the command each shell is running
    told,      \* the last job id each shell was told, 0 for none
    commands   \* commands given so far

submissionVars == <<jobs, cmd, told, commands>>

Users == {LoginOf[c] : c \in Clients}
Ids == 1 .. MaxJobs
Nobody == 0
Lost == {"Failed", "Cancelled"}
Ended == Lost \cup {"Finished"}

Job == [user : Users,
        ids : SUBSET Ids,                \* depends_on_ids
        legacy : Ids \cup {Nobody},      \* depends_on
        retries : Nat,                   \* max_retries
        from : Ids \cup {Nobody},        \* redone_from
        again : Ids \cup {Nobody},       \* retried_from
        state : {"Queued", "Running"} \cup Ended,
        cause : Ids \cup {Nobody}]       \* the DependencyFailed reason

(* A command: gbatch, which has `answers' to the @'s of its `count' jobs so
   far; gjob redo of the job in `source'; and the cascade of that redo through
   the jobs in `list', in which `copies' says what it has redone as what.  *)
Idle == [op |-> "idle"]
Copied == [id : Ids, ids : SUBSET Ids, legacy : Ids \cup {Nobody}, retries : Nat]
Command ==
    {Idle}
    \cup [op : {"batch"}, count : 1 .. MaxBatch, refs : Offsets, retries : Attempts,
          answers : Seq(Ids)]
    \cup [op : {"redo"}, source : Copied, cascade : BOOLEAN]
    \cup [op : {"list"}, source : Copied, copy : Ids]
    \cup [op : {"cascade"}, source : Copied, list : SUBSET Copied,
          copies : UNION {[D -> Ids] : D \in SUBSET Ids}]

SubmissionTypeOK ==
    /\ jobs \in Seq(Job) /\ Len(jobs) <= MaxJobs
    /\ cmd \in [Clients -> Command]
    /\ told \in [Clients -> Ids \cup {Nobody}]
    /\ commands \in 0 .. MaxCommands

SubmissionInit ==
    /\ jobs = <<>>
    /\ cmd = [c \in Clients |-> Idle]
    /\ told = [c \in Clients |-> Nobody]
    /\ commands = 0

-----------------------------------------------------------------------------
(* The daemon.  *)

Known(js) == DOMAIN js

(* normalized_dependency_ids, all_dependency_ids: the list and the legacy field
   together.  *)
DepsOf(job) == job.ids \cup ({job.legacy} \ {Nobody})
LegacyFor(D) == IF Cardinality(D) = 1 THEN CHOOSE d \in D : TRUE ELSE Nobody
QueuedOf(u) == {j \in Known(jobs) : jobs[j].user = u /\ jobs[j].state = "Queued"}

(* user_jobs_index, which is in the order of submission: the ids.  *)
JobsOf(u) == {j \in Known(jobs) : jobs[j].user = u}

(* resolve_dependency: @~n is the job of the user from which on there are n, and
   @ is @~1, the last of them.  *)
From(u, j) == {k \in JobsOf(u) : k >= j}
Resolves(u, n) == n <= Cardinality(JobsOf(u))
Resolve(u, n) == CHOOSE j \in JobsOf(u) : Cardinality(From(u, j)) = n

(* The jobs of js that wait for one that can no longer finish, itself or
   through others that do: the least set that holds all that wait for a lost job
   or for one of its own.  *)
Doomed(js) ==
    LET waits == {j \in Known(js) : js[j].state = "Queued"}
        lost  == {j \in Known(js) : js[j].state \in Lost}
        Closed(S) == \A j \in waits : DepsOf(js[j]) \cap (lost \cup S) # {} => j \in S
    IN  {j \in waits : \A S \in SUBSET waits : Closed(S) => j \in S}

(* What the table may become once they are auto-cancelled: each names one of the
   dependencies it lost, which one is up to the order of the walk (JobDeps).  *)
Settlements(js) ==
    LET D    == Doomed(js)
        lost == D \cup {j \in Known(js) : js[j].state \in Lost}
        causes == {f \in [D -> lost] : \A j \in D : f[j] \in DepsOf(js[j])}
    IN  {[j \in Known(js) |->
            IF j \in D THEN [js[j] EXCEPT !.state = "Cancelled", !.cause = why[j]]
                       ELSE js[j]] : why \in causes}

(* check_queue_quota, with the jobs of the same batch that are not in the table.  *)
MayQueue(u, bias) == Cardinality(QueuedOf(u)) + bias < MaxQueued

(* create_job and create_jobs_batch accept all of the requests or none: every
   dependency is already in the table, and for each job those of the batch
   before it count against the user's max_queued_jobs.  *)
Accepts_alone(reqs) ==             \* mutant: the batch does not count itself
    /\ Len(jobs) + Len(reqs) <= MaxJobs
    /\ \A i \in DOMAIN reqs :
          /\ DepsOf(reqs[i]) \subseteq Known(jobs)
          /\ MayQueue(reqs[i].user, 0)

Accepts(reqs) ==
    /\ Len(jobs) + Len(reqs) <= MaxJobs
    /\ \A i \in DOMAIN reqs :
          /\ DepsOf(reqs[i]) \subseteq Known(jobs)
          /\ MayQueue(reqs[i].user, i - 1)

Submitted(js, reqs) ==
    js \o [i \in DOMAIN reqs |->
              [user |-> reqs[i].user, ids |-> reqs[i].ids,
               legacy |-> reqs[i].legacy, from |-> reqs[i].from,
               again |-> reqs[i].again, retries |-> reqs[i].retries,
               state |-> "Queued", cause |-> Nobody]]

Given == commands < MaxCommands /\ commands' = commands + 1

StartJob(j) ==
    /\ jobs[j].state = "Queued"
    /\ \A d \in DepsOf(jobs[j]) : jobs[d].state = "Finished"
    /\ jobs' = [jobs EXCEPT ![j].state = "Running"]
    /\ UNCHANGED <<cmd, told, commands>>

(* retry_budget_root_id, and the retries made of that job so far.  *)
Root ==
    LET root[j \in Known(jobs)] == IF jobs[j].again = Nobody THEN j ELSE root[jobs[j].again]
    IN  root
RetriesOf(j) == {k \in Known(jobs) : jobs[k].again # Nobody /\ Root[k] = Root[j]}

(* should_retry_job, and the check of the queue quota that comes with it.  *)
MayRetry(j) ==
    /\ Cardinality(RetriesOf(j)) < jobs[j].retries
    /\ MayQueue(jobs[j].user, 0)

(* finish_job; or the end of a job that failed with no retry left, ran out of
   time or was failed by its user.  *)
End(j, final) ==
    /\ jobs[j].state = "Running"
    /\ jobs' \in Settlements([jobs EXCEPT ![j].state = final])
    /\ UNCHANGED <<cmd, told, commands>>

Cancel(j) ==
    /\ Given
    /\ jobs[j].state \in {"Queued", "Running"}
    /\ jobs' \in Settlements([jobs EXCEPT ![j].state = "Cancelled"])
    /\ UNCHANGED <<cmd, told>>

(* finalize_job_with_retry: the retry is submitted for the same user, and what
   waits for the job waits for the retry instead.  *)
Retry(j) ==
    /\ jobs[j].state = "Running"
    /\ MayRetry(j)
    /\ Len(jobs) < MaxJobs
    /\ LET n     == Len(jobs) + 1
           after(k) == (DepsOf(jobs[k]) \ {j}) \cup {n}
           moved == [k \in Known(jobs) |->
                       IF k = j THEN [jobs[k] EXCEPT !.state = "Failed"]
                       ELSE IF jobs[k].state = "Queued" /\ j \in DepsOf(jobs[k])
                       THEN [jobs[k] EXCEPT !.ids = after(k),
                                            !.legacy = LegacyFor(after(k))]
                       ELSE jobs[k]]
           again == [jobs[j] EXCEPT !.ids = DepsOf(jobs[j]),
                                    !.legacy = LegacyFor(DepsOf(jobs[j])),
                                    !.again = j,
                                    !.from = IF @ = Nobody THEN j ELSE @]
       IN  jobs' \in Settlements(Submitted(moved, <<again>>))
    /\ UNCHANGED <<cmd, told, commands>>

Reaches(a, b) ==
    \A S \in SUBSET Known(jobs) :
        a \in S /\ (\A x \in S : DepsOf(jobs[x]) \subseteq S) => b \in S

(* gjob update --depends-on: any job that is not behind this one, newer ones
   too.  The list is replaced, depends_on is not.  *)
UpdateJob(j, d) ==
    /\ Given
    /\ jobs[j].state = "Queued"
    /\ ~Reaches(d, j)
    /\ jobs' \in Settlements([jobs EXCEPT ![j].ids = {d}])
    /\ UNCHANGED <<cmd, told>>

-----------------------------------------------------------------------------
(* The commands.  *)

Does(c, next) == cmd' = [cmd EXCEPT ![c] = next]
Running(c, op) == cmd[c].op = op
Newest == Len(jobs')       \* the id of the last job submitted
Told(c) == told' = [told EXCEPT ![c] = Newest]

Begins(c, command) ==
    /\ Running(c, "idle")
    /\ Given
    /\ Does(c, command)
    /\ UNCHANGED <<jobs, told>>

(* gbatch: one job, or an array or sweep of them; its dependencies are given as
   shorthands.  *)
GBatch(c) ==
    \E n \in 1 .. MaxBatch, refs \in Offsets, r \in Attempts :
        Begins(c, [op |-> "batch", count |-> n, refs |-> refs, retries |-> r,
                   answers |-> <<>>])

Resolving(c) ==
    Running(c, "batch") /\ Len(cmd[c].answers) < cmd[c].count * Len(cmd[c].refs)
NextRef(c) == cmd[c].refs[1 + (Len(cmd[c].answers) % Len(cmd[c].refs))]

(* build_job asks the daemon for every shorthand of every job in turn; the first
   that names no job ends the command, before anything is submitted.  *)
ResolveNext(c) ==
    /\ Resolving(c)
    /\ Does(c, IF Resolves(LoginOf[c], NextRef(c))
               THEN [cmd[c] EXCEPT !.answers = Append(@, Resolve(LoginOf[c], NextRef(c)))]
               ELSE Idle)
    /\ UNCHANGED <<jobs, told, commands>>

(* The answers to the i-th job of the batch are its dependencies.  *)
Requests(c) ==
    LET k == Len(cmd[c].refs)
    IN  [i \in 1 .. cmd[c].count |->
            [user |-> LoginOf[c], from |-> Nobody, again |-> Nobody,
             retries |-> cmd[c].retries,
             ids |-> {cmd[c].answers[(i - 1) * k + m] : m \in 1 .. k},
             legacy |-> IF k = 1 THEN cmd[c].answers[i] ELSE Nobody]]

(* add_job, or add_jobs with the whole batch; a refusal ends the command.  *)
PostBatch(c) ==
    /\ Running(c, "batch") /\ ~Resolving(c)
    /\ IF Accepts(Requests(c))
       THEN jobs' \in Settlements(Submitted(jobs, Requests(c))) /\ Told(c)
       ELSE UNCHANGED <<jobs, told>>
    /\ Does(c, Idle)
    /\ UNCHANGED commands

Snapshot(j) == [id |-> j, ids |-> jobs[j].ids, legacy |-> jobs[j].legacy,
                retries |-> jobs[j].retries]

(* gjob redo fetches the job, whoever submitted it; one that has not ended is
   refused.  *)
Redo(c, j) ==
    /\ jobs[j].state \in Ended
    /\ \E cascade \in BOOLEAN :
          Begins(c, [op |-> "redo", source |-> Snapshot(j), cascade |-> cascade])

(* build_redo_job, with the dependencies of the original.  *)
RedoOf(c, s) ==
    [user |-> LoginOf[c], from |-> s.id, again |-> Nobody, retries |-> s.retries,
     ids |-> DepsOf(s), legacy |-> LegacyFor(DepsOf(s))]

(* The job a cascade redoes s as, when `copies' says what it redid before.  Only
   the list of dependencies is copied.  *)
CopyOf_kept(c, s, copies) ==           \* mutant: dependencies are not renamed
    [user |-> LoginOf[c], from |-> s.id, again |-> Nobody, retries |-> s.retries,
     ids |-> s.ids, legacy |-> Nobody]

CopyOf(c, s, copies) ==
    [user |-> LoginOf[c], from |-> s.id, again |-> Nobody, retries |-> s.retries,
     ids |-> {IF d \in DOMAIN copies THEN copies[d] ELSE d : d \in s.ids},
     legacy |-> Nobody]

PostRedo(c) ==
    /\ Running(c, "redo")
    /\ LET reqs == <<RedoOf(c, cmd[c].source)>>
       IN  IF Accepts(reqs)
           THEN /\ jobs' \in Settlements(Submitted(jobs, reqs))
                /\ Told(c)
                /\ Does(c, IF cmd[c].cascade
                           THEN [op |-> "list", source |-> cmd[c].source, copy |-> Newest]
                           ELSE Idle)
           ELSE Does(c, Idle) /\ UNCHANGED <<jobs, told>>
    /\ UNCHANGED commands

(* find_cascade_jobs: those whose cancellation leads back to job j, as the table
   is when it is listed.  *)
CascadeOf(j) ==
    LET Closed(S) == \A x \in Known(jobs) :
                        jobs[x].state = "Cancelled" /\ jobs[x].cause \in S \cup {j} => x \in S
    IN  {x \in Known(jobs) \ {j} : \A S \in SUBSET Known(jobs) : Closed(S) => x \in S}

ListJobs(c) ==
    /\ Running(c, "list")
    /\ LET list == CascadeOf(cmd[c].source.id)
       IN  Does(c, IF list = {} THEN Idle
                   ELSE [op |-> "cascade", source |-> cmd[c].source,
                         list |-> {Snapshot(j) : j \in list},
                         copies |-> [d \in {cmd[c].source.id} |-> cmd[c].copy]])
    /\ UNCHANGED <<jobs, told, commands>>

(* They are redone in the order of their ids.  *)
Left(c) == {s \in cmd[c].list : s.id \notin DOMAIN cmd[c].copies}
BeingCopied(c) == CHOOSE s \in Left(c) : \A t \in Left(c) : s.id <= t.id

Extended(copies, old, new) ==
    [d \in DOMAIN copies \cup {old} |-> IF d = old THEN new ELSE copies[d]]

(* redo_with_cascade, one job: a refusal ends the command, and the copies made
   before it stay.  *)
PostCopy(c) ==
    /\ Running(c, "cascade")
    /\ LET s    == BeingCopied(c)
           reqs == <<CopyOf(c, s, cmd[c].copies)>>
       IN  IF Accepts(reqs)
           THEN /\ jobs' \in Settlements(Submitted(jobs, reqs))
                /\ Told(c)
                /\ Does(c, IF Left(c) = {s} THEN Idle
                           ELSE [cmd[c] EXCEPT !.copies = Extended(@, s.id, Newest)])
           ELSE Does(c, Idle) /\ UNCHANGED <<jobs, told>>
    /\ UNCHANGED commands

(* The user stops a command, the daemon is down or read-only, or refuses the
   request for its project or its GPU sharing.  *)
Fails(c) ==
    /\ ~Running(c, "idle")
    /\ Does(c, Idle)
    /\ UNCHANGED <<jobs, told, commands>>

SubmissionNext ==
    \/ \E j \in Known(jobs) :
          \/ StartJob(j) \/ End(j, "Finished") \/ End(j, "Failed") \/ Cancel(j) \/ Retry(j)
          \/ \E d \in Known(jobs) : UpdateJob(j, d)
    \/ \E c \in Clients :
          \/ GBatch(c) \/ ResolveNext(c) \/ PostBatch(c)
          \/ \E j \in Known(jobs) : Redo(c, j)
          \/ PostRedo(c) \/ ListJobs(c) \/ PostCopy(c) \/ Fails(c)

SubmissionSpec == SubmissionInit /\ [][SubmissionNext]_submissionVars

-----------------------------------------------------------------------------
(* The properties.  *)

(* No user ever has more than max_queued_jobs jobs in the queue, although a batch
   is checked before any of its jobs is in the table, retries are submitted by
   the daemon itself and copies one by one.  *)
QueueLimitKept == \A u \in Users : Cardinality(QueuedOf(u)) <= MaxQueued

(* @ means a job of the same user that is at least as new as the last one this
   shell was told of: a script that submits a chain job by job never hangs a job
   on an older one, whatever other shells, other users, retries and redos do.  *)
AtIsOwnAndCurrent ==
    \A c \in Clients : Running(c, "batch") =>
        \A i \in DOMAIN cmd[c].answers :
            LET a == cmd[c].answers[i]
                n == cmd[c].refs[1 + ((i - 1) % Len(cmd[c].refs))]
            IN  jobs[a].user = LoginOf[c] /\ (n = 1 => a >= told[c])

Redone(c) == {cmd[c].source.id} \cup {s.id : s \in cmd[c].list}
CopyPosted(c) == Running(c, "cascade") /\ told'[c] # told[c]

(* The copies a cascade makes depend on each other as the originals did: where
   the list of an original names a job of lower id that the cascade has redone
   too, its copy waits for the copy.  *)
FollowsCopies(c, d) ==
    d \in DOMAIN cmd[c].copies /\ cmd[c].copies[d] \in DepsOf(jobs'[told'[c]])
RedoneDeps(c) == BeingCopied(c).ids \cap Redone(c)

CopiesFollowCopies ==
    [][\A c \in Clients : CopyPosted(c) =>
          \A d \in RedoneDeps(c) :
              d < BeingCopied(c).id => FollowsCopies(c, d)]_submissionVars

(* Commands that run side by side neither overfill a queue nor hang a job on
   another's.  *)
CommandsSound == SubmissionTypeOK /\ QueueLimitKept /\ AtIsOwnAndCurrent

(* The cascade redoes dependencies before what depends on them (redo.rs:364:
   "Sort jobs in topological order (dependencies first)").  *)
DependenciesFirst ==
    [][\A c \in Clients : CopyPosted(c) =>
          \A d \in RedoneDeps(c) : FollowsCopies(c, d)]_submissionVars

(* What a cascade redoes waits again for what it was cancelled for
   (gjob-reference.md:183: "also redo jobs that were auto-cancelled because this
   job failed").  *)
CopiesWaitAgain ==
    [][\A c \in Clients : CopyPosted(c) =>
          FollowsCopies(c, jobs[BeingCopied(c).id].cause)]_submissionVars

(* @~2 is the second most recent submission (gbatch-reference.md:45: "Nth most
   recent submission").  *)
Answered(c) == Running(c, "batch") /\ cmd'[c] # cmd[c] /\ ~Running(c, "idle")'
CountsSubmissions ==
    [][\A c \in Clients : Answered(c) =>
          LET a == cmd'[c].answers[Len(cmd'[c].answers)]
              since == {j \in Known(jobs) : j >= a /\ jobs[j].user = LoginOf[c]}
          IN  NextRef(c) = Cardinality({j \in since : jobs[j].again = Nobody})]_submissionVars
=============================================================================
