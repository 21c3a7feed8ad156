---------------------------- MODULE TmuxExecutor ----------------------------
(***************************************************************************)
(* The default executor: every job runs in a tmux session of its own       *)
(* (TmuxExecutor in executor.rs, tmux.rs), and it is the shell in that     *)
(* session that tells the daemon how the payload ended.  What is typed is  *)
(*                                                                         *)
(*     bash -c "payload && gcancel --finish id || gcancel --fail id"       *)
(*                                                                         *)
(* so nothing is left on disk: a report that finds no daemon is lost.      *)
(* Sessions outlive the daemon; whether a job still runs is judged by      *)
(* whether its session exists.  Users attach to sessions, close them, and  *)
(* have gjob close-sessions close them.                                    *)
(*                                                                         *)
(* Which queued job starts, resources and the state file are those of      *)
(* Allocation, Daemon and Persistence: here any queued job may start, and  *)
(* a daemon that stops comes back with the states it had.                  *)
(***************************************************************************)
EXTENDS Naturals, FiniteSets

CONSTANTS
    Jobs,             \* job ids
    Timed,            \* jobs with a time limit
    Retries,          \* jobs with attempts left of max_retries
    AutoClose,        \* jobs submitted with --auto-close
    Stubborn,         \* jobs whose payload goes on after Ctrl-C
    Prefix,           \* <<j, k>> when the session name of j is a prefix of that of k
    LaunchesFail,     \* tmux may refuse to create a session
    MaxStops,         \* bound on stops of the daemon
    MaxVisits         \* bound on what users do to sessions

ASSUME TmuxAssumption ==
    /\ IsFiniteSet(Jobs)
    /\ \A S \in {Timed, Retries, AutoClose, Stubborn} : S \subseteq Jobs
    /\ Prefix \subseteq {p \in Jobs \X Jobs : p[1] # p[2]}
    /\ LaunchesFail \in BOOLEAN
    /\ {MaxStops, MaxVisits} \subseteq Nat

VARIABLES
    state,      \* the state of each job: "Absent" before submission
    retried,    \* jobs of which a retry was submitted
    launch,     \* where trigger_scheduling is with each job
    struck,     \* jobs cancelled after their launch was last checked (history)
    shell,      \* what the shell of each job's session is doing
    logged,     \* sessions whose output is piped to the log
    exit,       \* how each payload ended (history)
    unheard,    \* jobs whose end no report will tell (history)
    young,      \* running jobs in the startup grace period
    overdue,    \* running jobs beyond their time limit
    suspects,   \* running jobs of the zombie monitor's poll
    zombies,    \* jobs in unread ZombieJobDetected events
    timeouts,   \* jobs in unread JobTimedOut events
    expiring,   \* jobs the timeout handler has sent Ctrl-C to
    closing,    \* the close-sessions command in progress
    up,         \* the daemon answers
    stops, visits

jobVars == <<state, retried>>
launchVars == <<launch, struck>>
sessionVars == <<shell, logged, exit, unheard>>
clockVars == <<young, overdue>>
busVars == <<suspects, zombies, timeouts, expiring>>
worldVars == <<closing, up, stops, visits>>
vars == <<jobVars, launchVars, sessionVars, clockVars, busVars, worldVars>>

Ended == {"Finished", "Failed", "Cancelled", "Timeout"}
States == {"Absent", "Queued", "Running"} \cup Ended
Launches == {"no", "listed", "create", "type", "failed"}
Shells == {"none", "idle", "payload", "finishing", "failing"}
Reporting == {"finishing", "failing"}

Running == {j \in Jobs : state[j] = "Running"}
Sessions == {j \in Jobs : shell[j] # "none"}
NotClosing == [phase |-> "no", names |-> {}]

TypeOK ==
    /\ state \in [Jobs -> States]
    /\ retried \subseteq Jobs
    /\ launch \in [Jobs -> Launches]
    /\ struck \subseteq Jobs
    /\ shell \in [Jobs -> Shells]
    /\ logged \subseteq Sessions
    /\ exit \in [Jobs -> {"none", "ok", "bad"}]
    /\ unheard \subseteq Jobs
    /\ \A S \in {young, overdue, suspects, zombies, timeouts, expiring} : S \subseteq Jobs
    /\ closing \in [phase : {"no", "listed", "chosen"}, names : SUBSET Jobs]
    /\ up \in BOOLEAN
    /\ stops \in 0 .. MaxStops
    /\ visits \in 0 .. MaxVisits

Init ==
    /\ state = [j \in Jobs |-> "Absent"]
    /\ retried = {}
    /\ launch = [j \in Jobs |-> "no"]
    /\ struck = {}
    /\ shell = [j \in Jobs |-> "none"]
    /\ logged = {} /\ unheard = {}
    /\ exit = [j \in Jobs |-> "none"]
    /\ young = {} /\ overdue = {}
    /\ suspects = {} /\ zombies = {} /\ timeouts = {} /\ expiring = {}
    /\ closing = NotClosing
    /\ up = TRUE
    /\ stops = 0 /\ visits = 0

-----------------------------------------------------------------------------
(* tmux.  *)

(* The session a command with the name of job j reaches: tmux takes the session of
   that name, else the only one whose name begins with it.  *)
Target(j) ==
    LET Others == {k \in Sessions : <<j, k>> \in Prefix}
    IN  CASE j \in Sessions -> {j}
          [] j \notin Sessions /\ Cardinality(Others) = 1 -> Others
          [] OTHER -> {}

(* The shells of S are now at `what'.  *)
At(S, what) == [j \in Jobs |-> IF j \in S THEN what ELSE shell[j]]
Died(S) == [j \in Jobs |-> IF j \in S /\ shell[j] = "payload" THEN "bad" ELSE exit[j]]
Cut(S) == unheard \cup {j \in S : shell[j] \in Reporting \cup {"payload"}}

(* kill_session: what runs in a session dies with it.  *)
Closed(S) == /\ shell' = At(S, "none")
             /\ logged' = logged \ S
             /\ exit' = Died(S)
             /\ unheard' = Cut(S)

(* What is typed after the payload: && and ||.  *)
ReportOf_any(r) == "finishing"                   \* mutant: a `;' in place of `&&'
ReportOf(r) == IF r = "ok" THEN "finishing" ELSE "failing"

(* The payload of a session of S ends by itself.  The command is put before the && as
   it is: if it leaves the bash that would go on to the report (exit, exec), there is
   none, and the shell that bash was typed in waits for more.  *)
Ends(S) ==
    \E r \in {"ok", "bad"} :
       /\ exit' = [j \in Jobs |-> IF j \in S THEN r ELSE exit[j]]
       /\ \/ shell' = At(S, ReportOf(r)) /\ UNCHANGED unheard
          \/ shell' = At(S, "idle") /\ unheard' = unheard \cup S

(* What becomes of a session when C-c is typed.  bash goes on to the report only if
   the payload caught the signal and ended by itself; a report that is being sent
   is cut off, unless it is there already.  *)
Interrupted_not(S) == UNCHANGED <<shell, exit, unheard>>   \* mutant: no C-c is sent
Interrupted(S) ==
    \/ /\ \A j \in S : shell[j] \in {"none", "idle"} \cup Reporting \/ j \in Stubborn
       /\ UNCHANGED <<shell, exit, unheard>>
    \/ /\ \E j \in S : \/ shell[j] \in Reporting
                       \/ shell[j] = "payload" /\ j \notin Stubborn
       /\ shell' = At(S, "idle")
       /\ exit' = Died(S)
       /\ unheard' = Cut(S)
    \/ /\ \E j \in S : shell[j] = "payload" /\ j \notin Stubborn
       /\ Ends(S)

-----------------------------------------------------------------------------
(* What the handlers of the daemon are made of.  *)

Moved(S, next) == [j \in Jobs |-> IF j \in S THEN next ELSE state[j]]

(* cleanup of a job that is now in `final': the session is closed, or left to look
   at without its log.  *)
ClosesSession(j, final) == final = "Finished" /\ j \in AutoClose
CleanedUp(j, final) ==
    IF ClosesSession(j, final) THEN Closed(Target(j))
    ELSE /\ logged' = logged \ Target(j)
         /\ UNCHANGED <<shell, exit, unheard>>

(* fail_job of the runtime: an execution that failed is tried again.  *)
FailedWithRetry(j) ==
    IF j \in Running
    THEN /\ state' = Moved({j}, "Failed")
         /\ retried' = retried \cup ({j} \cap Retries)
         /\ CleanedUp(j, "Failed")
    ELSE UNCHANGED <<jobVars, sessionVars>>

-----------------------------------------------------------------------------
(* Users and the scheduling pass.  *)

Submit(j) ==
    /\ up
    /\ state[j] = "Absent"
    /\ state' = Moved({j}, "Queued")
    /\ UNCHANGED <<retried, launchVars, sessionVars, clockVars, busVars, worldVars>>

(* cancel_job: the write lock is kept from the change of state to the cleanup.  A
   launch has no lock once it was last checked: what is typed in after the Ctrl-C goes on.  *)
Cancel(j) ==
    /\ up
    /\ state' = Moved({j}, "Cancelled")
    /\ \/ /\ state[j] = "Queued"
          /\ UNCHANGED sessionVars
       \/ /\ j \in Running
          /\ Interrupted(Target(j))
          /\ logged' = logged \ Target(j)
    /\ struck' = struck \cup {k \in {j} : launch[k] \in {"create", "type"}}
    /\ UNCHANGED <<retried, launch, clockVars, busVars, worldVars>>

Pass(j) ==
    /\ up
    /\ state[j] = "Queued"
    /\ state' = Moved({j}, "Running")
    /\ launch' = [launch EXCEPT ![j] = "listed"]
    /\ young' = young \cup {j}
    /\ UNCHANGED <<retried, struck, sessionVars, overdue, busVars, worldVars>>

(* trigger_scheduling looks at the job again before it launches it.  *)
Recheck(j) ==
    /\ up
    /\ launch[j] = "listed"
    /\ launch' = [launch EXCEPT ![j] = IF j \in Running THEN "create" ELSE "failed"]
    /\ UNCHANGED <<jobVars, struck, sessionVars, clockVars, busVars, worldVars>>

-----------------------------------------------------------------------------
(* execute, which holds no lock: the session is created and given a second ...  *)
Create(j) ==
    /\ up
    /\ launch[j] = "create"
    /\ \/ /\ shell' = At({j}, "idle")
          /\ launch' = [launch EXCEPT ![j] = "type"]
       \/ /\ LaunchesFail
          /\ launch' = [launch EXCEPT ![j] = "failed"]
          /\ UNCHANGED shell
    /\ UNCHANGED <<jobVars, struck, logged, exit, unheard, clockVars, busVars, worldVars>>

(* ... then its output is piped to the log and the commands are typed.  The caller
   is told when there is no session any more.  *)
Type(j) ==
    /\ up
    /\ launch[j] = "type"
    /\ IF j \in Sessions
       THEN /\ logged' = logged \cup {j}
            /\ shell' = At({j}, "payload")
            /\ launch' = [launch EXCEPT ![j] = "no"]
       ELSE /\ launch' = [launch EXCEPT ![j] = "failed"]
            /\ UNCHANGED <<logged, shell>>
    /\ UNCHANGED <<jobVars, struck, exit, unheard, clockVars, busVars, worldVars>>

(* Step 3 of trigger_scheduling.  *)
SettleLaunch(j) ==
    /\ up
    /\ launch[j] = "failed"
    /\ launch' = [launch EXCEPT ![j] = "no"]
    /\ FailedWithRetry(j)
    /\ UNCHANGED <<struck, clockVars, busVars, worldVars>>

Launch(j) == Recheck(j) \/ Create(j) \/ Type(j) \/ SettleLaunch(j)

-----------------------------------------------------------------------------
(* What runs in a session, and time.  *)

PayloadEnds(j) ==
    /\ shell[j] = "payload"
    /\ Ends({j})
    /\ UNCHANGED <<jobVars, launchVars, logged, clockVars, busVars, worldVars>>

(* What bash does when gcancel --finish fails: the other report.  *)
AfterFinish == "failing"

(* gcancel --finish.  finish_job answers that all is well even when the job has
   left Running, and cleans up.  *)
ReportFinish(j) ==
    /\ shell[j] = "finishing"
    /\ \/ /\ up
          /\ LET final == IF j \in Running THEN "Finished" ELSE state[j]
             IN  /\ state' = Moved({j}, final)
                 /\ IF ClosesSession(j, final) THEN Closed({j})
                    ELSE /\ shell' = At({j}, "idle")
                         /\ logged' = logged \ {j}
                         /\ UNCHANGED <<exit, unheard>>
       \/ /\ ~up
          /\ shell' = At({j}, AfterFinish)
          /\ unheard' = unheard \cup {j}
          /\ UNCHANGED <<state, logged, exit>>
    /\ UNCHANGED <<retried, launchVars, clockVars, busVars, worldVars>>

(* gcancel --fail.  explicit_fail_job never retries.  *)
ReportFail(j) ==
    /\ shell[j] = "failing"
    /\ \/ /\ up
          /\ LET final == IF j \in Running THEN "Failed" ELSE state[j]
             IN  /\ state' = Moved({j}, final)
                 /\ IF ClosesSession(j, final) THEN Closed({j})
                    ELSE /\ shell' = At({j}, "idle")
                         /\ logged' = logged \ {j}
                         /\ UNCHANGED <<exit, unheard>>
       \/ /\ ~up
          /\ shell' = At({j}, "idle")
          /\ unheard' = unheard \cup {j}
          /\ UNCHANGED <<state, logged, exit>>
    /\ UNCHANGED <<retried, launchVars, clockVars, busVars, worldVars>>

(* A launch is over when the startup grace period and the time limit are.  *)
Age(j) ==
    /\ j \in young
    /\ launch[j] = "no"
    /\ young' = young \ {j}
    /\ UNCHANGED <<jobVars, launchVars, sessionVars, overdue, busVars, worldVars>>

Overrun(j) ==
    /\ j \in (Timed \cap Running) \ overdue
    /\ launch[j] = "no"
    /\ overdue' = overdue \cup {j}
    /\ UNCHANGED <<jobVars, launchVars, sessionVars, young, busVars, worldVars>>

-----------------------------------------------------------------------------
(* The monitors.  This executor collects no results (collect_finished).  *)

(* should_check_missing_session_as_zombie.  *)
ToProbe_young == Running \cap young              \* mutant: the test is reversed
ToProbe == Running \ young

NoteRunning ==
    /\ up
    /\ suspects = {}
    /\ ToProbe # {}
    /\ suspects' = ToProbe
    /\ UNCHANGED <<jobVars, launchVars, sessionVars, clockVars, zombies, timeouts, expiring,
                   worldVars>>

(* is_running asks tmux whether the session exists.  *)
Probe(j) ==
    /\ up
    /\ j \in suspects
    /\ suspects' = suspects \ {j}
    /\ zombies' = IF Target(j) = {} THEN zombies \cup {j} ELSE zombies
    /\ UNCHANGED <<jobVars, launchVars, sessionVars, clockVars, timeouts, expiring, worldVars>>

HandleZombie(j) ==
    /\ up
    /\ j \in zombies
    /\ zombies' = zombies \ {j}
    /\ FailedWithRetry(j)
    /\ UNCHANGED <<launchVars, clockVars, suspects, timeouts, expiring, worldVars>>

TimeoutPoll ==
    /\ up
    /\ ~(overdue \cap Running \subseteq timeouts)
    /\ timeouts' = timeouts \cup (overdue \cap Running)
    /\ UNCHANGED <<jobVars, launchVars, sessionVars, clockVars, suspects, zombies, expiring,
                   worldVars>>

(* timeout_handler_task sends Ctrl-C without the lock ...  *)
TimeoutTerminate(j) ==
    /\ up
    /\ expiring = {}
    /\ j \in timeouts
    /\ timeouts' = timeouts \ {j}
    /\ expiring' = {j}
    /\ Interrupted(Target(j))
    /\ UNCHANGED <<jobVars, launchVars, logged, clockVars, suspects, zombies, worldVars>>

(* ... then marks the job.  A timeout is not retried.  *)
TimeoutApply(j) ==
    /\ up
    /\ j \in expiring
    /\ expiring' = {}
    /\ IF j \in Running
       THEN /\ state' = Moved({j}, "Timeout")
            /\ CleanedUp(j, "Timeout")
       ELSE UNCHANGED <<state, sessionVars>>
    /\ UNCHANGED <<retried, launchVars, clockVars, suspects, zombies, timeouts, worldVars>>

-----------------------------------------------------------------------------
(* Users and sessions.  *)

(* gjob attach, and Ctrl-C typed at the payload.  *)
Attach(j) ==
    /\ visits < MaxVisits
    /\ visits' = visits + 1
    /\ shell[j] = "payload"
    /\ Interrupted({j})
    /\ UNCHANGED <<jobVars, launchVars, logged, clockVars, busVars, closing, up, stops>>

(* A session is closed from inside, or by tmux kill-session.  Not while it waits to
   be typed in, where a name that is a prefix would then reach another session: what
   is typed in a session that is at work is not modelled.  *)
CloseTerminal(j) ==
    /\ visits < MaxVisits
    /\ visits' = visits + 1
    /\ j \in Sessions
    /\ launch[j] # "type" \/ Prefix = {}
    /\ Closed({j})
    /\ UNCHANGED <<jobVars, launchVars, clockVars, busVars, closing, up, stops>>

(* gjob close-sessions -a: the sessions there are ...  *)
ListSessions ==
    /\ visits < MaxVisits
    /\ visits' = visits + 1
    /\ closing.phase = "no"
    /\ Sessions # {}
    /\ closing' = [phase |-> "listed", names |-> Sessions]
    /\ UNCHANGED <<jobVars, launchVars, sessionVars, clockVars, busVars, up, stops>>

(* ... but for those of jobs that are running; without an answer it gives up.  *)
Chosen_all == closing.names                      \* mutant: none are excluded
Chosen == closing.names \ Running
ExcludeRunning ==
    /\ closing.phase = "listed"
    /\ closing' = IF up THEN [phase |-> "chosen", names |-> Chosen] ELSE NotClosing
    /\ UNCHANGED <<jobVars, launchVars, sessionVars, clockVars, busVars, up, stops, visits>>

(* gjob close-sessions -j: those of the jobs named that have ended.  *)
ChooseEnded ==
    /\ visits < MaxVisits
    /\ visits' = visits + 1
    /\ closing.phase = "no"
    /\ up
    /\ \E S \in SUBSET {j \in Jobs : state[j] \in Ended} :
          /\ S # {}
          /\ closing' = [phase |-> "chosen", names |-> S]
    /\ UNCHANGED <<jobVars, launchVars, sessionVars, clockVars, busVars, up, stops>>

(* kill_sessions_batch, for the names tmux still lists.  *)
CloseChosen ==
    /\ closing.phase = "chosen"
    /\ closing' = NotClosing
    /\ Closed(closing.names \cap Sessions)
    /\ UNCHANGED <<jobVars, launchVars, clockVars, busVars, up, stops, visits>>

CloseSessions == ListSessions \/ ExcludeRunning \/ ChooseEnded \/ CloseChosen

-----------------------------------------------------------------------------
(* The daemon stops, and what it was doing ends with it; the sessions stay.  In one
   that was created but not typed in nothing will ever happen.  *)
Stop ==
    /\ up
    /\ stops < MaxStops
    /\ stops' = stops + 1
    /\ up' = FALSE
    /\ launch' = [j \in Jobs |-> "no"]
    /\ unheard' = unheard \cup {j \in Jobs : launch[j] = "type"}
    /\ suspects' = {} /\ zombies' = {} /\ timeouts' = {} /\ expiring' = {}
    /\ UNCHANGED <<jobVars, struck, shell, logged, exit, clockVars, closing, visits>>

(* What recovery makes of a running job without a session.  *)
WithoutSession_queued == "Queued"                \* mutant: it is to run again
WithoutSession == "Failed"

(* recover_running_jobs; those that have a session stay Running.  *)
Adopted == {j \in Running : Target(j) # {}}
Restart ==
    /\ ~up
    /\ up' = TRUE
    /\ state' = Moved(Running \ Adopted, WithoutSession)
    /\ retried' = retried \cup ((Running \ Adopted) \cap Retries)
    /\ UNCHANGED <<launchVars, sessionVars, clockVars, busVars, closing, stops, visits>>

-----------------------------------------------------------------------------
Monitors == \/ NoteRunning
            \/ \E j \in Jobs : Probe(j)
TimeoutHandler == \E j \in Jobs : TimeoutTerminate(j) \/ TimeoutApply(j)

Next ==
    \/ \E j \in Jobs : \/ Submit(j) \/ Cancel(j) \/ Pass(j) \/ Launch(j)
                      \/ PayloadEnds(j) \/ ReportFinish(j) \/ ReportFail(j)
                      \/ Age(j) \/ Overrun(j) \/ HandleZombie(j)
                      \/ Attach(j) \/ CloseTerminal(j)
    \/ Monitors \/ TimeoutPoll \/ TimeoutHandler
    \/ CloseSessions \/ Stop \/ Restart

Spec == Init /\ [][Next]_vars

(* The tasks of the daemon and the shells go on, and a daemon that stopped is
   started again.  Nothing is assumed of users and payloads.  *)
Fairness ==
    /\ WF_vars(Monitors) /\ WF_vars(TimeoutPoll) /\ WF_vars(TimeoutHandler)
    /\ WF_vars(Restart)
    /\ \A j \in Jobs : /\ WF_vars(Launch(j)) /\ WF_vars(HandleZombie(j)) /\ WF_vars(Age(j))
                       /\ WF_vars(ReportFinish(j)) /\ WF_vars(ReportFail(j))

FairSpec == Spec /\ Fairness

-----------------------------------------------------------------------------
(* Properties.  *)

(* What is recorded of a job is what its payload did: Finished only when it
   succeeded, and Failed or tried again in spite of a success only when the report
   could not be made - the daemon was away or the session was closed.  *)
OutcomesTrue ==
    \A j \in Jobs :
       /\ state[j] = "Finished" => exit[j] = "ok"
       /\ state[j] = "Failed" /\ exit[j] = "ok" => j \in unheard
       /\ j \in retried => state[j] = "Failed" /\ shell[j] # "payload"

(* A payload does not go on after its job ended, unless it does not mind Ctrl-C or
   its job was cancelled after the launch was last checked: otherwise the resources it
   uses are accounted for.  *)
NoStrayPayload ==
    \A j \in Jobs \ Stubborn : shell[j] = "payload" => j \in Running \cup struck

(* The states of the jobs say what happens and happened in their sessions.  *)
SessionsAccountedFor == TypeOK /\ OutcomesTrue /\ NoStrayPayload

(* gjob close-sessions, without -s, never closes the session of a job that is running:
   "close all completed-job sessions except sessions for currently running jobs"
   (gjob-reference.md).  The sessions are listed before the running jobs are, so a job
   that starts in between is not among them.  *)
CloseSparesRunning ==
    [][closing.phase = "chosen" /\ closing' = NotClosing
          => \A j \in Running : shell'[j] = shell[j]]_vars

(* A job does not stay Running when tmux has no session for its name or its shell is
   reporting, although the daemon stops and starts.  *)
Over(j) == /\ j \in Running
           /\ launch[j] = "no"
           /\ \/ Target(j) = {}
              \/ shell[j] \in Reporting /\ j \notin unheard
EndsNoticed == \A j \in Jobs : []<>~(up /\ Over(j))

(* What the runtime promises of a job with any executor.  *)
Work == [j \in Jobs |-> CASE exit[j] # "none" -> exit[j]
                          [] exit[j] = "none" /\ shell[j] = "payload" -> "running"
                          [] OTHER -> "none"]
Promised == INSTANCE JobRun WITH record <- state, work <- Work
ImplementsJobRun == Promised!Spec

(* What the code does not keep.  *)

(* A job whose payload failed is tried again while it has attempts left: "allow up to
   N automatic resubmissions after execution failure", "retries currently trigger only
   for non-zero exits from Running" (gbatch-reference.md).  *)
FailuresRetried ==
    \A j \in Retries : state[j] = "Failed" /\ exit[j] = "bad" => j \in retried

(* Recovery fails what cannot be told to run, "so resources cannot be stranded forever
   after daemon downtime" (recover_running_jobs).  But a session counts as a run whatever
   its shell does: one that was never typed in, one whose payload ended without a report,
   or that of another job whose name begins with that of this one.  *)
NothingStranded == \A j \in Jobs : []<>~(/\ up /\ j \in Running /\ launch[j] = "no"
                                          /\ shell[j] \in {"none", "idle"})

(* The check before the launch "prevents executing cancelled/held jobs" (event_loop.rs),
   so the payload of a cancelled job does not run, unless it does not mind Ctrl-C.  *)
CancelledPayloadsEnd ==
    \A j \in Jobs \ Stubborn : state[j] = "Cancelled" => shell[j] # "payload"

(* Cancelling or ending one job leaves the payloads of the others alone.  *)
OthersSpared ==
    [][\A j \in Jobs : state'[j] # state[j]
          => \A k \in Jobs \ {j} : shell[k] = "payload" => shell'[k] = "payload"]_vars
=============================================================================
