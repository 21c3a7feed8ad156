------------------------- MODULE TmuxExecutor_proofs -------------------------
(***************************************************************************)
(* Proofs about jobs in tmux sessions, for every set of jobs, with and     *)
(* without time limits, retries, stubborn payloads, prefixes among the     *)
(* session names and launches that fail, and for any number of stops of    *)
(* the daemon and of visits of users.                                      *)
(***************************************************************************)
EXTENDS TmuxExecutor, FiniteSetTheorems, TLAPS

Unstarted == {"Absent", "Queued"}

(* A job is launched at most once: what is being launched has nothing behind it yet
   but, at most, a session nobody typed in, and is in the startup grace period; only
   a cancellation can take it away from Running, and one after the last check is on
   record.  *)
LaunchSound ==
    \A j \in Jobs :
       /\ state[j] \in Unstarted => launch[j] = "no" /\ shell[j] = "none" /\ exit[j] = "none"
       /\ launch[j] # "no" =>
             /\ j \in young
             /\ exit[j] = "none"
             /\ \/ state[j] = "Running"
                \/ /\ state[j] = "Cancelled"
                   /\ launch[j] \in {"create", "type"} => j \in struck
             /\ shell[j] = "none" \/ (launch[j] = "type" /\ shell[j] = "idle")
       /\ ~up => launch[j] = "no"

(* What a shell is about to report is how its payload ended, and the end of a payload
   that succeeded is on its way to the daemon, unless it is known to be lost.  No payload
   goes on after its job failed, not even a stubborn one.  *)
ShellsSound ==
    \A j \in Jobs :
       /\ shell[j] = "payload" => exit[j] = "none"
       /\ shell[j] = "finishing" => exit[j] = "ok"
       /\ shell[j] = "failing" => exit[j] = "bad" \/ j \in unheard
       /\ state[j] = "Failed" => launch[j] = "no" /\ shell[j] # "payload"
       /\ state[j] = "Running" /\ exit[j] = "ok" => shell[j] = "finishing" \/ j \in unheard

(* The monitors and the timeout handler hold no job that is being launched or still
   will be, what is a zombie has no session, and what is about to be marked as timed
   out was told to stop.  *)
MonitorsSound ==
    /\ \A j \in suspects \cup zombies : j \notin young /\ state[j] \notin Unstarted
    /\ \A j \in zombies : shell[j] = "none"
    /\ timeouts \cup expiring \subseteq overdue
    /\ \A j \in overdue : launch[j] = "no" /\ state[j] \notin Unstarted
    /\ \A j \in expiring \ Stubborn : shell[j] # "payload"

(* gjob close-sessions names no job that is still to start, and none that runs once it
   has excluded those.  *)
ClosingSound ==
    /\ closing.phase = "listed" => \A j \in closing.names : state[j] \notin Unstarted
    /\ closing.phase = "chosen" => \A j \in closing.names : state[j] \in Ended

IInv == /\ TypeOK
        /\ LaunchSound
        /\ ShellsSound
        /\ MonitorsSound
        /\ ClosingSound
        /\ OutcomesTrue
        /\ NoStrayPayload
-----------------------------------------------------------------------------
(* A command with the name of a job reaches at most one session, and the job's own if
   there is one.  *)
LEMMA OneTarget ==
    ASSUME NEW j \in Jobs
    PROVE  /\ Target(j) \subseteq Sessions
           /\ j \in Sessions => Target(j) = {j}
           /\ Target(j) = {} \/ \E k \in Sessions : Target(j) = {k}
<1>. DEFINE Others == {k \in Sessions : <<j, k>> \in Prefix}
<1>1. IsFiniteSet(Others)
  BY TmuxAssumption, FS_Subset DEF Sessions
<1>2. Cardinality(Others) = 1 => \E k \in Sessions : Others = {k}
  BY <1>1, FS_Singleton
<1>3. CASE j \in Sessions
  BY <1>3 DEF Target
<1>4. CASE j \notin Sessions /\ Cardinality(Others) = 1
  BY <1>2, <1>4 DEF Target
<1>5. CASE j \notin Sessions /\ Cardinality(Others) # 1
  BY <1>5 DEF Target
<1>. QED
  BY <1>3, <1>4, <1>5

-----------------------------------------------------------------------------
(* What closing a session, a Ctrl-C or the cleanup of a job does to session k: nothing;
   or its payload dies and its report, if it was making one, is lost; or its payload
   ends and the shell goes on to the report that fits, or to none.  *)
Untouched(k) == shell'[k] = shell[k] /\ exit'[k] = exit[k]
BroughtDown(k) == /\ shell[k] # "none" /\ shell'[k] \in {"none", "idle"}
                  /\ exit'[k] = IF shell[k] = "payload" THEN "bad" ELSE exit[k]
                  /\ shell[k] \in Reporting => k \in unheard'
EndedItself(k) == /\ shell[k] = "payload" /\ exit'[k] \in {"ok", "bad"}
                  /\ \/ shell'[k] = ReportOf(exit'[k])
                     \/ shell'[k] = "idle" /\ k \in unheard'

SessionsFollow ==
    /\ shell' \in [Jobs -> Shells]
    /\ exit' \in [Jobs -> {"none", "ok", "bad"}]
    /\ unheard \subseteq unheard' /\ unheard' \subseteq Jobs
    /\ \A k \in Jobs : Untouched(k) \/ BroughtDown(k) \/ EndedItself(k)

(* kill_session, for any sessions: the payloads and reports in them die, no other does.  *)
LEMMA ClosedFollows ==
    ASSUME TypeOK, NEW S \in SUBSET Sessions, Closed(S)
    PROVE  /\ SessionsFollow
           /\ logged' \subseteq Sessions'
           /\ \A k \in Jobs \ S : shell'[k] = shell[k]
           /\ \A k \in S : shell'[k] = "none"
<1>. USE DEF TypeOK, Closed, At, Died, Cut, Sessions, Shells, Reporting
<1>1. S \subseteq Jobs
  OBVIOUS
<1>2. /\ shell' \in [Jobs -> Shells]
      /\ exit' \in [Jobs -> {"none", "ok", "bad"}]
      /\ unheard \subseteq unheard' /\ unheard' \subseteq Jobs
  BY <1>1
<1>3. \A k \in Jobs : Untouched(k) \/ BroughtDown(k)
  BY DEF Untouched, BroughtDown
<1>. QED
  BY <1>1, <1>2, <1>3 DEF SessionsFollow

(* A payload that ends by itself: the shell reports it or waits, and none is running.  *)
LEMMA EndsFollows ==
    ASSUME TypeOK, NEW S \in SUBSET Sessions, Ends(S), \A k \in S : shell[k] = "payload"
    PROVE  /\ SessionsFollow
           /\ Sessions' = Sessions
           /\ \A k \in Jobs \ S : shell'[k] = shell[k]
           /\ \A k \in S : shell'[k] # "payload"
           /\ \A k \in Jobs : shell'[k] = "payload" => shell[k] = "payload"
<1>. USE DEF TypeOK, At, Sessions, Shells, Reporting
<1>1. PICK r \in {"ok", "bad"}, what \in Shells :
         /\ exit' = [k \in Jobs |-> IF k \in S THEN r ELSE exit[k]]
         /\ shell' = At(S, what)
         /\ \/ what = ReportOf(r) /\ unheard' = unheard
            \/ what = "idle" /\ unheard' = unheard \cup S
  <2>1. PICK r \in {"ok", "bad"} :
           /\ exit' = [k \in Jobs |-> IF k \in S THEN r ELSE exit[k]]
           /\ \/ shell' = At(S, ReportOf(r)) /\ unheard' = unheard
              \/ shell' = At(S, "idle") /\ unheard' = unheard \cup S
    BY DEF Ends
  <2>2. ReportOf(r) \in Shells /\ "idle" \in Shells
    BY DEF ReportOf
  <2>. QED BY <2>1, <2>2
<1>2. what \in Reporting \cup {"idle"} /\ S \subseteq Jobs
  BY <1>1 DEF ReportOf
<1>3. /\ shell' \in [Jobs -> Shells]
      /\ exit' \in [Jobs -> {"none", "ok", "bad"}]
      /\ unheard \subseteq unheard' /\ unheard' \subseteq Jobs
  BY <1>1, <1>2
<1>4. ASSUME NEW k \in S PROVE EndedItself(k)
  <2>1. exit'[k] = r /\ shell'[k] = what /\ k \in Jobs
    BY <1>1, <1>2
  <2>2. what = ReportOf(r) \/ (what = "idle" /\ k \in unheard')
    BY <1>1
  <2>. QED BY <2>1, <2>2 DEF EndedItself
<1>5. \A k \in Jobs \ S : Untouched(k)
  BY <1>1 DEF Untouched
<1>. QED BY <1>1, <1>2, <1>3, <1>4, <1>5 DEF SessionsFollow, EndedItself

(* Ctrl-C, typed in at most one session: no payload is running there afterwards unless it
   is a stubborn one, and no session comes or goes.  *)
LEMMA InterruptedFollows ==
    ASSUME TypeOK, NEW S \in SUBSET Sessions, Interrupted(S),
           S = {} \/ \E k \in Sessions : S = {k}
    PROVE  /\ SessionsFollow
           /\ Sessions' = Sessions
           /\ \A k \in Jobs \ S : shell'[k] = shell[k]
           /\ \A k \in S \ Stubborn : shell'[k] # "payload"
           /\ \A k \in Jobs : shell'[k] = "payload" => shell[k] = "payload"
<1>. USE DEF TypeOK, At, Died, Cut, Sessions, Shells, Reporting
<1>1. CASE /\ \A k \in S : shell[k] \in {"none", "idle"} \cup Reporting \/ k \in Stubborn
           /\ UNCHANGED <<shell, exit, unheard>>
  BY <1>1 DEF SessionsFollow, Untouched
<1>2. CASE /\ shell' = At(S, "idle")
           /\ exit' = Died(S)
           /\ unheard' = Cut(S)
  <2>1. /\ shell' \in [Jobs -> Shells]
        /\ exit' \in [Jobs -> {"none", "ok", "bad"}]
        /\ unheard \subseteq unheard' /\ unheard' \subseteq Jobs
    BY <1>2
  <2>2. \A k \in Jobs : Untouched(k) \/ BroughtDown(k)
    BY <1>2 DEF Untouched, BroughtDown
  <2>. QED BY <1>2, <2>1, <2>2 DEF SessionsFollow
<1>3. CASE (\E k \in S : shell[k] = "payload" /\ k \notin Stubborn) /\ Ends(S)
  <2>1. \A k \in S : shell[k] = "payload"
    BY <1>3
  <2>. QED BY <1>3, <2>1, EndsFollows
<1>. QED
  BY <1>1, <1>2, <1>3 DEF Interrupted

(* The cleanup of a job leaves every shell alone or closes its session.  *)
LEMMA CleanedUpFollows ==
    ASSUME TypeOK, NEW j \in Jobs, NEW final, CleanedUp(j, final)
    PROVE  /\ SessionsFollow
           /\ logged' \subseteq Sessions'
           /\ \A k \in Jobs : shell'[k] = shell[k] \/ shell'[k] = "none"
<1>1. CASE ClosesSession(j, final)
  BY <1>1, OneTarget, ClosedFollows DEF CleanedUp, TypeOK, Sessions
<1>2. CASE ~ClosesSession(j, final)
  <2>1. logged' = logged \ Target(j) /\ UNCHANGED <<shell, exit, unheard>>
    BY <1>2 DEF CleanedUp
  <2>. QED BY <2>1 DEF SessionsFollow, Untouched, TypeOK, Sessions
<1>. QED
  BY <1>1, <1>2

(* The invariant holds at the start.  *)
LEMMA InitInvariant == Init => IInv
<1>. SUFFICES ASSUME Init PROVE IInv
  OBVIOUS
<1>1. TypeOK
  BY TmuxAssumption DEF Init, TypeOK, States, Launches, Shells, Sessions, NotClosing
<1>. QED
  BY <1>1 DEF Init, IInv, LaunchSound, ShellsSound, MonitorsSound, ClosingSound, OutcomesTrue,
              NoStrayPayload, Unstarted, NotClosing, Ended

(* Every action keeps the type invariant ...  *)
LEMMA NextType == TypeOK /\ [Next]_vars => TypeOK'
<1>. SUFFICES ASSUME TypeOK, [Next]_vars PROVE TypeOK'
  OBVIOUS
<1>. USE DEF jobVars, launchVars, sessionVars, clockVars, busVars, worldVars,
             TypeOK, Running, Sessions, Moved, At, States, Launches, Shells, Reporting, Ended,
             NotClosing
<1>1. ASSUME NEW j \in Jobs, Submit(j) PROVE TypeOK'
  BY <1>1 DEF Submit
<1>2. ASSUME NEW j \in Jobs, Cancel(j) PROVE TypeOK'
  <2>1. CASE state[j] = "Queued" /\ UNCHANGED sessionVars
    BY <1>2, <2>1 DEF Cancel
  <2>2. CASE j \in Running /\ Interrupted(Target(j)) /\ logged' = logged \ Target(j)
    BY <1>2, <2>2, OneTarget, InterruptedFollows DEF Cancel, SessionsFollow
  <2>. QED BY <1>2, <2>1, <2>2 DEF Cancel
<1>3. ASSUME NEW j \in Jobs, Pass(j) PROVE TypeOK'
  BY <1>3 DEF Pass
<1>4. ASSUME NEW j \in Jobs, Recheck(j) PROVE TypeOK'
  BY <1>4 DEF Recheck
<1>5. ASSUME NEW j \in Jobs, Create(j) PROVE TypeOK'
  BY <1>5 DEF Create
<1>6. ASSUME NEW j \in Jobs, Type(j) PROVE TypeOK'
  BY <1>6 DEF Type
<1>7. ASSUME NEW j \in Jobs, SettleLaunch(j) PROVE TypeOK'
  BY <1>7, CleanedUpFollows DEF SettleLaunch, FailedWithRetry, SessionsFollow
<1>8. ASSUME NEW j \in Jobs, PayloadEnds(j) PROVE TypeOK'
  BY <1>8, EndsFollows DEF PayloadEnds, SessionsFollow
<1>9. ASSUME NEW j \in Jobs, ReportFinish(j) PROVE TypeOK'
  BY <1>9, ClosedFollows DEF ReportFinish, SessionsFollow, AfterFinish
<1>10. ASSUME NEW j \in Jobs, ReportFail(j) PROVE TypeOK'
  BY <1>10, ClosedFollows DEF ReportFail, SessionsFollow
<1>11. ASSUME NEW j \in Jobs, Age(j) PROVE TypeOK'
  BY <1>11 DEF Age
<1>12. ASSUME NEW j \in Jobs, Overrun(j) PROVE TypeOK'
  BY <1>12 DEF Overrun
<1>13. ASSUME NEW j \in Jobs, HandleZombie(j) PROVE TypeOK'
  BY <1>13, CleanedUpFollows DEF HandleZombie, FailedWithRetry, SessionsFollow
<1>14. ASSUME NEW j \in Jobs, Attach(j) PROVE TypeOK'
  BY <1>14, TmuxAssumption, InterruptedFollows DEF Attach, SessionsFollow
<1>15. ASSUME NEW j \in Jobs, CloseTerminal(j) PROVE TypeOK'
  BY <1>15, TmuxAssumption, ClosedFollows DEF CloseTerminal, SessionsFollow
<1>16. CASE NoteRunning
  BY <1>16 DEF NoteRunning, ToProbe
<1>17. ASSUME NEW j \in Jobs, Probe(j) PROVE TypeOK'
  BY <1>17 DEF Probe
<1>18. CASE TimeoutPoll
  BY <1>18 DEF TimeoutPoll
<1>19. ASSUME NEW j \in Jobs, TimeoutTerminate(j) PROVE TypeOK'
  BY <1>19, OneTarget, InterruptedFollows DEF TimeoutTerminate, SessionsFollow
<1>20. ASSUME NEW j \in Jobs, TimeoutApply(j) PROVE TypeOK'
  BY <1>20, CleanedUpFollows DEF TimeoutApply, SessionsFollow
<1>21. CASE ListSessions
  BY <1>21, TmuxAssumption DEF ListSessions
<1>22. CASE ExcludeRunning
  BY <1>22 DEF ExcludeRunning, Chosen
<1>23. CASE ChooseEnded
  BY <1>23, TmuxAssumption DEF ChooseEnded
<1>24. CASE CloseChosen
  BY <1>24, ClosedFollows DEF CloseChosen, SessionsFollow
<1>25. CASE Stop
  <2>1. stops' \in 0 .. MaxStops
    BY <1>25, TmuxAssumption DEF Stop
  <2>. QED BY <1>25, <2>1 DEF Stop
<1>26. CASE Restart
  BY <1>26 DEF Restart, Adopted, WithoutSession
<1>27. CASE UNCHANGED vars
  BY <1>27 DEF vars
<1>. QED
  BY <1>1, <1>2, <1>3, <1>4, <1>5, <1>6, <1>7, <1>8, <1>9, <1>10, <1>11, <1>12, <1>13, <1>14,
     <1>15, <1>16, <1>17, <1>18, <1>19, <1>20, <1>21, <1>22, <1>23, <1>24, <1>25, <1>26, <1>27
     DEF Next, Launch, Monitors, TimeoutHandler, CloseSessions

(* ... and the whole invariant.  *)
LEMMA StepInvariant == IInv /\ [Next]_vars => IInv'
<1>. SUFFICES ASSUME IInv, [Next]_vars PROVE IInv'
  OBVIOUS
<1>. USE DEF jobVars, launchVars, sessionVars, clockVars, busVars, worldVars,
             IInv, LaunchSound, ShellsSound, MonitorsSound, ClosingSound, OutcomesTrue,
             NoStrayPayload, TypeOK, Unstarted, Running, Sessions, Moved, At, States, Launches,
             Shells, Reporting, Ended, NotClosing, SessionsFollow, Untouched, BroughtDown,
             EndedItself, ReportOf
<1>1. ASSUME NEW j \in Jobs, Submit(j) PROVE IInv'
  BY <1>1 DEF Submit
<1>2. ASSUME NEW j \in Jobs, Cancel(j) PROVE IInv'
  <2>1. TypeOK'
    BY NextType
  <2>2. LaunchSound'
    BY <1>2, OneTarget, InterruptedFollows DEF Cancel
  <2>3. ShellsSound'
    BY <1>2, OneTarget, InterruptedFollows DEF Cancel
  <2>4. MonitorsSound'
    BY <1>2, OneTarget, InterruptedFollows DEF Cancel
  <2>5. ClosingSound'
    BY <1>2, OneTarget, InterruptedFollows DEF Cancel
  <2>6. OutcomesTrue'
    BY <1>2, OneTarget, InterruptedFollows DEF Cancel
  <2>7. NoStrayPayload'
    BY <1>2, OneTarget, InterruptedFollows DEF Cancel
  <2>. QED BY <2>1, <2>2, <2>3, <2>4, <2>5, <2>6, <2>7
<1>3. ASSUME NEW j \in Jobs, Pass(j) PROVE IInv'
  BY <1>3 DEF Pass
<1>4. ASSUME NEW j \in Jobs, Recheck(j) PROVE IInv'
  BY <1>4 DEF Recheck
<1>5. ASSUME NEW j \in Jobs, Create(j) PROVE IInv'
  BY <1>5 DEF Create
<1>6. ASSUME NEW j \in Jobs, Type(j) PROVE IInv'
  BY <1>6 DEF Type
<1>7. ASSUME NEW j \in Jobs, SettleLaunch(j) PROVE IInv'
  BY <1>7, NextType, CleanedUpFollows DEF SettleLaunch, FailedWithRetry
<1>8. ASSUME NEW j \in Jobs, PayloadEnds(j) PROVE IInv'
  <2>1. TypeOK'
    BY NextType
  <2>2. LaunchSound'
    BY <1>8, EndsFollows DEF PayloadEnds
  <2>3. ShellsSound'
    BY <1>8, EndsFollows DEF PayloadEnds
  <2>4. MonitorsSound'
    BY <1>8, EndsFollows DEF PayloadEnds
  <2>5. ClosingSound'
    BY <1>8, EndsFollows DEF PayloadEnds
  <2>6. OutcomesTrue'
    BY <1>8, EndsFollows DEF PayloadEnds
  <2>7. NoStrayPayload'
    BY <1>8, EndsFollows DEF PayloadEnds
  <2>. QED BY <2>1, <2>2, <2>3, <2>4, <2>5, <2>6, <2>7
<1>9. ASSUME NEW j \in Jobs, ReportFinish(j) PROVE IInv'
  BY <1>9, ClosedFollows DEF ReportFinish, AfterFinish, ClosesSession
<1>10. ASSUME NEW j \in Jobs, ReportFail(j) PROVE IInv'
  BY <1>10, ClosedFollows DEF ReportFail, ClosesSession
<1>11. ASSUME NEW j \in Jobs, Age(j) PROVE IInv'
  BY <1>11 DEF Age
<1>12. ASSUME NEW j \in Jobs, Overrun(j) PROVE IInv'
  BY <1>12 DEF Overrun
<1>13. ASSUME NEW j \in Jobs, HandleZombie(j) PROVE IInv'
  BY <1>13, NextType, CleanedUpFollows DEF HandleZombie, FailedWithRetry
<1>14. ASSUME NEW j \in Jobs, Attach(j) PROVE IInv'
  <2>1. TypeOK'
    BY NextType
  <2>2. LaunchSound'
    BY <1>14, InterruptedFollows DEF Attach
  <2>3. ShellsSound'
    BY <1>14, InterruptedFollows DEF Attach
  <2>4. MonitorsSound'
    BY <1>14, InterruptedFollows DEF Attach
  <2>5. ClosingSound'
    BY <1>14, InterruptedFollows DEF Attach
  <2>6. OutcomesTrue'
    BY <1>14, InterruptedFollows DEF Attach
  <2>7. NoStrayPayload'
    BY <1>14, InterruptedFollows DEF Attach
  <2>. QED BY <2>1, <2>2, <2>3, <2>4, <2>5, <2>6, <2>7
<1>15. ASSUME NEW j \in Jobs, CloseTerminal(j) PROVE IInv'
  BY <1>15, NextType, ClosedFollows DEF CloseTerminal
<1>16. CASE NoteRunning
  BY <1>16 DEF NoteRunning, ToProbe
<1>17. ASSUME NEW j \in Jobs, Probe(j) PROVE IInv'
  BY <1>17, OneTarget DEF Probe
<1>18. CASE TimeoutPoll
  BY <1>18 DEF TimeoutPoll
<1>19. ASSUME NEW j \in Jobs, TimeoutTerminate(j) PROVE IInv'
  <2>1. TypeOK'
    BY NextType
  <2>2. LaunchSound'
    BY <1>19, OneTarget, InterruptedFollows DEF TimeoutTerminate
  <2>3. ShellsSound'
    BY <1>19, OneTarget, InterruptedFollows DEF TimeoutTerminate
  <2>4. MonitorsSound'
    BY <1>19, OneTarget, InterruptedFollows DEF TimeoutTerminate
  <2>5. ClosingSound'
    BY <1>19, OneTarget, InterruptedFollows DEF TimeoutTerminate
  <2>6. OutcomesTrue'
    BY <1>19, OneTarget, InterruptedFollows DEF TimeoutTerminate
  <2>7. NoStrayPayload'
    BY <1>19, OneTarget, InterruptedFollows DEF TimeoutTerminate
  <2>. QED BY <2>1, <2>2, <2>3, <2>4, <2>5, <2>6, <2>7
<1>20. ASSUME NEW j \in Jobs, TimeoutApply(j) PROVE IInv'
  BY <1>20, CleanedUpFollows DEF TimeoutApply
<1>21. CASE ListSessions
  BY <1>21, NextType DEF ListSessions
<1>22. CASE ExcludeRunning
  BY <1>22 DEF ExcludeRunning, Chosen
<1>23. CASE ChooseEnded
  BY <1>23, NextType DEF ChooseEnded
<1>24. CASE CloseChosen
  BY <1>24, ClosedFollows DEF CloseChosen
<1>25. CASE Stop
  BY <1>25, NextType DEF Stop
<1>26. CASE Restart
  <2>1. TypeOK'
    BY NextType
  <2>2. LaunchSound'
    BY <1>26, OneTarget DEF Restart, Adopted, WithoutSession
  <2>3. ShellsSound'
    BY <1>26, OneTarget DEF Restart, Adopted, WithoutSession
  <2>4. MonitorsSound'
    BY <1>26, OneTarget DEF Restart, Adopted, WithoutSession
  <2>5. ClosingSound'
    BY <1>26, OneTarget DEF Restart, Adopted, WithoutSession
  <2>6. OutcomesTrue'
    BY <1>26, OneTarget DEF Restart, Adopted, WithoutSession
  <2>7. NoStrayPayload'
    BY <1>26, OneTarget DEF Restart, Adopted, WithoutSession
  <2>. QED BY <2>1, <2>2, <2>3, <2>4, <2>5, <2>6, <2>7
<1>27. CASE UNCHANGED vars
  BY <1>27 DEF vars
<1>. QED
  BY <1>1, <1>2, <1>3, <1>4, <1>5, <1>6, <1>7, <1>8, <1>9, <1>10, <1>11, <1>12, <1>13, <1>14,
     <1>15, <1>16, <1>17, <1>18, <1>19, <1>20, <1>21, <1>22, <1>23, <1>24, <1>25, <1>26, <1>27
     DEF Next, Launch, Monitors, TimeoutHandler, CloseSessions

(* The invariant holds in every state of every behaviour.  *)
LEMMA Inductive == Spec => []IInv
<1>. QED
  BY InitInvariant, StepInvariant, PTL DEF Spec

(* The states of jobs, launches and shells always have their types.  *)
THEOREM TypeCorrect == Spec => []TypeOK
<1>. QED
  BY InitInvariant, NextType, PTL DEF Spec, IInv

(* Whatever users do to sessions, whatever the daemon misses and whoever cancels when:
   a job is Finished only if its payload succeeded, it fails in spite of a success only
   if the report could not be made, and it is tried again only after it failed.  *)
THEOREM Outcomes == Spec => []OutcomesTrue
<1>1. IInv => OutcomesTrue
  BY DEF IInv
<1>. QED
  BY <1>1, Inductive, PTL

(* No payload goes on after its job ended either, but those that do not mind Ctrl-C and
   those whose job was cancelled after the last check of the launch.  *)
THEOREM Accounted == Spec => []SessionsAccountedFor
<1>1. IInv => SessionsAccountedFor
  BY DEF IInv, SessionsAccountedFor
<1>. QED
  BY <1>1, Inductive, PTL

(* gjob close-sessions does not close the session of a job that is running: what it
   read from tmux and what it read from the daemon are of different moments, but what
   has ended by the second will not run again.  *)
THEOREM ClosingSpares == Spec => CloseSparesRunning
<1>1. IInv /\ [Next]_vars
         => [closing.phase = "chosen" /\ closing' = NotClosing
               => \A j \in Running : shell'[j] = shell[j]]_vars
  <2>. SUFFICES ASSUME IInv, Next, closing.phase = "chosen", closing' = NotClosing
                PROVE  \A j \in Running : shell'[j] = shell[j]
    BY DEF vars
  <2>1. CloseChosen
    <3>1. closing' # closing
      BY DEF NotClosing
    <3>. QED
      BY <3>1 DEF Next, CloseSessions, Launch, Monitors, TimeoutHandler, worldVars, Submit,
                  Cancel, Pass, Recheck, Create, Type, SettleLaunch, PayloadEnds, ReportFinish,
                  ReportFail, Age, Overrun, HandleZombie, Attach, CloseTerminal, NoteRunning,
                  Probe, TimeoutPoll, TimeoutTerminate, TimeoutApply, ListSessions,
                  ExcludeRunning, ChooseEnded, Stop, Restart
  <2>2. closing.names \cap Sessions \cap Running = {}
    BY DEF IInv, ClosingSound, Running, Ended
  <2>. QED
    BY <2>1, <2>2 DEF CloseChosen, Closed, At, Running
<1>. QED
  BY <1>1, Inductive, PTL DEF CloseSparesRunning, Spec

-----------------------------------------------------------------------------
(* The executor implements what the daemon promises of a job, whatever executor runs it
   (JobRun): the record is the state of the job, and the work is what its shell and the
   history say of its payload.  In every step the record of a job moves forward, if it
   moves, and is Finished only after a success ...  *)
Forward(k) ==
    \/ state'[k] = state[k]
    \/ state[k] = "Absent" /\ state'[k] = "Queued"
    \/ state[k] = "Queued" /\ state'[k] \in {"Running", "Cancelled"}
    \/ /\ state[k] = "Running"
       /\ state'[k] \in Ended
       /\ state'[k] = "Finished" => exit[k] = "ok"

(* ... and the payload begins once, when the job has been started, or ends.  *)
PayloadMoves(k) ==
    \/ exit'[k] = exit[k] /\ (shell'[k] = "payload" <=> shell[k] = "payload")
    \/ /\ exit[k] = "none" /\ shell[k] # "payload" /\ state[k] \notin Unstarted
       /\ exit'[k] = "none" /\ shell'[k] = "payload"
    \/ exit[k] = "none" /\ shell[k] = "payload" /\ exit'[k] \in {"ok", "bad"}

JobsMove == \A k \in Jobs : Forward(k) /\ PayloadMoves(k)

(* Action by action.  *)
LEMMA JobMoves == IInv /\ [Next]_vars => JobsMove
<1>. SUFFICES ASSUME IInv, [Next]_vars PROVE JobsMove
  OBVIOUS
<1>. USE DEF jobVars, launchVars, sessionVars, clockVars, busVars, worldVars,
             IInv, TypeOK, LaunchSound, ShellsSound, MonitorsSound, Unstarted,
             Running, Sessions, Moved, At, Ended, JobsMove, Forward, PayloadMoves,
             SessionsFollow, Untouched, BroughtDown, EndedItself
<1>1. ASSUME NEW j \in Jobs, Submit(j) PROVE JobsMove
  BY <1>1 DEF Submit
<1>2. ASSUME NEW j \in Jobs, Cancel(j) PROVE JobsMove
  <2>1. CASE state[j] = "Queued" /\ UNCHANGED sessionVars
    BY <1>2, <2>1 DEF Cancel
  <2>2. CASE j \in Running /\ Interrupted(Target(j)) /\ logged' = logged \ Target(j)
    BY <1>2, <2>2, OneTarget, InterruptedFollows DEF Cancel
  <2>. QED BY <1>2, <2>1, <2>2 DEF Cancel
<1>3. ASSUME NEW j \in Jobs, Pass(j) PROVE JobsMove
  BY <1>3 DEF Pass
<1>4. ASSUME NEW j \in Jobs, Recheck(j) PROVE JobsMove
  BY <1>4 DEF Recheck
<1>5. ASSUME NEW j \in Jobs, Create(j) PROVE JobsMove
  BY <1>5 DEF Create
<1>6. ASSUME NEW j \in Jobs, Type(j) PROVE JobsMove
  BY <1>6 DEF Type
<1>7. ASSUME NEW j \in Jobs, SettleLaunch(j) PROVE JobsMove
  BY <1>7, CleanedUpFollows DEF SettleLaunch, FailedWithRetry
<1>8. ASSUME NEW j \in Jobs, PayloadEnds(j) PROVE JobsMove
  BY <1>8, EndsFollows DEF PayloadEnds
<1>9. ASSUME NEW j \in Jobs, ReportFinish(j) PROVE JobsMove
  BY <1>9, ClosedFollows DEF ReportFinish, AfterFinish
<1>10. ASSUME NEW j \in Jobs, ReportFail(j) PROVE JobsMove
  BY <1>10, ClosedFollows DEF ReportFail
<1>11. ASSUME NEW j \in Jobs, Age(j) PROVE JobsMove
  BY <1>11 DEF Age
<1>12. ASSUME NEW j \in Jobs, Overrun(j) PROVE JobsMove
  BY <1>12 DEF Overrun
<1>13. ASSUME NEW j \in Jobs, HandleZombie(j) PROVE JobsMove
  BY <1>13, CleanedUpFollows DEF HandleZombie, FailedWithRetry
<1>14. ASSUME NEW j \in Jobs, Attach(j) PROVE JobsMove
  BY <1>14, InterruptedFollows DEF Attach
<1>15. ASSUME NEW j \in Jobs, CloseTerminal(j) PROVE JobsMove
  BY <1>15, ClosedFollows DEF CloseTerminal
<1>16. CASE NoteRunning
  BY <1>16 DEF NoteRunning
<1>17. ASSUME NEW j \in Jobs, Probe(j) PROVE JobsMove
  BY <1>17 DEF Probe
<1>18. CASE TimeoutPoll
  BY <1>18 DEF TimeoutPoll
<1>19. ASSUME NEW j \in Jobs, TimeoutTerminate(j) PROVE JobsMove
  BY <1>19, OneTarget, InterruptedFollows DEF TimeoutTerminate
<1>20. ASSUME NEW j \in Jobs, TimeoutApply(j) PROVE JobsMove
  BY <1>20, CleanedUpFollows DEF TimeoutApply
<1>21. CASE ListSessions
  BY <1>21 DEF ListSessions
<1>22. CASE ExcludeRunning
  BY <1>22 DEF ExcludeRunning
<1>23. CASE ChooseEnded
  BY <1>23 DEF ChooseEnded
<1>24. CASE CloseChosen
  BY <1>24, ClosedFollows DEF CloseChosen
<1>25. CASE Stop
  BY <1>25 DEF Stop
<1>26. CASE Restart
  BY <1>26, OneTarget DEF Restart, Adopted, WithoutSession
<1>27. CASE UNCHANGED vars
  BY <1>27 DEF vars
<1>. QED
  BY <1>1, <1>2, <1>3, <1>4, <1>5, <1>6, <1>7, <1>8, <1>9, <1>10, <1>11, <1>12, <1>13, <1>14,
     <1>15, <1>16, <1>17, <1>18, <1>19, <1>20, <1>21, <1>22, <1>23, <1>24, <1>25, <1>26, <1>27
     DEF Next, Launch, Monitors, TimeoutHandler, CloseSessions

(* Initial states map to initial states, and steps to steps or stutters.  *)
LEMMA RunInit == Init => Promised!Init
BY DEF Init, Promised!Init, Work

(* Every step is a step of the contract or none.  *)
LEMMA RunStep == IInv /\ [Next]_vars => [Promised!Next]_(Promised!vars)
<1>. SUFFICES ASSUME IInv, [Next]_vars PROVE Promised!Next
  OBVIOUS
<1>. USE DEF Promised!Recorded, Promised!Unstarted, Promised!Ended
<1>1. TypeOK /\ TypeOK'
  BY StepInvariant DEF IInv
<1>2. state' \in [Jobs -> Promised!Recorded]
  BY <1>1 DEF TypeOK, States, Ended
<1>3. Work' \in [Jobs -> {"none", "running", "ok", "bad"}]
  BY <1>1 DEF TypeOK, Work
<1>4. /\ Promised!Later["Absent"] = Promised!Recorded \ {"Absent"}
      /\ Promised!Later["Queued"] = {"Running"} \cup Promised!Ended
      /\ Promised!Later["Running"] = Promised!Ended
  BY DEF Promised!Later
<1>. SUFFICES ASSUME NEW k \in Jobs
              PROVE  /\ Promised!Advance(k) \/ state'[k] = state[k]
                     /\ Promised!Begin(k) \/ Promised!End(k) \/ Work'[k] = Work[k]
  BY <1>2, <1>3 DEF Promised!Next
<1>5. Forward(k) /\ PayloadMoves(k)
  BY JobMoves DEF JobsMove
<1>6. Promised!Advance(k) \/ state'[k] = state[k]
  BY <1>4, <1>5 DEF Forward, Promised!Advance, Work, Ended
<1>7. Promised!Begin(k) \/ Promised!End(k) \/ Work'[k] = Work[k]
  BY <1>1, <1>5 DEF PayloadMoves, Promised!Begin, Promised!End, Work, TypeOK, States, Unstarted
<1>. QED
  BY <1>6, <1>7

(* Whatever happens to sessions, reports and the daemon: the record of a job only moves
   forward, its payload is started once and only after the job is recorded as started,
   and it is recorded as Finished only if the payload succeeded.  *)
THEOREM Refinement == Spec => ImplementsJobRun
<1>. QED
  BY RunInit, RunStep, Inductive, PTL DEF Spec, ImplementsJobRun, Promised!Spec
=============================================================================
