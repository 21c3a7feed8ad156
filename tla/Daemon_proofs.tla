---------------------------- MODULE Daemon_proofs ----------------------------
(***************************************************************************)
(* Proofs about the daemon, for every set of jobs and every family of      *)
(* setups: any begin times, time limits, capacities, failures of launches, *)
(* overflows of channels and crashes.  That saves of the state file succeed *)
(* is assumed where a theorem says so: what the daemon promises across a   *)
(* crash rests on the file.                                                *)
(***************************************************************************)
EXTENDS Daemon, FiniteSetTheorems, SequenceTheorems, TLAPS

Unstarted == {"Absent", "Queued"}

SavesSucceed == \A u \in DOMAIN Setups : Setups[u].savesFail = FALSE

(* What caller t of trigger_scheduling has claimed: jobs a pass of its started, until
   they are launched or failed.  *)
Claims(t) == list[t] \cup failed[t] \cup ({current[t]} \ {NoJob})

(* A caller holds jobs in the phases where it has a use for them and only ones that have
   been started, no job is held twice or by two callers, and a daemon that is down holds
   none.  *)
CallersSound ==
    /\ \A t \in Callers :
          /\ phase[t] \in {"idle", "pass"} => Claims(t) = {}
          /\ phase[t] = "save" => failed[t] = {}
          /\ current[t] # NoJob <=> phase[t] \in {"execute", "record"}
          /\ list[t] \cap failed[t] = {}
          /\ current[t] \notin list[t] \cup failed[t]
          /\ \A j \in Claims(t) : state[j] \notin Unstarted
          /\ ~up => phase[t] = "idle"
    /\ \A t, u \in Callers : t # u => Claims(t) \cap Claims(u) = {}

(* A job that is claimed has no runner anybody could find, and none at all before it is
   executed; nor has one that is not started yet.  *)
ClaimsFresh ==
    /\ \A t \in Callers :
          /\ Claims(t) \cap meta = {}
          /\ \A j \in list[t] : runner[j] = "none"
          /\ phase[t] = "execute" => runner[current[t]] = "none"
          /\ phase[t] = "record" => runner[current[t]] \in {"alive", "gone"}
          /\ \A j \in failed[t] : runner[j] \in {"none", "gone"}
    /\ \A j \in Jobs : state[j] \in Unstarted => runner[j] = "none"

(* Runner files and events say how the payload ended, and it ends once.  *)
ResultsTrue ==
    /\ \A j \in Jobs :
          /\ outcome[j] # "none" => runner[j] = "gone"
          /\ runner[j] = "none" => j \notin meta
          /\ result[j] # "none" => outcome[j] = result[j]
    /\ \A i \in DOMAIN results :
          results[i].is # "lost" => outcome[results[i].job] = results[i].is

Core == ClaimsFresh /\ ResultsTrue /\ FinishedMeansSucceeded

(* The state file may be behind, never ahead, and what is clean is on disk; a job that
   has a runner, or is about to get one, is recorded as started.  *)
Behind(j) == \/ disk[j] = state[j]
             \/ disk[j] = "Absent"
             \/ disk[j] = "Queued" /\ state[j] # "Absent"
             \/ disk[j] = "Running" /\ state[j] \in Ended
DiskSound ==
    /\ ~dirty \/ ~up => disk = state
    /\ \A j \in Jobs :
          /\ Behind(j)
          /\ runner[j] # "none" => disk[j] \notin Unstarted
    /\ \A t \in Callers :
          /\ phase[t] \in {"launch", "execute", "record"} =>
                \A j \in list[t] : disk[j] \notin Unstarted
          /\ phase[t] \in {"execute", "record"} => disk[current[t]] \notin Unstarted

(* Before a crash: what is claimed is in its grace period, and what the executor is at is
   Running, unless a cancellation struck it; a runner that is at work is recorded, unless it
   is just being or its job was struck: then the metadata file is removed again.  *)
ClaimsRunning ==
    \A t \in Callers :
        /\ Claims(t) \subseteq young
        /\ current[t] \in Jobs \ struck => state[current[t]] = "Running"
WorkersRecorded ==
    \A j \in Jobs \ struck :
        runner[j] = "alive" => j \in meta \/ \E t \in Callers : current[t] = j

(* Whoever is about to end a job has one that is launched, and whose runner is not at
   work unless it is still to be signalled, or its job was struck and is Cancelled.  *)
Launched(j) == /\ state[j] \notin Unstarted
               /\ \A t \in Callers : j \notin Claims(t)
Quiet(j) == runner[j] # "alive" \/ j \in struck
SuspectsSound ==
    \A j \in suspects : state[j] \notin Unstarted /\ (collected => j \notin young)
EventsSound ==
    \A i \in DOMAIN results : Launched(results[i].job) /\ Quiet(results[i].job)
DeadlinesSound ==
    /\ \A j \in overdue \cup timeouts : Launched(j)
    /\ expiring # NoJob => Launched(expiring) /\ Quiet(expiring)
    /\ closing # NoJob => state[closing] = "Cancelled" /\ Quiet(closing)
StruckSound == \A j \in struck : state[j] = "Cancelled"

StraySound == /\ up
              /\ NoStrayRunner
              /\ ClaimsRunning
              /\ WorkersRecorded
              /\ SuspectsSound
              /\ EventsSound
              /\ DeadlinesSound
              /\ StruckSound

Intact == SavesSucceed \/ crashes = 0

IInv == /\ TypeOK
        /\ CallersSound
        /\ Intact => Core
        /\ SavesSucceed => DiskSound
        /\ crashes = 0 => StraySound

-----------------------------------------------------------------------------
(* SetToSeq lists the elements of a finite set.  *)
LEMMA SetToSeqLists ==
    ASSUME NEW S, IsFiniteSet(S)
    PROVE  /\ SetToSeq(S) \in Seq(S)
           /\ \A i \in DOMAIN SetToSeq(S) : SetToSeq(S)[i] \in S
<1>1. Cardinality(S) \in Nat
  BY FS_CardinalityType
<1>2. \E f \in [1 .. Cardinality(S) -> S] : IsInjective(f)
  <2>1. PICK n \in Nat : ExistsBijection(1 .. n, S)
    BY FS_NatBijection
  <2>2. n = Cardinality(S)
    BY <2>1, FS_CountingElements
  <2>3. PICK f \in Bijection(1 .. n, S) : TRUE
    BY <2>1 DEF ExistsBijection
  <2>4. f \in [1 .. n -> S] /\ IsInjective(f)
    BY <2>3 DEF Bijection, Injection, IsInjective
  <2>. QED BY <2>2, <2>4
<1>3. SetToSeq(S) \in [1 .. Cardinality(S) -> S]
  BY <1>2 DEF SetToSeq
<1>. QED
  BY <1>1, <1>3

(* What becomes of the events of the result handler: those there were, but those that
   are handled or lost, and ...  *)
Event == [job : Jobs, is : {"ok", "bad", "lost"}]
Old(e) == \E k \in DOMAIN results : e = results[k]

(* ... the results of suspects that have been recorded ...  *)
LEMMA CollectFinishedEvents ==
    ASSUME TypeOK, CollectFinished
    PROVE  /\ results' \in Seq(Event)
           /\ \A i \in DOMAIN results' :
                 \/ Old(results'[i])
                 \/ /\ results'[i].job \in suspects \cap Collectable
                    /\ results'[i].is = result[results'[i].job]
<1>. DEFINE found == suspects \cap Collectable
            f == [j \in found |-> [job |-> j, is |-> result[j]]]
            S == {[job |-> j, is |-> result[j]] : j \in found}
            new == SetToSeq(S)
<1>1. found \subseteq Jobs /\ \A j \in found : result[j] \in {"ok", "bad"}
  BY DEF TypeOK, Collectable, HasResult
<1>2. IsFiniteSet(S)
  <2>1. f \in Surjection(found, S)
    BY DEF Surjection
  <2>. QED BY <1>1, <2>1, DaemonAssumption, FS_Subset, FS_Surjection
<1>3. S \subseteq Event
  BY <1>1 DEF Event
<1>4. new \in Seq(S) /\ \A i \in DOMAIN new : new[i] \in S
  BY <1>2, SetToSeqLists
<1>5. results \in Seq(Event) /\ new \in Seq(Event)
  <2>1. results \in Seq(Event)
    BY DEF TypeOK, Event
  <2>2. new \in Seq(Event)
    BY <1>3, <1>4, SeqMonotonic
  <2>. QED BY <2>1, <2>2
<1>6. results' = results \o new
  BY DEF CollectFinished
<1>. HIDE DEF new
<1>7. /\ results' \in Seq(Event)
      /\ Len(results') = Len(results) + Len(new)
      /\ \A i \in 1 .. Len(results) + Len(new) :
            results'[i] = IF i <= Len(results) THEN results[i] ELSE new[i - Len(results)]
  BY <1>5, <1>6, ConcatProperties
<1>8. /\ DOMAIN results' = 1 .. Len(results') /\ DOMAIN results = 1 .. Len(results)
      /\ DOMAIN new = 1 .. Len(new) /\ Len(results) \in Nat /\ Len(new) \in Nat
  BY <1>5, <1>7, LenProperties
<1>9. ASSUME NEW i \in DOMAIN results' PROVE Old(results'[i]) \/ results'[i] \in S
  <2>1. CASE i <= Len(results)
    <3>1. i \in DOMAIN results /\ results'[i] = results[i]
      BY <1>7, <1>8, <2>1
    <3>. QED BY <3>1 DEF Old
  <2>2. CASE ~(i <= Len(results))
    <3>1. i - Len(results) \in DOMAIN new /\ results'[i] = new[i - Len(results)]
      BY <1>7, <1>8, <2>2
    <3>. QED BY <3>1, <1>4
  <2>. QED BY <2>1, <2>2
<1>. QED
  BY <1>7, <1>9

(* ... a suspect whose runner does not answer ...  *)
LEMMA ProbeEvents ==
    ASSUME TypeOK, Probe
    PROVE  /\ results' \in Seq(Event)
           /\ \A i \in DOMAIN results' :
                 \/ Old(results'[i])
                 \/ /\ results'[i].job \in suspects
                    /\ results'[i].is = "lost"
                    /\ Status(results'[i].job) # "Running"
<1>1. PICK j \in suspects :
         results' = IF Status(j) = "Running" THEN results
                    ELSE Append(results, [job |-> j, is |-> "lost"])
  BY DEF Probe
<1>2. results \in Seq(Event)
  BY DEF TypeOK, Event
<1>3. CASE Status(j) = "Running"
  BY <1>1, <1>2, <1>3 DEF Old
<1>4. CASE Status(j) # "Running"
  <2>. DEFINE e == [job |-> j, is |-> "lost"]
  <2>1. e \in Event /\ results' = Append(results, e)
    BY <1>1, <1>4 DEF TypeOK, Event
  <2>2. /\ results' \in Seq(Event)
        /\ DOMAIN results' = 1 .. Len(results) + 1 /\ DOMAIN results = 1 .. Len(results)
        /\ \A i \in 1 .. Len(results) : results'[i] = results[i]
        /\ results'[Len(results) + 1] = e
        /\ Len(results) \in Nat
    BY <1>2, <2>1, AppendProperties, LenProperties
  <2>3. ASSUME NEW i \in DOMAIN results' PROVE Old(results'[i]) \/ results'[i] = e
    <3>1. i \in DOMAIN results \/ i = Len(results) + 1
      BY <2>2
    <3>. QED BY <2>2, <3>1 DEF Old
  <2>. QED
    BY <1>4, <2>2, <2>3
<1>. QED
  BY <1>3, <1>4

(* ... and no others.  *)
LEMMA HandleResultEvents ==
    ASSUME TypeOK, HandleResult
    PROVE  /\ results' \in Seq(Event) /\ \A i \in DOMAIN results' : Old(results'[i])
           /\ 1 \in DOMAIN results /\ Head(results) = results[1] /\ Head(results) \in Event
<1>1. results \in Seq(Event) /\ results # <<>> /\ results' = Tail(results)
  BY DEF TypeOK, Event, HandleResult
<1>2. /\ results' \in Seq(Event) /\ Len(results') = Len(results) - 1
      /\ \A i \in 1 .. Len(results') : results'[i] = results[i + 1]
      /\ Head(results) = results[1] /\ Head(results) \in Event
  BY <1>1, HeadTailProperties
<1>3. /\ Len(results) \in Nat \ {0} /\ DOMAIN results = 1 .. Len(results)
      /\ DOMAIN results' = 1 .. Len(results')
  BY <1>1, <1>2, EmptySeq, LenProperties
<1>4. \A i \in DOMAIN results' : i + 1 \in DOMAIN results /\ results'[i] = results[i + 1]
  BY <1>2, <1>3
<1>. QED
  BY <1>2, <1>3, <1>4 DEF Old

(* An overflow loses the oldest.  *)
LEMMA LagEvents ==
    ASSUME TypeOK, Lag
    PROVE  results' \in Seq(Event) /\ \A i \in DOMAIN results' : Old(results'[i])
<1>1. results \in Seq(Event) /\ DOMAIN results = 1 .. Len(results) /\ Len(results) \in Nat
  BY LenProperties DEF TypeOK, Event
<1>2. CASE results' = results
  BY <1>1, <1>2 DEF Old
<1>3. ASSUME NEW n \in 1 .. Len(results), results' = SubSeq(results, n + 1, Len(results))
      PROVE  results' \in Seq(Event) /\ \A i \in DOMAIN results' : Old(results'[i])
  <2>1. \A i \in n + 1 .. Len(results) : results[i] \in Event
    BY <1>1, ElementOfSeq
  <2>2. /\ results' \in Seq(Event)
        /\ Len(results') = Len(results) - n
        /\ \A i \in 1 .. Len(results) - n : results'[i] = results[i + n]
    BY <1>1, <1>3, <2>1, SubSeqProperties
  <2>3. DOMAIN results' = 1 .. Len(results) - n
    BY <2>2, LenProperties
  <2>4. \A i \in DOMAIN results' : i + n \in DOMAIN results /\ results'[i] = results[i + n]
    BY <1>1, <2>2, <2>3
  <2>. QED
    BY <2>2, <2>4 DEF Old
<1>. QED
  BY <1>2, <1>3 DEF Lag

(* The invariant holds at the start.  *)
LEMMA InitInvariant == Init => IInv
<1>. SUFFICES ASSUME Init PROVE IInv
  OBVIOUS
<1>1. TypeOK
  <2>1. lags \in 0 .. Allowed.lags /\ crashes \in 0 .. Allowed.crashes
    BY DaemonAssumption DEF Init, Allowed
  <2>2. results \in Seq(Event)
    BY EmptySeq DEF Init
  <2>. QED
    BY <2>1, <2>2 DEF Init, TypeOK, States, Phases, Event
<1>2. CallersSound /\ Core
  BY DaemonAssumption DEF Init, CallersSound, Core, ClaimsFresh, ResultsTrue,
                          FinishedMeansSucceeded, Claims, Unstarted
<1>3. DiskSound
  BY DEF Init, DiskSound, Behind
<1>4. StraySound
  BY DaemonAssumption DEF Init, StraySound, NoStrayRunner, ClaimsRunning, WorkersRecorded, SuspectsSound,
         EventsSound, DeadlinesSound, StruckSound, Quiet, Claims
<1>. QED
  BY <1>1, <1>2, <1>3, <1>4 DEF IInv

(* Every action keeps the type invariant ...  *)
LEMMA NextType ==
    ASSUME TypeOK, CallersSound, [Next]_vars
    PROVE  TypeOK'
<1>. USE DEF tableVars, fileVars, runnerVars, clockVars, busVars, passVars, monitorVars,
             worldVars, TypeOK, Allowed, Running, Ready, Moved, Cleanup, States, Ended, Phases,
             Callers
<1>1. ASSUME NEW j \in Jobs, Submit(j) PROVE TypeOK'
  BY <1>1 DEF Submit
<1>2. ASSUME NEW j \in Jobs, Cancel(j) PROVE TypeOK'
  BY <1>2 DEF Cancel, Terminated, Alive, JobCompleted
<1>3. ASSUME NEW j \in Jobs, Exit(j) PROVE TypeOK'
  BY <1>3 DEF Exit
<1>4. ASSUME NEW j \in Jobs, Die(j) PROVE TypeOK'
  BY <1>4 DEF Die
<1>5. ASSUME NEW j \in Jobs, Age(j) PROVE TypeOK'
  BY <1>5 DEF Age
<1>6. ASSUME NEW j \in Jobs, Overrun(j) PROVE TypeOK'
  BY <1>6 DEF Overrun
<1>7. CASE EndCancel
  BY <1>7 DEF EndCancel, JobCompleted
<1>8. CASE SetLimit
  BY <1>8 DEF SetLimit
<1>9. CASE ReadEvents
  BY <1>9 DEF ReadEvents
<1>10. CASE Tick
  BY <1>10 DEF Tick
<1>11. CASE ReleaseDue
  BY <1>11 DEF ReleaseDue
<1>12. ASSUME NEW t \in Callers, Pass(t) PROVE TypeOK'
  <2>1. PICK S \in SUBSET Ready :
           /\ state' = Moved(S, "Running")
           /\ young' = young \cup S
           /\ overdue' = overdue \ S
           /\ IF S = {}
              THEN /\ phase' = [phase EXCEPT ![t] = "idle"]
                   /\ UNCHANGED <<list, dirty, slot>>
              ELSE /\ phase' = [phase EXCEPT ![t] = "save"]
                   /\ list' = [list EXCEPT ![t] = S]
                   /\ dirty' = TRUE
                   /\ slot' \in RefreshedSlot(Running')
    BY <1>12 DEF Pass
  <2>2. slot' \in {"free", "busy"}
    BY <2>1 DEF RefreshedSlot
  <2>3. dirty' \in BOOLEAN
    BY <2>1
  <2>4. phase' \in [Callers -> Phases]
    BY <2>1
  <2>5. list' \in [Callers -> SUBSET Jobs]
    BY <2>1
  <2>. QED
    BY <1>12, <2>1, <2>2, <2>3, <2>4, <2>5 DEF Pass
<1>13. ASSUME NEW t \in Callers, SaveBeforeLaunch(t) PROVE TypeOK'
  BY <1>13 DEF SaveBeforeLaunch, SavedStates
<1>14. ASSUME NEW t \in Callers, Recheck(t) PROVE TypeOK'
  BY <1>14 DEF Recheck
<1>15. ASSUME NEW t \in Callers, Execute(t) PROVE TypeOK'
  <2>1. current[t] \in Jobs
    BY <1>15 DEF CallersSound, Execute
  <2>. QED BY <1>15, <2>1 DEF Execute
<1>16. ASSUME NEW t \in Callers, RecordRunner(t) PROVE TypeOK'
  <2>1. current[t] \in Jobs
    BY <1>16 DEF CallersSound, RecordRunner
  <2>. QED BY <1>16, <2>1 DEF RecordRunner
<1>17. ASSUME NEW t \in Callers, Settle(t) PROVE TypeOK'
  BY <1>17 DEF Settle
<1>18. CASE Save
  BY <1>18 DEF Save, SavedStates
<1>19. CASE NoteRunning
  BY <1>19 DEF NoteRunning
<1>20. CASE CollectFinished
  BY <1>20, CollectFinishedEvents DEF CollectFinished, Event, ToProbe
<1>21. CASE Probe
  BY <1>21, ProbeEvents DEF Probe, Event
<1>22. CASE HandleResult
  <2>1. results' \in Seq(Event) /\ Head(results) \in Event
    BY <1>22, HandleResultEvents
  <2>2. state' \in [Jobs -> States] /\ meta' \subseteq Jobs
    BY <1>22, <2>1 DEF HandleResult, Verdict
  <2>3. result' \in [Jobs -> {"none", "ok", "bad"}] /\ UNCHANGED <<runner, outcome, timely>>
    BY <1>22, <2>1 DEF HandleResult
  <2>4. dirty' \in BOOLEAN /\ inbox' \in BOOLEAN
    BY <1>22 DEF HandleResult, JobCompleted
  <2>. QED
    BY <1>22, <2>1, <2>2, <2>3, <2>4 DEF HandleResult, Event
<1>23. CASE TimeoutPoll
  BY <1>23 DEF TimeoutPoll
<1>24. CASE TimeoutTerminate
  BY <1>24 DEF TimeoutTerminate, Terminated, Alive
<1>25. CASE TimeoutApply
  BY <1>25 DEF TimeoutApply
<1>26. CASE GpuPoll
  BY <1>26 DEF GpuPoll, RefreshedSlot
<1>27. CASE Lag
  BY <1>27, DaemonAssumption, LagEvents DEF Lag, Event
<1>28. CASE Crash
  <2>1. Allowed.deferred \subseteq Jobs
    BY DaemonAssumption
  <2>2. crashes' \in 0 .. Allowed.crashes
    BY <1>28, DaemonAssumption DEF Crash
  <2>3. results' \in Seq(Event)
    BY <1>28, EmptySeq DEF Crash
  <2>4. waiting' \subseteq Jobs /\ state' \in [Jobs -> States]
    BY <1>28, <2>1 DEF Crash
  <2>5. /\ phase' \in [Callers -> Phases] /\ list' \in [Callers -> SUBSET Jobs]
        /\ failed' \in [Callers -> SUBSET Jobs] /\ current' \in [Callers -> Jobs \cup {NoJob}]
    BY <1>28 DEF Crash
  <2>. QED
    BY <1>28, <2>2, <2>3, <2>4, <2>5 DEF Crash, Event
<1>29. CASE Recover
  BY <1>29 DEF Recover, Recovered, Status, Verdict
<1>30. CASE UNCHANGED vars
  BY <1>30 DEF vars
<1>. QED
  BY <1>1, <1>2, <1>3, <1>4, <1>5, <1>6, <1>7, <1>8, <1>9, <1>10, <1>11, <1>12, <1>13,
     <1>14, <1>15, <1>16, <1>17, <1>18, <1>19, <1>20, <1>21, <1>22, <1>23, <1>24, <1>25, <1>26,
     <1>27, <1>28, <1>29, <1>30
     DEF Next, Caller, Monitor, TimeoutHandler

(* No job is held by two callers.  *)
Apart == \A u, w \in Callers : u # w => Claims(u) \cap Claims(w) = {}

(* Callers stay apart when one of them takes jobs that nobody holds, or drops some.  *)
LEMMA StayApart ==
    ASSUME Apart, NEW t \in Callers, NEW S, \A u \in Callers : S \cap Claims(u) = {},
           Claims(t)' \subseteq Claims(t) \cup S,
           \A u \in Callers \ {t} : Claims(u)' = Claims(u)
    PROVE  Apart'
BY DEF Apart

(* ... what the callers of trigger_scheduling hold ...  *)
LEMMA CallersStep ==
    ASSUME TypeOK, CallersSound, [Next]_vars
    PROVE  CallersSound'
<1>. USE DEF tableVars, fileVars, runnerVars, clockVars, busVars, passVars, monitorVars,
             worldVars, TypeOK, CallersSound, Claims, Unstarted, Running, Ready, Moved, Ended,
             Callers, Unlocked
<1>1. ASSUME NEW j \in Jobs, Submit(j) PROVE CallersSound'
  BY <1>1 DEF Submit
<1>2. ASSUME NEW j \in Jobs, Cancel(j) PROVE CallersSound'
  BY <1>2 DEF Cancel
<1>3. ASSUME NEW j \in Jobs, Exit(j) PROVE CallersSound'
  BY <1>3 DEF Exit
<1>4. ASSUME NEW j \in Jobs, Die(j) PROVE CallersSound'
  BY <1>4 DEF Die
<1>5. ASSUME NEW j \in Jobs, Age(j) PROVE CallersSound'
  BY <1>5 DEF Age
<1>6. ASSUME NEW j \in Jobs, Overrun(j) PROVE CallersSound'
  BY <1>6 DEF Overrun
<1>7. CASE EndCancel
  BY <1>7 DEF EndCancel
<1>8. CASE SetLimit
  BY <1>8 DEF SetLimit
<1>9. CASE ReadEvents
  BY <1>9 DEF ReadEvents
<1>10. CASE Tick
  BY <1>10 DEF Tick
<1>11. CASE ReleaseDue
  BY <1>11 DEF ReleaseDue
<1>12. ASSUME NEW t \in Callers, Pass(t) PROVE CallersSound'
  <2>1. PICK S \in SUBSET Ready :
           /\ state' = Moved(S, "Running")
           /\ IF S = {}
              THEN phase' = [phase EXCEPT ![t] = "idle"] /\ list' = list
              ELSE phase' = [phase EXCEPT ![t] = "save"] /\ list' = [list EXCEPT ![t] = S]
    BY <1>12 DEF Pass
  <2>2. phase[t] = "pass" /\ current' = current /\ failed' = failed /\ up' = up /\ up
    BY <1>12 DEF Pass
  <2>3. CASE S = {}
    BY <2>1, <2>2, <2>3
  <2>4. CASE S # {}
    <3>1. \A u \in Callers : S \cap Claims(u) = {}
      OBVIOUS
    <3>2. Claims(t) = {} /\ Claims(t)' = S
      BY <2>1, <2>2, <2>4
    <3>3. \A u \in Callers \ {t} : Claims(u)' = Claims(u) /\ phase'[u] = phase[u]
      BY <2>1, <2>2, <2>4
    <3>4. \A j \in Jobs : state[j] \notin Unstarted \/ j \in S => state'[j] \notin Unstarted
      BY <2>1
    <3>5. Apart'
      <4>1. Apart
        BY DEF Apart
      <4>. HIDE DEF Claims, CallersSound
      <4>. QED BY ZenonT(40), <3>1, <3>2, <3>3, <4>1, StayApart
    <3>6. ASSUME NEW u \in Callers, u # t
          PROVE  list'[u] = list[u] /\ failed'[u] = failed[u] /\ current'[u] = current[u]
      BY <2>1, <2>2, <2>4, <3>6
    <3>7. list'[t] = S /\ failed'[t] = {} /\ current'[t] = NoJob /\ phase'[t] = "save"
      BY <2>1, <2>2, <2>4
    <3>8. NoJob \notin S
      BY DaemonAssumption
    <3>9. \A u \in Callers : \A j \in Claims(u)' : state'[j] \notin Unstarted
      BY <3>2, <3>3, <3>4
    <3>. QED BY <2>2, <3>3, <3>5, <3>6, <3>7, <3>8, <3>9 DEF Apart
  <2>. QED BY <2>3, <2>4
<1>13. ASSUME NEW t \in Callers, SaveBeforeLaunch(t) PROVE CallersSound'
  BY <1>13 DEF SaveBeforeLaunch
<1>14. ASSUME NEW t \in Callers, Recheck(t) PROVE CallersSound'
  BY <1>14 DEF Recheck
<1>15. ASSUME NEW t \in Callers, Execute(t) PROVE CallersSound'
  <2>1. phase[t] = "execute" /\ current[t] \in Jobs /\ list' = list /\ state' = state
        /\ up' = up /\ up
    BY <1>15 DEF Execute
  <2>2. CASE phase' = [phase EXCEPT ![t] = "record"] /\ UNCHANGED <<current, failed>>
    BY <2>1, <2>2
  <2>3. CASE /\ failed' = [failed EXCEPT ![t] = @ \cup {current[t]}]
             /\ current' = [current EXCEPT ![t] = NoJob]
             /\ phase' = [phase EXCEPT ![t] = "launch"]
    <3>1. \A u \in Callers : Claims(u)' = Claims(u)
      BY <2>1, <2>3
    <3>2. Apart'
      BY ZenonT(40), <3>1 DEF Apart
    <3>3. list'[t] \cap failed'[t] = {} /\ current'[t] = NoJob /\ NoJob \notin Claims(t)'
      BY <2>1, <2>3, <3>1, DaemonAssumption
    <3>. QED BY <2>1, <2>3, <3>1, <3>2, <3>3 DEF Apart
  <2>. QED BY <1>15, <2>2, <2>3 DEF Execute
<1>16. ASSUME NEW t \in Callers, RecordRunner(t) PROVE CallersSound'
  <2>1. phase[t] = "record" /\ current[t] \in Jobs /\ list' = list /\ state' = state
        /\ up' = up /\ up /\ phase' = [phase EXCEPT ![t] = "launch"]
        /\ current' = [current EXCEPT ![t] = NoJob]
    BY <1>16 DEF RecordRunner
  <2>2. failed' = failed \/ failed' = [failed EXCEPT ![t] = @ \cup {current[t]}]
    BY <1>16 DEF RecordRunner
  <2>3. /\ Claims(t)' \subseteq Claims(t)
        /\ \A u \in Callers \ {t} : Claims(u)' = Claims(u)
    BY <2>1, <2>2
  <2>4. Apart'
    <3>1. Apart
      BY DEF Apart
    <3>. HIDE DEF Claims, CallersSound
    <3>. QED BY <2>3, <3>1 DEF Apart
  <2>5. list'[t] \cap failed'[t] = {} /\ current'[t] = NoJob /\ NoJob \notin Claims(t)'
    BY <2>1, <2>2, DaemonAssumption
  <2>. QED BY <2>1, <2>2, <2>3, <2>4, <2>5 DEF Apart
<1>17. ASSUME NEW t \in Callers, Settle(t) PROVE CallersSound'
  BY <1>17 DEF Settle
<1>18. CASE Save
  BY <1>18 DEF Save
<1>19. CASE NoteRunning
  BY <1>19 DEF NoteRunning
<1>20. CASE CollectFinished
  BY <1>20 DEF CollectFinished
<1>21. CASE Probe
  BY <1>21 DEF Probe
<1>22. CASE HandleResult
  BY <1>22, HandleResultEvents DEF HandleResult, Event, Verdict
<1>23. CASE TimeoutPoll
  BY <1>23 DEF TimeoutPoll
<1>24. CASE TimeoutTerminate
  BY <1>24 DEF TimeoutTerminate
<1>25. CASE TimeoutApply
  BY <1>25 DEF TimeoutApply
<1>26. CASE GpuPoll
  BY <1>26 DEF GpuPoll
<1>27. CASE Lag
  BY <1>27 DEF Lag
<1>28. CASE Crash
  BY <1>28 DEF Crash
<1>29. CASE Recover
  BY <1>29 DEF Recover, Recovered, Status, Verdict
<1>30. CASE UNCHANGED vars
  BY <1>30 DEF vars
<1>. QED
  BY <1>1, <1>2, <1>3, <1>4, <1>5, <1>6, <1>7, <1>8, <1>9, <1>10, <1>11, <1>12, <1>13,
     <1>14, <1>15, <1>16, <1>17, <1>18, <1>19, <1>20, <1>21, <1>22, <1>23, <1>24, <1>25, <1>26,
     <1>27, <1>28, <1>29, <1>30
     DEF Next, Caller, Monitor, TimeoutHandler

(* The events there are.  *)
LEMMA EventType == TypeOK => \A i \in DOMAIN results : results[i] \in Event
<1>. SUFFICES ASSUME TypeOK, NEW i \in DOMAIN results PROVE results[i] \in Event
  OBVIOUS
<1>1. results \in Seq(Event)
  BY DEF TypeOK, Event
<1>2. i \in 1 .. Len(results)
  BY <1>1, LenProperties
<1>. QED
  BY <1>1, <1>2, ElementOfSeq

(* ... the runners and what is known of them ...  *)
LEMMA CoreStep ==
    ASSUME TypeOK, CallersSound, Core, (Crash => DiskSound), [Next]_vars
    PROVE  Core'
<1>. USE DEF tableVars, fileVars, runnerVars, clockVars, busVars, passVars, monitorVars,
             worldVars, TypeOK, CallersSound, Core, ClaimsFresh, ResultsTrue,
             FinishedMeansSucceeded, Claims, Unstarted, Running, Ready, Moved, Cleanup, Ended,
             Alive, Callers, Unlocked
<1>1. ASSUME NEW j \in Jobs, Submit(j) PROVE Core'
  BY <1>1 DEF Submit
<1>2. ASSUME NEW j \in Jobs, Cancel(j) PROVE Core'
  BY <1>2 DEF Cancel, Terminated
<1>3. ASSUME NEW j \in Jobs, Exit(j) PROVE Core'
  <2>1. ClaimsFresh'
    BY <1>3, EventType DEF Exit, Event
  <2>2. ResultsTrue'
    BY <1>3, EventType DEF Exit, Event
  <2>3. FinishedMeansSucceeded'
    BY <1>3, EventType DEF Exit, Event
  <2>. QED BY <2>1, <2>2, <2>3
<1>4. ASSUME NEW j \in Jobs, Die(j) PROVE Core'
  BY <1>4 DEF Die
<1>5. ASSUME NEW j \in Jobs, Age(j) PROVE Core'
  BY <1>5 DEF Age
<1>6. ASSUME NEW j \in Jobs, Overrun(j) PROVE Core'
  BY <1>6 DEF Overrun
<1>7. CASE EndCancel
  BY <1>7 DEF EndCancel
<1>8. CASE SetLimit
  BY <1>8 DEF SetLimit
<1>9. CASE ReadEvents
  BY <1>9 DEF ReadEvents
<1>10. CASE Tick
  BY <1>10 DEF Tick
<1>11. CASE ReleaseDue
  BY <1>11 DEF ReleaseDue
<1>12. ASSUME NEW t \in Callers, Pass(t) PROVE Core'
  <2>1. PICK S \in SUBSET Ready :
           /\ state' = Moved(S, "Running")
           /\ IF S = {}
              THEN phase' = [phase EXCEPT ![t] = "idle"] /\ list' = list
              ELSE phase' = [phase EXCEPT ![t] = "save"] /\ list' = [list EXCEPT ![t] = S]
    BY <1>12 DEF Pass
  <2>2. phase[t] = "pass" /\ current' = current /\ failed' = failed /\ up' = up /\ up
    BY <1>12 DEF Pass
  <2>. QED BY <1>12, <2>1, <2>2 DEF Pass
<1>13. ASSUME NEW t \in Callers, SaveBeforeLaunch(t) PROVE Core'
  BY <1>13 DEF SaveBeforeLaunch
<1>14. ASSUME NEW t \in Callers, Recheck(t) PROVE Core'
  BY <1>14 DEF Recheck
<1>15. ASSUME NEW t \in Callers, Execute(t) PROVE Core'
  BY SMTT(40), <1>15 DEF Execute
<1>16. ASSUME NEW t \in Callers, RecordRunner(t) PROVE Core'
  BY <1>16 DEF RecordRunner
<1>17. ASSUME NEW t \in Callers, Settle(t) PROVE Core'
  BY <1>17 DEF Settle
<1>18. CASE Save
  BY <1>18 DEF Save
<1>19. CASE NoteRunning
  BY <1>19 DEF NoteRunning
<1>20. CASE CollectFinished
  <2>1. /\ UNCHANGED <<state, phase, list, current, failed, meta, runner, result, outcome>>
        /\ up' = up
    BY <1>20 DEF CollectFinished
  <2>2. ASSUME NEW i \in DOMAIN results', results'[i].is # "lost"
        PROVE  outcome[results'[i].job] = results'[i].is
    <3>1. CASE Old(results'[i])
      BY <2>2, <3>1 DEF Old
    <3>2. CASE /\ results'[i].job \in suspects \cap Collectable
               /\ results'[i].is = result[results'[i].job]
      BY <3>2 DEF Collectable, HasResult
    <3>. QED BY <1>20, <2>2, <3>1, <3>2, CollectFinishedEvents
  <2>. QED BY <2>1, <2>2
<1>21. CASE Probe
  BY <1>21, ProbeEvents DEF Probe, Event, Old
<1>22. CASE HandleResult
  <2>1. ClaimsFresh'
    BY <1>22, HandleResultEvents DEF HandleResult, Event, Verdict, Old
  <2>2. ResultsTrue'
    BY <1>22, HandleResultEvents DEF HandleResult, Event, Verdict, Old
  <2>3. FinishedMeansSucceeded'
    BY <1>22, HandleResultEvents DEF HandleResult, Event, Verdict, Old
  <2>. QED BY <2>1, <2>2, <2>3
<1>23. CASE TimeoutPoll
  BY <1>23 DEF TimeoutPoll
<1>24. CASE TimeoutTerminate
  BY <1>24 DEF TimeoutTerminate, Terminated
<1>25. CASE TimeoutApply
  BY <1>25 DEF TimeoutApply
<1>26. CASE GpuPoll
  BY <1>26 DEF GpuPoll
<1>27. CASE Lag
  BY <1>27, LagEvents DEF Lag, Event, Old
<1>28. CASE Crash
  <2>1. ClaimsFresh'
    BY <1>28 DEF Crash, DiskSound, Behind
  <2>2. ResultsTrue'
    BY <1>28 DEF Crash, DiskSound, Behind
  <2>3. FinishedMeansSucceeded'
    BY <1>28 DEF Crash, DiskSound, Behind
  <2>. QED BY <2>1, <2>2, <2>3
<1>29. CASE Recover
  BY SMTT(40), <1>29 DEF Recover, Recovered, Status, Verdict, HasResult
<1>30. CASE UNCHANGED vars
  BY <1>30 DEF vars
<1>. QED
  BY ZenonT(40), <1>1, <1>2, <1>3, <1>4, <1>5, <1>6, <1>7, <1>8, <1>9, <1>10, <1>11, <1>12, <1>13,
     <1>14, <1>15, <1>16, <1>17, <1>18, <1>19, <1>20, <1>21, <1>22, <1>23, <1>24, <1>25, <1>26,
     <1>27, <1>28, <1>29, <1>30
     DEF Next, Caller, Monitor, TimeoutHandler

(* ... the state file ...  *)
LEMMA DiskStep ==
    ASSUME TypeOK, CallersSound, Core, SavesSucceed, DiskSound, [Next]_vars
    PROVE  DiskSound'
<1>. USE DEF tableVars, fileVars, runnerVars, clockVars, busVars, passVars, monitorVars,
             worldVars, TypeOK, CallersSound, Core, ClaimsFresh, ResultsTrue,
             FinishedMeansSucceeded, Claims, Unstarted, Running, Ready, Moved, Cleanup, Ended,
             Alive, Callers, Unlocked, DiskSound, Behind, States
<1>1. ASSUME NEW j \in Jobs, Submit(j) PROVE DiskSound'
  BY <1>1 DEF Submit
<1>2. ASSUME NEW j \in Jobs, Cancel(j) PROVE DiskSound'
  BY <1>2 DEF Cancel, Terminated
<1>3. ASSUME NEW j \in Jobs, Exit(j) PROVE DiskSound'
  BY <1>3 DEF Exit
<1>4. ASSUME NEW j \in Jobs, Die(j) PROVE DiskSound'
  BY <1>4 DEF Die
<1>5. ASSUME NEW j \in Jobs, Age(j) PROVE DiskSound'
  BY <1>5 DEF Age
<1>6. ASSUME NEW j \in Jobs, Overrun(j) PROVE DiskSound'
  BY <1>6 DEF Overrun
<1>7. CASE EndCancel
  BY <1>7 DEF EndCancel
<1>8. CASE SetLimit
  BY <1>8 DEF SetLimit
<1>9. CASE ReadEvents
  BY <1>9 DEF ReadEvents
<1>10. CASE Tick
  BY <1>10 DEF Tick
<1>11. CASE ReleaseDue
  BY <1>11 DEF ReleaseDue
<1>12. ASSUME NEW t \in Callers, Pass(t) PROVE DiskSound'
  <2>1. PICK S \in SUBSET Ready :
           /\ state' = Moved(S, "Running")
           /\ IF S = {}
              THEN phase' = [phase EXCEPT ![t] = "idle"] /\ list' = list
              ELSE phase' = [phase EXCEPT ![t] = "save"] /\ list' = [list EXCEPT ![t] = S]
    BY <1>12 DEF Pass
  <2>2. phase[t] = "pass" /\ current' = current /\ failed' = failed /\ up' = up /\ up
    BY <1>12 DEF Pass
  <2>3. S = {} => state' = state /\ dirty' = dirty /\ disk' = disk
    BY <1>12, <2>1 DEF Pass
  <2>4. S # {} => dirty' = TRUE /\ disk' = disk
    BY <1>12, <2>1 DEF Pass
  <2>5. ~dirty' \/ ~up' => disk' = state'
    BY <2>2, <2>3, <2>4
  <2>6. \A j \in Jobs : Behind(j)' /\ (runner'[j] # "none" => disk'[j] \notin Unstarted)
    BY <1>12, <2>1, <2>2 DEF Pass
  <2>7. \A u \in Callers : phase'[u] \in {"launch", "execute", "record"}
                          => phase'[u] = phase[u] /\ list'[u] = list[u]
    BY <2>1, <2>2
  <2>. QED BY <2>2, <2>5, <2>6, <2>7, <2>3, <2>4
<1>13. ASSUME NEW t \in Callers, SaveBeforeLaunch(t) PROVE DiskSound'
  BY <1>13 DEF SaveBeforeLaunch, SavedStates, SavesSucceed, Allowed
<1>14. ASSUME NEW t \in Callers, Recheck(t) PROVE DiskSound'
  BY <1>14 DEF Recheck
<1>15. ASSUME NEW t \in Callers, Execute(t) PROVE DiskSound'
  BY <1>15 DEF Execute
<1>16. ASSUME NEW t \in Callers, RecordRunner(t) PROVE DiskSound'
  BY <1>16 DEF RecordRunner
<1>17. ASSUME NEW t \in Callers, Settle(t) PROVE DiskSound'
  <2>. DEFINE S == failed[t] \cap Running
  <2>1. state' = Moved(S, "Failed") /\ Cleanup(S) /\ dirty' = (dirty \/ S # {})
    BY <1>17 DEF Settle
  <2>2. \A j \in Jobs : state'[j] = state[j] \/ (state[j] = "Running" /\ state'[j] \in Ended)
    BY <2>1
  <2>3. \A j \in Jobs : runner'[j] # "none" => runner[j] # "none"
    BY <2>1
  <2>4. /\ disk' = disk /\ up' = up /\ up /\ list' = list /\ current' = current
        /\ phase' = [phase EXCEPT ![t] = "idle"]
    BY <1>17 DEF Settle
  <2>5. ~dirty' => ~dirty /\ state' = state
    BY <2>1
  <2>. QED BY <2>2, <2>3, <2>4, <2>5
<1>18. CASE Save
  BY <1>18 DEF Save, SavedStates, SavesSucceed, Allowed
<1>19. CASE NoteRunning
  BY <1>19 DEF NoteRunning
<1>20. CASE CollectFinished
  BY <1>20 DEF CollectFinished
<1>21. CASE Probe
  BY <1>21 DEF Probe
<1>22. CASE HandleResult
  BY <1>22, HandleResultEvents DEF HandleResult, Event, Verdict
<1>23. CASE TimeoutPoll
  BY <1>23 DEF TimeoutPoll
<1>24. CASE TimeoutTerminate
  BY <1>24 DEF TimeoutTerminate, Terminated
<1>25. CASE TimeoutApply
  <2>. DEFINE S == {expiring} \cap Running
  <2>1. state' = Moved(S, "Timeout") /\ Cleanup(S) /\ dirty' = (dirty \/ S # {})
    BY <1>25 DEF TimeoutApply
  <2>2. \A j \in Jobs : state'[j] = state[j] \/ (state[j] = "Running" /\ state'[j] \in Ended)
    BY <2>1
  <2>3. \A j \in Jobs : runner'[j] # "none" => runner[j] # "none"
    BY <2>1
  <2>4. disk' = disk /\ up' = up /\ up /\ list' = list /\ current' = current /\ phase' = phase
    BY <1>25 DEF TimeoutApply
  <2>5. ~dirty' => ~dirty /\ state' = state
    BY <2>1
  <2>. QED BY <2>2, <2>3, <2>4, <2>5
<1>26. CASE GpuPoll
  BY <1>26 DEF GpuPoll
<1>27. CASE Lag
  BY <1>27 DEF Lag
<1>28. CASE Crash
  BY <1>28 DEF Crash
<1>29. CASE Recover
  <2>1. ~up /\ disk = state /\ disk' = disk /\ up' = TRUE /\ runner' = runner
    BY <1>29 DEF Recover
  <2>2. \A j \in Jobs : state'[j] = state[j] \/ (state[j] = "Running" /\ state'[j] \in Ended)
    <3>1. \A j \in Jobs : Recovered(j) \in {"Running", "Finished", "Failed"}
      BY DEF Recovered, Status, Verdict, HasResult
    <3>. QED BY <1>29, <3>1 DEF Recover
  <2>3. ~dirty' => state' = state
    BY <1>29 DEF Recover
  <2>4. \A u \in Callers : phase'[u] \in {"idle", "pass"}
    BY <1>29, <2>1 DEF Recover
  <2>. QED BY <2>1, <2>2, <2>3, <2>4
<1>30. CASE UNCHANGED vars
  BY <1>30 DEF vars
<1>. QED
  BY ZenonT(40), <1>1, <1>2, <1>3, <1>4, <1>5, <1>6, <1>7, <1>8, <1>9, <1>10, <1>11, <1>12, <1>13,
     <1>14, <1>15, <1>16, <1>17, <1>18, <1>19, <1>20, <1>21, <1>22, <1>23, <1>24, <1>25, <1>26,
     <1>27, <1>28, <1>29, <1>30
     DEF Next, Caller, Monitor, TimeoutHandler

(* ... and, as long as the daemon has not crashed, the runners at work.  *)
LEMMA StrayStep ==
    ASSUME TypeOK, CallersSound, Core, crashes = 0, crashes' = 0, StraySound,
           [Next]_vars
    PROVE  StraySound'
<1>0. \A i \in DOMAIN results : results[i] \in Event
  BY EventType
<1>a. /\ \A t \in Callers : Claims(t) \subseteq young
      /\ \A t \in Callers : current[t] \in Jobs \ struck => state[current[t]] = "Running"
  BY DEF StraySound, ClaimsRunning
<1>b. \A j \in suspects : state[j] \notin Unstarted /\ (collected => j \notin young)
  BY DEF StraySound, SuspectsSound
<1>. USE DEF tableVars, fileVars, runnerVars, clockVars, busVars, passVars, monitorVars,
             worldVars, TypeOK, CallersSound, Core, ClaimsFresh, ResultsTrue,
             FinishedMeansSucceeded, StraySound, NoStrayRunner, ClaimsRunning, WorkersRecorded,
             SuspectsSound, EventsSound, DeadlinesSound, StruckSound, Quiet, Launched, Claims,
             Launching,
             Unstarted, Running, Ready, Moved, Cleanup, Ended, Alive, Callers, Unlocked, Event
<1>1. ASSUME NEW j \in Jobs, Submit(j) PROVE StraySound'
  BY <1>1, <1>0 DEF Submit
<1>2. ASSUME NEW j \in Jobs, Cancel(j) PROVE StraySound'
  <2>1. up' /\ NoStrayRunner'
    BY <1>2, <1>0 DEF Cancel, Terminated, Executing
  <2>2. ClaimsRunning'
    BY <1>2, <1>0 DEF Cancel, Terminated, Executing
  <2>3. WorkersRecorded'
    BY <1>2, <1>0 DEF Cancel, Terminated, Executing
  <2>4. SuspectsSound'
    BY <1>2, <1>0 DEF Cancel, Terminated, Executing
  <2>5. EventsSound'
    BY <1>2, <1>0 DEF Cancel, Terminated, Executing
  <2>6. DeadlinesSound' /\ StruckSound'
    BY <1>2, <1>0 DEF Cancel, Terminated, Executing
  <2>. QED BY <2>1, <2>2, <2>3, <2>4, <2>5, <2>6
<1>3. ASSUME NEW j \in Jobs, Exit(j) PROVE StraySound'
  BY <1>3, <1>0 DEF Exit
<1>4. ASSUME NEW j \in Jobs, Die(j) PROVE StraySound'
  BY <1>4, <1>0 DEF Die
<1>5. ASSUME NEW j \in Jobs, Age(j) PROVE StraySound'
  BY <1>5, <1>0 DEF Age
<1>6. ASSUME NEW j \in Jobs, Overrun(j) PROVE StraySound'
  BY <1>6, <1>0 DEF Overrun
<1>7. CASE EndCancel
  BY <1>7, <1>0 DEF EndCancel
<1>8. CASE SetLimit
  BY <1>8, <1>0 DEF SetLimit
<1>9. CASE ReadEvents
  BY <1>9, <1>0 DEF ReadEvents
<1>10. CASE Tick
  BY <1>10, <1>0 DEF Tick
<1>11. CASE ReleaseDue
  BY <1>11, <1>0 DEF ReleaseDue
<1>12. ASSUME NEW t \in Callers, Pass(t) PROVE StraySound'
  <2>1. PICK S \in SUBSET Ready :
           /\ state' = Moved(S, "Running")
           /\ IF S = {}
              THEN phase' = [phase EXCEPT ![t] = "idle"] /\ list' = list
              ELSE phase' = [phase EXCEPT ![t] = "save"] /\ list' = [list EXCEPT ![t] = S]
    BY <1>12 DEF Pass
  <2>2. phase[t] = "pass" /\ current' = current /\ failed' = failed /\ up' = up /\ up
    BY <1>12 DEF Pass
  <2>3. up' /\ NoStrayRunner'
    BY <1>12, <1>0, <2>1, <2>2 DEF Pass
  <2>4. ClaimsRunning'
    BY <1>12, <1>0, <2>1, <2>2 DEF Pass
  <2>5. WorkersRecorded'
    BY <1>12, <1>0, <2>1, <2>2 DEF Pass
  <2>6. SuspectsSound'
    BY <1>12, <1>0, <2>1, <2>2 DEF Pass
  <2>7. EventsSound'
    <3>1. ASSUME NEW j \in Jobs, Launched(j) PROVE Launched(j)'
      BY <2>1, <2>2, <3>1
    <3>2. UNCHANGED <<results, runner, struck>>
      BY <1>12 DEF Pass
    <3>. HIDE DEF Launched
    <3>. QED BY <1>0, <3>1, <3>2
  <2>8. DeadlinesSound' /\ StruckSound'
    BY <1>12, <1>0, <2>1, <2>2 DEF Pass
  <2>. QED BY <2>3, <2>4, <2>5, <2>6, <2>7, <2>8
<1>13. ASSUME NEW t \in Callers, SaveBeforeLaunch(t) PROVE StraySound'
  BY <1>13, <1>0 DEF SaveBeforeLaunch
<1>14. ASSUME NEW t \in Callers, Recheck(t) PROVE StraySound'
  <2>1. \A u \in Callers : current[u] # NoJob => current'[u] = current[u]
    BY <1>14 DEF Recheck
  <2>2. up' /\ NoStrayRunner'
    BY <1>14, <1>0, <2>1, DaemonAssumption DEF Recheck
  <2>3. ClaimsRunning'
    BY <1>14, <1>0, <2>1, DaemonAssumption DEF Recheck
  <2>4. WorkersRecorded'
    BY <1>14, <1>0, <2>1, DaemonAssumption DEF Recheck
  <2>5. SuspectsSound'
    BY <1>14, <1>0, <2>1, DaemonAssumption DEF Recheck
  <2>6. EventsSound'
    BY <1>14, <1>0, <2>1, DaemonAssumption DEF Recheck
  <2>7. DeadlinesSound' /\ StruckSound'
    BY <1>14, <1>0, <2>1, DaemonAssumption DEF Recheck
  <2>. QED BY <2>2, <2>3, <2>4, <2>5, <2>6, <2>7
<1>15. ASSUME NEW t \in Callers, Execute(t) PROVE StraySound'
  <2>1. /\ current[t] \in Jobs
        /\ current[t] \notin struck => state[current[t]] = "Running"
        /\ UNCHANGED <<state, list, young, struck, up, crashes, suspects, collected, results,
                       overdue, timeouts, expiring, closing>>
    <3>1. phase[t] = "execute"
      BY <1>15 DEF Execute
    <3>2. current[t] \in Jobs
      BY <3>1
    <3>3. current[t] \notin struck => state[current[t]] = "Running"
      BY ONLY <1>a, <3>2
    <3>4. UNCHANGED <<state, list, young, struck, up, crashes, suspects, collected, results,
                      overdue, timeouts, expiring, closing>>
      BY <1>15 DEF Execute
    <3>. QED BY <3>2, <3>3, <3>4
  <2>2. \A u \in Callers : Claims(u)' = Claims(u)
    BY <1>15, <2>1 DEF Execute
  <2>3. \A u \in Callers : current'[u] = current[u] \/ (u = t /\ current'[u] = NoJob)
    BY <1>15, <2>1 DEF Execute
  <2>4. \A j \in Jobs : j # current[t] =>
            runner'[j] = runner[j] /\ (j \in meta' <=> j \in meta)
    BY <1>15 DEF Execute
  <2>5. \/ current' = current
        \/ runner' = runner /\ runner[current[t]] = "none"
    BY <1>15 DEF Execute
  <2>6. \A j \in Jobs : Launched(j) => Launched(j)' /\ j # current[t]
    <3>1. current[t] \in Claims(t)
      BY <2>1, DaemonAssumption
    <3>. HIDE DEF Claims
    <3>. QED BY <2>1, <2>2, <3>1
  <2>7. up' /\ NoStrayRunner'
    BY <2>1, <2>4
  <2>8. ClaimsRunning'
    BY <2>1, <2>2, <2>3, DaemonAssumption
  <2>9. WorkersRecorded'
    <3>1. ASSUME NEW j \in Jobs \ struck, runner'[j] = "alive"
          PROVE  j \in meta' \/ \E u \in Callers : current'[u] = j
      <4>1. CASE j = current[t]
        BY <3>1, <4>1, <2>5
      <4>2. CASE j # current[t]
        <5>1. j \in meta \/ \E u \in Callers : current[u] = j
          BY <3>1, <4>2, <2>4
        <5>. QED BY <5>1, <4>2, <2>3, <2>4
      <4>. QED BY <4>1, <4>2
    <3>. QED BY <3>1, <2>1
  <2>10. SuspectsSound'
    BY <2>1
  <2>11. EventsSound'
    BY <1>0, <2>1, <2>4, <2>6
  <2>12. DeadlinesSound'
    <3>1. closing # NoJob => Quiet(closing)'
      BY <2>1, <2>4, <2>5
    <3>. QED BY <3>1, <2>1, <2>4, <2>6
  <2>13. StruckSound'
    BY <2>1
  <2>. QED BY <2>7, <2>8, <2>9, <2>10, <2>11, <2>12, <2>13
<1>16. ASSUME NEW t \in Callers, RecordRunner(t) PROVE StraySound'
  <2>0. /\ UNCHANGED <<state, list, young, struck, up, crashes>>
        /\ \A u \in Callers : Claims(u)' \subseteq Claims(u)
        /\ \A u \in Callers : current'[u] = current[u] \/ current'[u] = NoJob
    BY <1>16 DEF RecordRunner
  <2>1. up' /\ NoStrayRunner'
    BY <1>16, <1>0 DEF RecordRunner
  <2>2. ClaimsRunning'
    <3>1. \A u \in Callers : Claims(u)' \subseteq young
      BY ONLY <1>a, <2>0
    <3>2. ASSUME NEW u \in Callers, current'[u] \in Jobs \ struck
          PROVE  state'[current'[u]] = "Running"
      <4>1. current'[u] = current[u] /\ current[u] # NoJob
        BY <2>0, <3>2, DaemonAssumption
      <4>2. state[current[u]] = "Running"
        BY ONLY <1>a, <3>2, <4>1
      <4>. QED BY <2>0, <3>2, <4>1, <4>2
    <3>. HIDE DEF Claims
    <3>. QED BY <2>0, <3>1, <3>2
  <2>3. WorkersRecorded'
    BY <1>16, <1>0 DEF RecordRunner
  <2>4. SuspectsSound'
    BY <1>16, <1>0 DEF RecordRunner
  <2>5. EventsSound'
    BY <1>16, <1>0 DEF RecordRunner
  <2>6. DeadlinesSound' /\ StruckSound'
    BY <1>16, <1>0 DEF RecordRunner
  <2>. QED BY <2>1, <2>2, <2>3, <2>4, <2>5, <2>6
<1>17. ASSUME NEW t \in Callers, Settle(t) PROVE StraySound'
  <2>0. /\ UNCHANGED <<list, current, young, struck, up, crashes>>
        /\ \A u \in Callers : Claims(u)' \subseteq Claims(u)
        /\ \A j \in Jobs : j \notin failed[t] => state'[j] = state[j]
        /\ \A u \in Callers : current[u] \notin failed[t] \/ current[u] = NoJob
    BY <1>17 DEF Settle
  <2>1. up' /\ NoStrayRunner'
    BY <1>17, <1>0 DEF Settle
  <2>2. ClaimsRunning'
    <3>1. \A u \in Callers : Claims(u)' \subseteq young
      BY ONLY <1>a, <2>0
    <3>2. ASSUME NEW u \in Callers, current'[u] \in Jobs \ struck
          PROVE  state'[current'[u]] = "Running"
      <4>1. current'[u] = current[u] /\ current[u] # NoJob
        BY <2>0, <3>2, DaemonAssumption
      <4>2. state[current[u]] = "Running"
        BY ONLY <1>a, <3>2, <4>1
      <4>. QED BY <2>0, <3>2, <4>1, <4>2
    <3>. HIDE DEF Claims
    <3>. QED BY <2>0, <3>1, <3>2
  <2>3. WorkersRecorded'
    BY <1>17, <1>0 DEF Settle
  <2>4. SuspectsSound'
    BY <1>17, <1>0 DEF Settle
  <2>5. EventsSound'
    BY <1>17, <1>0 DEF Settle
  <2>6. DeadlinesSound' /\ StruckSound'
    BY <1>17, <1>0 DEF Settle
  <2>. QED BY <2>1, <2>2, <2>3, <2>4, <2>5, <2>6
<1>18. CASE Save
  BY <1>18, <1>0 DEF Save
<1>19. CASE NoteRunning
  BY <1>19, <1>0 DEF NoteRunning
<1>20. CASE CollectFinished
  <2>1. UNCHANGED <<state, list, current, failed, meta, runner, young, overdue, timeouts,
                    expiring, closing, crashes, up>>
    BY <1>20 DEF CollectFinished
  <2>2. ASSUME NEW i \in DOMAIN results'
        PROVE  Launched(results'[i].job) /\ Quiet(results'[i].job)
    <3>1. CASE Old(results'[i])
      BY <3>1 DEF Old
    <3>2. CASE /\ results'[i].job \in suspects \cap Collectable
               /\ results'[i].is = result[results'[i].job]
      BY <3>2 DEF Collectable, HasResult
    <3>. QED BY <1>20, <3>1, <3>2, CollectFinishedEvents
  <2>3. up' /\ NoStrayRunner'
    BY <1>20, <1>0, <2>1, <2>2 DEF CollectFinished, ToProbe
  <2>4. ClaimsRunning'
    BY <1>20, <1>0, <2>1, <2>2 DEF CollectFinished, ToProbe
  <2>5. WorkersRecorded'
    BY <1>20, <1>0, <2>1, <2>2 DEF CollectFinished, ToProbe
  <2>6. SuspectsSound'
    BY <1>20, <1>0, <2>1, <2>2 DEF CollectFinished, ToProbe
  <2>7. EventsSound'
    BY <1>20, <1>0, <2>1, <2>2 DEF CollectFinished, ToProbe
  <2>8. DeadlinesSound' /\ StruckSound'
    BY <1>20, <1>0, <2>1, <2>2 DEF CollectFinished, ToProbe
  <2>. QED BY <2>3, <2>4, <2>5, <2>6, <2>7, <2>8
<1>21. CASE Probe
  <2>1. UNCHANGED <<state, list, current, failed, meta, runner, young, overdue, timeouts,
                    expiring, closing, crashes, up>>
    BY <1>21 DEF Probe
  <2>2. ASSUME NEW i \in DOMAIN results'
        PROVE  Launched(results'[i].job) /\ Quiet(results'[i].job)
    <3>1. CASE Old(results'[i])
      BY <3>1 DEF Old
    <3>2. CASE results'[i].job \in suspects /\ Status(results'[i].job) # "Running"
      <4>1. results'[i].job \in Jobs \ young
        BY <1>21, <3>2 DEF Probe
      <4>2. /\ state[results'[i].job] \notin Unstarted
            /\ \A u \in Callers : results'[i].job \notin Claims(u)
        <5>1. results'[i].job \in suspects /\ collected
          BY <1>21, <3>2 DEF Probe
        <5>2. \A u \in Callers : results'[i].job \notin Claims(u)
          BY ONLY <1>a, <4>1
        <5>. QED BY ONLY <1>b, <5>1, <5>2
      <4>3. \A u \in Callers : current[u] # results'[i].job
        BY <4>1, <4>2, DaemonAssumption
      <4>. QED BY <3>2, <4>1, <4>2, <4>3 DEF Status, HasResult
    <3>. QED BY <1>21, <3>1, <3>2, ProbeEvents
  <2>3. up' /\ NoStrayRunner'
    BY <1>21, <1>0, <2>1, <2>2 DEF Probe
  <2>4. ClaimsRunning'
    BY <1>21, <1>0, <2>1, <2>2 DEF Probe
  <2>5. WorkersRecorded'
    BY <1>21, <1>0, <2>1, <2>2 DEF Probe
  <2>6. SuspectsSound'
    BY <1>21, <1>0, <2>1, <2>2 DEF Probe
  <2>7. EventsSound'
    BY <1>21, <1>0, <2>1, <2>2 DEF Probe
  <2>8. DeadlinesSound' /\ StruckSound'
    BY <1>21, <1>0, <2>1, <2>2 DEF Probe
  <2>. QED BY <2>3, <2>4, <2>5, <2>6, <2>7, <2>8
<1>22. CASE HandleResult
  <2>1. up' /\ NoStrayRunner'
    BY <1>22, <1>0, HandleResultEvents DEF HandleResult, Verdict, Old
  <2>2. ClaimsRunning'
    <3>1. /\ UNCHANGED <<list, current, failed, young, struck>>
          /\ \A u \in Callers : current[u] # Head(results).job \/ current[u] = NoJob
      BY <1>22, <1>0, DaemonAssumption DEF HandleResult
    <3>2. \A j \in Jobs : j # Head(results).job => state'[j] = state[j]
      BY <1>22, <1>0 DEF HandleResult
    <3>. QED BY <3>1, <3>2, DaemonAssumption
  <2>3. WorkersRecorded'
    BY <1>22, <1>0, HandleResultEvents DEF HandleResult, Verdict, Old
  <2>4. SuspectsSound'
    BY <1>22, <1>0, HandleResultEvents DEF HandleResult, Verdict, Old
  <2>5. EventsSound'
    BY <1>22, <1>0, HandleResultEvents DEF HandleResult, Verdict, Old
  <2>6. DeadlinesSound' /\ StruckSound'
    BY <1>22, <1>0, HandleResultEvents DEF HandleResult, Verdict, Old
  <2>. QED BY <2>1, <2>2, <2>3, <2>4, <2>5, <2>6
<1>23. CASE TimeoutPoll
  BY <1>23, <1>0 DEF TimeoutPoll
<1>24. CASE TimeoutTerminate
  BY <1>24, <1>0 DEF TimeoutTerminate, Terminated
<1>25. CASE TimeoutApply
  <2>1. up' /\ NoStrayRunner'
    BY <1>25, <1>0 DEF TimeoutApply
  <2>2. ClaimsRunning'
    BY <1>25, <1>0 DEF TimeoutApply
  <2>3. WorkersRecorded'
    BY <1>25, <1>0 DEF TimeoutApply
  <2>4. SuspectsSound'
    BY <1>25, <1>0 DEF TimeoutApply
  <2>5. EventsSound'
    BY <1>25, <1>0 DEF TimeoutApply
  <2>6. DeadlinesSound' /\ StruckSound'
    BY <1>25, <1>0 DEF TimeoutApply
  <2>. QED BY <2>1, <2>2, <2>3, <2>4, <2>5, <2>6
<1>26. CASE GpuPoll
  BY <1>26, <1>0 DEF GpuPoll
<1>27. CASE Lag
  BY <1>27, <1>0, LagEvents DEF Lag, Old
<1>28. CASE Crash
  BY <1>28, <1>0 DEF Crash
<1>29. CASE Recover
  BY <1>29, <1>0 DEF Recover
<1>30. CASE UNCHANGED vars
  BY <1>30, <1>0 DEF vars
<1>. HIDE DEF StraySound, Core, CallersSound, TypeOK
<1>. QED
  BY <1>1, <1>2, <1>3, <1>4, <1>5, <1>6, <1>7, <1>8, <1>9, <1>10, <1>11, <1>12, <1>13,
     <1>14, <1>15, <1>16, <1>17, <1>18, <1>19, <1>20, <1>21, <1>22, <1>23, <1>24, <1>25, <1>26,
     <1>27, <1>28, <1>29, <1>30
     DEF Next, Caller, Monitor, TimeoutHandler

(* Only a crash counts as one.  *)
LEMMA CrashesCounted ==
    ASSUME TypeOK, [Next]_vars
    PROVE  IF Crash THEN crashes' # 0 ELSE crashes' = crashes
<1>1. ASSUME Crash PROVE crashes' # 0
  <2>1. crashes \in Int /\ crashes >= 0 /\ crashes' = crashes + 1
    BY <1>1, DaemonAssumption DEF Crash, TypeOK, Allowed
  <2>. QED BY <2>1
<1>2. ASSUME [Next]_vars, ~Crash PROVE crashes' = crashes
  BY <1>2 DEF vars, worldVars, Next, Caller, Monitor, TimeoutHandler, Submit, Cancel, Exit, Die,
              Age, Overrun, EndCancel, SetLimit, ReadEvents, Tick, ReleaseDue, Pass,
              SaveBeforeLaunch, Recheck, Execute, RecordRunner, Settle, Save, NoteRunning,
              CollectFinished, Probe, HandleResult, TimeoutPoll, TimeoutTerminate, TimeoutApply,
              GpuPoll, Lag, Recover
<1>. QED
  BY <1>1, <1>2

(* Every step keeps the whole invariant.  *)
LEMMA StepInvariant == IInv /\ [Next]_vars => IInv'
<1>. SUFFICES ASSUME IInv, [Next]_vars PROVE IInv'
  OBVIOUS
<1>1. TypeOK /\ CallersSound /\ TypeOK' /\ CallersSound'
  BY NextType, CallersStep DEF IInv
<1>2. IF Crash THEN crashes' # 0 ELSE crashes' = crashes
  BY <1>1, CrashesCounted
<1>3. ASSUME Intact' PROVE Core'
  <2>1. Intact /\ (Crash => SavesSucceed)
    BY <1>2, <1>3 DEF Intact, SavesSucceed
  <2>. QED BY <1>1, <2>1, CoreStep DEF IInv
<1>4. ASSUME SavesSucceed PROVE DiskSound'
  BY <1>1, <1>4, DiskStep DEF IInv, Intact
<1>5. ASSUME crashes' = 0 PROVE StraySound'
  BY <1>1, <1>2, <1>5, StrayStep DEF IInv, Intact
<1>. QED
  BY <1>1, <1>3, <1>4, <1>5 DEF IInv, SavesSucceed

(* The invariant holds in every state of every behaviour.  *)
LEMMA Inductive == Spec => []IInv
<1>. QED
  BY InitInvariant, StepInvariant, PTL DEF Spec

(* Jobs, runners, files, events and the callers of trigger_scheduling always have their
   types.  *)
THEOREM TypeCorrect == Spec => []TypeOK
<1>1. IInv => TypeOK
  BY DEF IInv
<1>. QED
  BY <1>1, Inductive, PTL

(* As long as the state file can be written: whatever is lost, read late or read again
   after a crash, a job is Finished only if its payload succeeded, and no runner is at
   work whose job the next daemon would not know.  *)
THEOREM Recorded ==
    ASSUME \A u \in DOMAIN Setups : Setups[u].savesFail = FALSE
    PROVE  Spec => []RunnersRecorded
<1>1. IInv => RunnersRecorded
  BY DEF IInv, Intact, Core, SavesSucceed, DiskSound, RunnersRecorded, RunnerHasJobState,
         Unstarted
<1>. QED
  BY <1>1, Inductive, PTL

(* Until the daemon crashes: whoever ends a job - results, the zombie monitor, timeouts,
   failed launches, cancellations - has ended or signalled its runner, whether the state file
   can be written or not; only a cancellation that came while the executor was at the job
   may leave it.  *)
THEOREM NoStrays == Spec => []NoStrayRunner
<1>1. IInv => NoStrayRunner
  BY DEF IInv, StraySound, NoStrayRunner
<1>. QED
  BY <1>1, Inductive, PTL

-----------------------------------------------------------------------------
(* The daemon implements what it promises of a job (JobRun): the record is the state file,
   and the work is the runner and how its payload ended.  In every step the record of a job
   moves forward, if it moves, and is Finished only after a success ...  *)
RecordMoves(k) ==
    \/ disk'[k] = disk[k]
    \/ /\ \/ disk[k] = "Absent" /\ disk'[k] # "Absent"
          \/ disk[k] = "Queued" /\ disk'[k] \notin Unstarted
          \/ disk[k] = "Running" /\ disk'[k] \in Ended
       /\ disk'[k] = "Finished" => outcome[k] = "ok"

(* ... and the payload begins once, when the job is recorded as started, or ends.  *)
RunnerMoves(k) ==
    \/ outcome'[k] = outcome[k] /\ runner'[k] = runner[k]
    \/ /\ runner[k] = "none" /\ outcome[k] = "none" /\ disk[k] \notin Unstarted
       /\ runner'[k] = "alive" /\ outcome'[k] = "none"
    \/ /\ Alive(k) /\ outcome[k] = "none"
       /\ \/ runner'[k] = "killed" /\ outcome'[k] = "none"
          \/ runner'[k] = "gone"
FilesMove == \A k \in Jobs : RecordMoves(k) /\ RunnerMoves(k)

(* Action by action.  *)
LEMMA FilesMoveStep ==
    ASSUME TypeOK, CallersSound, Core, SavesSucceed, DiskSound, [Next]_vars
    PROVE  FilesMove
<1>. USE DEF tableVars, fileVars, runnerVars, clockVars, busVars, passVars, monitorVars,
             worldVars, TypeOK, States, CallersSound, Core, ClaimsFresh, ResultsTrue,
             FinishedMeansSucceeded, DiskSound, Behind, Unstarted, Ended, Alive, Callers,
             FilesMove, RecordMoves, RunnerMoves, Claims, Cleanup
<1>1. ASSUME NEW j \in Jobs, Submit(j) PROVE FilesMove
  BY <1>1 DEF Submit
<1>2. ASSUME NEW j \in Jobs, Cancel(j) PROVE FilesMove
  BY <1>2 DEF Cancel, Terminated
<1>3. ASSUME NEW j \in Jobs, Exit(j) PROVE FilesMove
  BY <1>3 DEF Exit
<1>4. ASSUME NEW j \in Jobs, Die(j) PROVE FilesMove
  BY <1>4 DEF Die
<1>5. ASSUME NEW j \in Jobs, Age(j) PROVE FilesMove
  BY <1>5 DEF Age
<1>6. ASSUME NEW j \in Jobs, Overrun(j) PROVE FilesMove
  BY <1>6 DEF Overrun
<1>7. CASE EndCancel
  BY <1>7 DEF EndCancel
<1>8. CASE SetLimit
  BY <1>8 DEF SetLimit
<1>9. CASE ReadEvents
  BY <1>9 DEF ReadEvents
<1>10. CASE Tick
  BY <1>10 DEF Tick
<1>11. CASE ReleaseDue
  BY <1>11 DEF ReleaseDue
<1>12. ASSUME NEW t \in Callers, Pass(t) PROVE FilesMove
  BY <1>12 DEF Pass
<1>13. ASSUME NEW t \in Callers, SaveBeforeLaunch(t) PROVE FilesMove
  BY <1>13 DEF SaveBeforeLaunch, SavedStates, SavesSucceed, Allowed
<1>14. ASSUME NEW t \in Callers, Recheck(t) PROVE FilesMove
  BY <1>14 DEF Recheck
<1>15. ASSUME NEW t \in Callers, Execute(t) PROVE FilesMove
  BY <1>15 DEF Execute
<1>16. ASSUME NEW t \in Callers, RecordRunner(t) PROVE FilesMove
  BY <1>16 DEF RecordRunner
<1>17. ASSUME NEW t \in Callers, Settle(t) PROVE FilesMove
  BY <1>17 DEF Settle
<1>18. CASE Save
  BY <1>18 DEF Save, SavedStates, SavesSucceed, Allowed
<1>19. CASE NoteRunning
  BY <1>19 DEF NoteRunning
<1>20. CASE CollectFinished
  BY <1>20 DEF CollectFinished
<1>21. CASE Probe
  BY <1>21 DEF Probe
<1>22. CASE HandleResult
  BY <1>22 DEF HandleResult
<1>23. CASE TimeoutPoll
  BY <1>23 DEF TimeoutPoll
<1>24. CASE TimeoutTerminate
  BY <1>24 DEF TimeoutTerminate, Terminated
<1>25. CASE TimeoutApply
  BY <1>25 DEF TimeoutApply
<1>26. CASE GpuPoll
  BY <1>26 DEF GpuPoll
<1>27. CASE Lag
  BY <1>27 DEF Lag
<1>28. CASE Crash
  BY <1>28 DEF Crash
<1>29. CASE Recover
  BY <1>29 DEF Recover
<1>30. CASE UNCHANGED vars
  BY <1>30 DEF vars
<1>. QED
  BY SMTT(40), <1>1, <1>2, <1>3, <1>4, <1>5, <1>6, <1>7, <1>8, <1>9, <1>10, <1>11, <1>12, <1>13,
     <1>14, <1>15, <1>16, <1>17, <1>18, <1>19, <1>20, <1>21, <1>22, <1>23, <1>24, <1>25, <1>26,
     <1>27, <1>28, <1>29, <1>30
     DEF Next, Caller, Monitor, TimeoutHandler

(* Initial states map to initial states, and steps to steps or stutters.  *)
LEMMA RunInit == Init => Promised!Init
BY DEF Init, Promised!Init, Work, Alive

(* Every step is a step of the contract or none.  *)
LEMMA RunStep == IInv /\ SavesSucceed /\ [Next]_vars => [Promised!Next]_(Promised!vars)
<1>. SUFFICES ASSUME IInv, SavesSucceed, [Next]_vars PROVE Promised!Next
  OBVIOUS
<1>. USE DEF Promised!Recorded, Promised!Unstarted, Promised!Ended
<1>1. TypeOK /\ TypeOK'
  BY StepInvariant DEF IInv
<1>2. disk' \in [Jobs -> Promised!Recorded]
  BY <1>1 DEF TypeOK, States, Ended
<1>3. Work' \in [Jobs -> {"none", "running", "ok", "bad"}]
  BY <1>1 DEF TypeOK, Work
<1>4. /\ Promised!Later["Absent"] = Promised!Recorded \ {"Absent"}
      /\ Promised!Later["Queued"] = {"Running"} \cup Promised!Ended
      /\ Promised!Later["Running"] = Promised!Ended
  BY DEF Promised!Later
<1>. SUFFICES ASSUME NEW k \in Jobs
              PROVE  /\ Promised!Advance(k) \/ disk'[k] = disk[k]
                     /\ Promised!Begin(k) \/ Promised!End(k) \/ Work'[k] = Work[k]
  BY <1>2, <1>3 DEF Promised!Next
<1>5. RecordMoves(k) /\ RunnerMoves(k)
  BY FilesMoveStep DEF FilesMove, IInv, Intact
<1>6. Promised!Advance(k) \/ disk'[k] = disk[k]
  BY <1>2, <1>4, <1>5 DEF RecordMoves, Promised!Advance, Work, Ended, Unstarted
<1>7. Promised!Begin(k) \/ Promised!End(k) \/ Work'[k] = Work[k]
  BY <1>1, <1>5 DEF RunnerMoves, Promised!Begin, Promised!End, Work, TypeOK, States, Unstarted,
                    Alive
<1>. QED
  BY <1>6, <1>7

(* As long as the state file can be written: what it says of a job only moves forward, the
   payload is started once - not by two callers of trigger_scheduling, nor again after a
   crash around its launch - and only when the file says so, and it says Finished only if
   the payload succeeded.  *)
THEOREM Refinement ==
    ASSUME \A u \in DOMAIN Setups : Setups[u].savesFail = FALSE
    PROVE  Spec => ImplementsJobRun
<1>1. SavesSucceed
  BY DEF SavesSucceed
<1>2. IInv /\ [Next]_vars => [Promised!Next]_(Promised!vars)
  BY <1>1, RunStep
<1>. QED
  BY <1>2, RunInit, Inductive, PTL DEF Spec, ImplementsJobRun, Promised!Spec
=============================================================================
