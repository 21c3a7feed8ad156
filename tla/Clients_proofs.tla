--------------------------- MODULE Clients_proofs ---------------------------
(***************************************************************************)
(* Proofs about the commands of users.  First what they are told of their   *)
(* jobs, by notifications and by grun, for every set of jobs, targets,      *)
(* addresses and exit codes, any capacity of the channel, any number of     *)
(* deliveries at a time and any number of requests and outages.  Then how   *)
(* jobs are submitted, resubmitted and redone by any number of shells and   *)
(* users, for every limit of the queues and every list of shorthands.  The  *)
(* two have no state in common.                                             *)
(***************************************************************************)
EXTENDS Notifications, Submission, FiniteSetTheorems, WellFoundedInduction,
        SequenceTheorems, TLAPS

(* What is on the channel: verdicts, results, vanished runners and timeouts are of jobs,
   a verdict is a final state and a result an exit code.  *)
EventSound(e) ==
    /\ e.type \in {"completed", "exec", "zombie", "timed_out"} => e.job \in Jobs
    /\ e.type = "completed" => e.info \in Final
    /\ e.type = "exec" => e.info \in {"0", "3", "signal"}
Published ==
    {e \in [type : {"submitted", "updated", "completed", "timed_out", "gpu", "started",
                    "exec", "zombie"},
            job : Jobs \cup {NoJob},
            info : Final \cup Codes \cup GpuEvents \cup {"", "signal"}] : EventSound(e)}
Pending == [type : {"completed"}, job : Jobs, info : Final, req : 0 .. MaxRequests + 1]

BusSound == log \in Seq(Published) /\ outbox \subseteq Pending

(* A verdict is what became of the job, or was refused.  *)
True(e, is, refusals) ==
    e.type = "completed" => is[e.job] = e.info \/ <<e.job, e.info>> \in refusals
VerdictsSound ==
    /\ \A i \in DOMAIN log : True(log[i], job, refused)
    /\ \A e \in outbox : True(e, job, refused)

(* A delivery has a permit.  Those under way and those given up are of events the notifier
   has read, of targets it has no more to start, and of no other delivery.  *)
Begun(n, i, m) == n \in Notifiers /\ m <= at[n] /\ (m = at[n] => i \notin todo[n])
DeliveriesSound ==
    /\ IsFiniteSet(inflight)
    /\ permits + Cardinality(inflight) = MaxDeliveries
    /\ \A d \in inflight : Begun(d.by, d.target, d.event) /\ Key(d) \notin givenUp
    /\ \A d, e \in inflight : Key(d) = Key(e) => d = e
    /\ givenUp \subseteq Notifiers \X Nat \X Nat
    /\ \A k \in givenUp : Begun(k[1], k[2], k[3])

(* grun follows a job there is, and none before it submits one.  *)
Follower == [at : {"idle", "submitted", "waiting", "done"}, stream : BOOLEAN,
             code : {"none", "0", "3"}, exit : {"none", "0", "1", "3", "124", "130"},
             why : {"none", "outcome", "interrupt", "error"}]
FollowerSound ==
    /\ fol \in Follower
    /\ Followed \in Jobs /\ mode # "notify" => (job[Followed] = "none" <=> fol.at = "idle")
    /\ fol.at # "idle" => Followed \in Jobs /\ mode # "notify"

IInv == TypeOK /\ BusSound /\ VerdictsSound /\ DeliveriesSound /\ FollowerSound
        /\ ExitTellsOutcome

-----------------------------------------------------------------------------
(* What the operators of the model return.  *)

(* A set of naturals has a least element.  *)
LEMMA LeastOf ==
    ASSUME NEW T \in SUBSET Nat, T # {}
    PROVE  \E n \in T : \A m \in T : n <= m
<1>. DEFINE R == OpToRel(<, Nat)
<1>1. PICK n \in T : \A m \in T : <<m, n>> \notin R
  <2>1. IsWellFoundedOn(R, Nat)
    BY NatLessThanWellFounded
  <2>. HIDE DEF R
  <2>. QED BY <2>1, WFMin
<1>2. \A m \in T : ~(m < n)
  BY <1>1 DEF OpToRel
<1>. QED BY <1>2

(* The least and the greatest of some naturals.  *)
LEMMA MinIn == ASSUME NEW S \in SUBSET Nat, S # {} PROVE Min(S) \in S
BY LeastOf DEF Min

LEMMA MaxIn == ASSUME NEW n \in Nat, NEW S \in SUBSET (0 .. n), S # {} PROVE Max(S) \in S
<1>. DEFINE T == {n - x : x \in S}
<1>1. T \in SUBSET Nat /\ T # {}
  <2>1. \A x \in S : n - x \in Nat
    OBVIOUS
  <2>. QED BY <2>1
<1>2. PICK t \in T : \A m \in T : t <= m
  <2>. HIDE DEF T
  <2>. QED BY <1>1, LeastOf
<1>3. PICK x \in S : t = n - x
  BY <1>2
<1>4. \A y \in S : x >= y
  <2>. SUFFICES ASSUME NEW y \in S PROVE x >= y
    OBVIOUS
  <2>1. n - y \in T
    OBVIOUS
  <2>. HIDE DEF T
  <2>. QED BY <1>2, <1>3, <2>1
<1>. HIDE DEF T
<1>. QED BY <1>4 DEF Max

(* The states and what may follow them.  *)
LEMMA StatesAre ==
    /\ DOMAIN CanTransitionTo = {"none", "queued", "hold"} \cup {"running"} \cup Final
    /\ CanTransitionTo["none"] = {}
    /\ CanTransitionTo["queued"] = {"running", "hold", "cancelled"}
    /\ CanTransitionTo["hold"] = {"queued", "cancelled"}
    /\ CanTransitionTo["running"] = Final
    /\ \A s \in Final : CanTransitionTo[s] = {}
BY DEF CanTransitionTo, Final

(* The event a handler of the daemon comes to.  *)
LEMMA NextForIn ==
    ASSUME TypeOK, BusSound, NEW s \in Subscribers, NEW types, NextFor(s, types) # 0
    PROVE  /\ NextFor(s, types) \in DOMAIN log
           /\ log[NextFor(s, types)] \in Published /\ log[NextFor(s, types)].type \in types
<1>. DEFINE I == {i \in at[s] + 1 .. Len(log) : log[i].type \in types}
<1>1. NextFor(s, types) = IF I # {} THEN Min(I) ELSE 0
  BY DEF NextFor, SelectInSubSeq
<1>2. at[s] \in Nat /\ Len(log) \in Nat
  BY DEF TypeOK, BusSound
<1>3. I \in SUBSET Nat
  BY <1>2
<1>4. Min(I) \in I
  <2>1. I # {}
    BY <1>1
  <2>. HIDE DEF I
  <2>. QED BY <1>3, <2>1, MinIn
<1>5. NextFor(s, types) \in I
  BY <1>1, <1>4
<1>. QED BY <1>2, <1>5 DEF BusSound

(* What an end does to the jobs.  *)
JobsKept ==
    /\ job' \in [Jobs -> DOMAIN CanTransitionTo]
    /\ \A j \in Jobs : job[j] \in Final => job'[j] = job[j]
    /\ \A j \in Jobs : job'[j] = "none" => job[j] = "none"
    /\ refused \subseteq refused'
    /\ quiet' \subseteq Jobs

(* Only jobs that wait are cancelled with another one.  *)
LEMMA CascadeIn ==
    ASSUME TypeOK, NEW j \in Jobs, NEW s
    PROVE  /\ Cascade(j, s) \subseteq Jobs
           /\ \A k \in Cascade(j, s) : job[k] \in {"queued", "hold"}
BY NotificationsAssumption DEF Cascade, TypeOK

(* An end is announced, and it is what became of the job or it was refused.  *)
LEMMA EndsEffect ==
    ASSUME TypeOK, BusSound,
           NEW j \in Jobs, NEW s \in Final, NEW req \in 0 .. MaxRequests + 1, Ends(j, s, req)
    PROVE  /\ JobsKept
           /\ \A k \in Jobs : job[k] = "none" => job'[k] = "none"
           /\ \E p \in Pending : /\ outbox' = outbox \cup {p}
                                 /\ p.job = j /\ p.info = s
           /\ job'[j] = s \/ <<j, s>> \in refused'
           /\ s = "cancelled" /\ job[j] # "none" => job'[j] \in Final
<1>. DEFINE p == [type |-> "completed", job |-> j, info |-> s, req |-> req]
<1>1. p \in Pending /\ outbox' = outbox \cup {p} /\ p.job = j /\ p.info = s
  BY DEF Ends, Pending
<1>2. CASE s \in CanTransitionTo[job[j]]
  <2>1. /\ job' = [k \in Jobs |-> IF k = j THEN s
                                  ELSE IF k \in Cascade(j, s) THEN "cancelled" ELSE job[k]]
        /\ quiet' = quiet \cup Cascade(j, s) /\ refused' = refused
    BY <1>2 DEF Ends
  <2>2. job[j] \in {"queued", "hold", "running"}
    BY <1>2, StatesAre DEF TypeOK, Final
  <2>. QED BY <1>1, <2>1, <2>2, CascadeIn, StatesAre DEF JobsKept, TypeOK, Final
<1>3. CASE s \notin CanTransitionTo[job[j]]
  <2>1. job' = job /\ quiet' = quiet /\ refused' = refused \cup {<<j, s>>}
    BY <1>3 DEF Ends
  <2>2. s = "cancelled" /\ job[j] # "none" => job[j] \in Final
    BY <1>3, StatesAre DEF TypeOK, Final
  <2>. QED BY <1>1, <2>1, <2>2 DEF JobsKept, TypeOK
<1>. QED BY <1>2, <1>3

-----------------------------------------------------------------------------
(* What a step does to the channel: nothing, or an event that is no verdict, or a verdict
   of a handler, or one that was pending.  *)
BusMoves ==
    \/ log' = log /\ outbox' = outbox
    \/ \E e \in Published : /\ e.type # "completed"
                            /\ log' = Append(log, e) /\ outbox' = outbox
    \/ /\ log' = log
       /\ \E j \in Jobs, s \in Final, req \in 0 .. MaxRequests + 1 : Ends(j, s, req)
    \/ \E e \in outbox : PublishPending(e)

(* What a step that is not one of grun leaves of what grun goes by.  *)
FollowedKept ==
    /\ fol' = fol
    /\ Followed \in Jobs /\ mode # "notify" =>
          (job'[Followed] = "none" <=> job[Followed] = "none")

(* Notifications and a grun are not turned on and off.  *)
LEMMA ModeKept == ASSUME Next PROVE mode' = mode
<1>1. CASE JobStep
  BY <1>1 DEF JobStep, Submit, Hold, Release, Update, Start, LaunchFails, PayloadEnds,
              BecomesOverdue, Request, PollResults, PollTimeouts, GpuChanges, PublishPending,
              JobsOnly, boundVars
<1>2. CASE HandleResult \/ HandleTimeout
  BY <1>2 DEF HandleResult, HandleTimeout, boundVars
<1>3. CASE Grun
  BY <1>3 DEF Grun, GrunSubmits, GrunSubscribes, Interrupt, GrunReads, StreamCloses,
              GrunPolls, FollowerOnly
<1>4. CASE \/ \E s \in Subscribers : Lag(s)
           \/ \E n \in Notifiers : Receive(n) \/ Dispatch(n)
           \/ \E d \in inflight : Accepted(d) \/ Resend(d) \/ Failed(d)
  BY <1>4 DEF Lag, Receive, Dispatch, Accepted, Resend, Failed, boundVars
<1>. QED BY <1>1, <1>2, <1>3, <1>4 DEF Next

(* Events of jobs and of the GPU can be published.  *)
LEMMA Publishable ==
    /\ \A j \in Jobs : /\ Event("submitted", j, "") \in Published
                       /\ Event("updated", j, "") \in Published
                       /\ Event("timed_out", j, "") \in Published
                       /\ Event("zombie", j, "signal") \in Published
    /\ \A j \in Jobs : \A c \in Codes \ {"gone"} : Event("exec", j, c) \in Published
    /\ \A info \in GpuEvents : Event("gpu", NoJob, info) \in Published
    /\ Event("started", NoJob, "") \in Published
<1>1. Codes \subseteq {"0", "3", "signal", "gone"}
  BY NotificationsAssumption
<1>. QED BY <1>1 DEF Event, Published, EventSound

(* A request ends a job, or is refused and yet announced.  *)
LEMMA RequestStep ==
    ASSUME TypeOK, BusSound,
           NEW j \in Jobs, NEW s \in {"finished", "failed", "cancelled"}, Request(j, s)
    PROVE  JobsKept /\ BusMoves /\ FollowedKept
<1>1. /\ Ends(j, s, requests + 1) /\ s \in Final /\ requests + 1 \in 0 .. MaxRequests + 1
      /\ log' = log /\ fol' = fol
  BY NotificationsAssumption DEF Request, TypeOK, Final
<1>2. JobsKept /\ \A k \in Jobs : job[k] = "none" => job'[k] = "none"
  BY <1>1, EndsEffect
<1>. QED BY <1>1, <1>2 DEF BusMoves, FollowedKept, JobsKept

(* The steps of jobs.  *)
LEMMA JobSteps ==
    ASSUME TypeOK, BusSound, JobStep
    PROVE  JobsKept /\ BusMoves /\ FollowedKept
<1>. USE StatesAre DEF TypeOK, jobVars, busVars, pastVars, JobsOnly, Publish, Final
<1>1. ASSUME NEW j \in Jobs, Submit(j) PROVE JobsKept /\ BusMoves /\ FollowedKept
  BY <1>1, Publishable DEF Event, Submit, JobsKept, BusMoves, FollowedKept
<1>2. ASSUME NEW j \in Jobs, Hold(j) PROVE JobsKept /\ BusMoves /\ FollowedKept
  BY <1>2 DEF Hold, JobsKept, BusMoves, FollowedKept
<1>3. ASSUME NEW j \in Jobs, Release(j) PROVE JobsKept /\ BusMoves /\ FollowedKept
  BY <1>3, Publishable DEF Event, Release, JobsKept, BusMoves, FollowedKept
<1>4. ASSUME NEW j \in Jobs, Update(j) PROVE JobsKept /\ BusMoves /\ FollowedKept
  BY <1>4, Publishable DEF Event, Update, JobsKept, BusMoves, FollowedKept
<1>5. ASSUME NEW j \in Jobs, Start(j) PROVE JobsKept /\ BusMoves /\ FollowedKept
  BY <1>5 DEF Start, JobsKept, BusMoves, FollowedKept
<1>6. ASSUME NEW j \in Jobs, LaunchFails(j) PROVE JobsKept /\ BusMoves /\ FollowedKept
  BY <1>6 DEF LaunchFails, JobsKept, BusMoves, FollowedKept
<1>7. ASSUME NEW j \in Jobs, NEW code \in Codes, PayloadEnds(j, code)
      PROVE  JobsKept /\ BusMoves /\ FollowedKept
  BY <1>7 DEF PayloadEnds, JobsKept, BusMoves, FollowedKept
<1>8. ASSUME NEW j \in Jobs, BecomesOverdue(j) PROVE JobsKept /\ BusMoves /\ FollowedKept
  BY <1>8 DEF BecomesOverdue, JobsKept, BusMoves, FollowedKept
<1>9. ASSUME NEW j \in Jobs, NEW s \in {"finished", "failed", "cancelled"}, Request(j, s)
      PROVE  JobsKept /\ BusMoves /\ FollowedKept
  BY <1>9, RequestStep
<1>10. ASSUME NEW j \in Jobs, PollResults(j) PROVE JobsKept /\ BusMoves /\ FollowedKept
  <2>1. PICK e \in Published : e.type # "completed" /\ log' = Append(log, e)
    <3>1. payload[j] \in Codes
      BY <1>10 DEF PollResults
    <3>. QED BY <1>10, <3>1, Publishable DEF PollResults, Event
  <2>. QED BY <1>10, <2>1 DEF PollResults, JobsKept, BusMoves, FollowedKept
<1>11. ASSUME NEW j \in Jobs, PollTimeouts(j) PROVE JobsKept /\ BusMoves /\ FollowedKept
  BY <1>11, Publishable DEF Event, PollTimeouts, JobsKept, BusMoves, FollowedKept
<1>12. ASSUME NEW info \in GpuEvents, GpuChanges(info)
       PROVE  JobsKept /\ BusMoves /\ FollowedKept
  <2>1. PICK e \in Published : e.type # "completed" /\ log' = Append(log, e)
    BY <1>12, Publishable DEF GpuChanges, Event
  <2>. QED BY <1>12, <2>1 DEF GpuChanges, JobsKept, BusMoves, FollowedKept
<1>13. ASSUME NEW e \in outbox, PublishPending(e)
       PROVE  JobsKept /\ BusMoves /\ FollowedKept
  BY <1>13 DEF PublishPending, JobsKept, BusMoves, FollowedKept
<1>. QED
  BY <1>1, <1>2, <1>3, <1>4, <1>5, <1>6, <1>7, <1>8, <1>9, <1>10, <1>11, <1>12, <1>13
  DEF JobStep

(* The handlers of the daemon, and the notifiers.  *)
Handlers == HandleResult \/ HandleTimeout
Notifying ==
    \/ \E s \in Subscribers : Lag(s)
    \/ \E n \in Notifiers : Receive(n) \/ Dispatch(n)
    \/ \E d \in inflight : Accepted(d) \/ Resend(d) \/ Failed(d)

(* A result or a timeout ends the job it is about, or is dropped.  *)
LEMMA HandlerSteps ==
    ASSUME TypeOK, BusSound, Handlers
    PROVE  JobsKept /\ BusMoves /\ FollowedKept
<1>1. CASE HandleResult
  <2>. DEFINE e == log[NextFor("results", {"exec", "zombie"})]
  <2>1. e \in Published /\ e.type \in {"exec", "zombie"}
    BY <1>1, NextForIn DEF HandleResult, Handles, Subscribers
  <2>2. e.job \in Jobs
    BY <2>1 DEF Published, EventSound
  <2>3. \/ \E s \in Final : Ends(e.job, s, 0)
        \/ UNCHANGED <<job, outbox, pastVars>>
    BY <1>1 DEF HandleResult, Final
  <2>4. log' = log /\ fol' = fol
    BY <1>1 DEF HandleResult
  <2>. HIDE DEF e
  <2>5. 0 \in 0 .. MaxRequests + 1
    BY NotificationsAssumption
  <2>6. CASE \E s \in Final : Ends(e.job, s, 0)
    <3>1. JobsKept /\ \A k \in Jobs : job[k] = "none" => job'[k] = "none"
      BY <2>2, <2>5, <2>6, EndsEffect
    <3>. QED BY <2>2, <2>4, <2>5, <2>6, <3>1 DEF BusMoves, FollowedKept, JobsKept
  <2>7. CASE UNCHANGED <<job, outbox, pastVars>>
    BY <2>4, <2>7 DEF BusMoves, FollowedKept, JobsKept, TypeOK, pastVars
  <2>. QED BY <2>3, <2>6, <2>7
<1>2. CASE HandleTimeout
  <2>. DEFINE e == log[NextFor("timeouts", {"timed_out"})]
  <2>1. e \in Published /\ e.type = "timed_out"
    BY <1>2, NextForIn DEF HandleTimeout, Handles, Subscribers
  <2>2. e.job \in Jobs
    BY <2>1 DEF Published, EventSound
  <2>3. /\ log' = log /\ outbox' = outbox /\ fol' = fol /\ refused' = refused
        /\ \/ /\ job[e.job] = "running"
              /\ job' = [k \in Jobs |-> IF k = e.job THEN "timeout"
                                        ELSE IF k \in Cascade(e.job, "timeout")
                                        THEN "cancelled" ELSE job[k]]
              /\ quiet' = quiet \cup Cascade(e.job, "timeout")
           \/ UNCHANGED <<job, quiet>>
    BY <1>2 DEF HandleTimeout
  <2>. HIDE DEF e
  <2>. QED BY <2>2, <2>3, CascadeIn, StatesAre
           DEF BusMoves, FollowedKept, JobsKept, TypeOK, Final
<1>. QED BY <1>1, <1>2 DEF Handlers

(* Notifiers read: they change no job and publish nothing.  *)
LEMMA NotifierSteps ==
    ASSUME TypeOK, Notifying
    PROVE  /\ log' = log /\ outbox' = outbox
           /\ JobsKept /\ BusMoves /\ FollowedKept
<1>1. UNCHANGED <<job, log, outbox, fol, refused, quiet>>
  BY DEF Notifying, Lag, Receive, Dispatch, Accepted, Resend, Failed, jobVars, busVars,
         pastVars
<1>. QED BY <1>1 DEF JobsKept, BusMoves, FollowedKept, TypeOK

-----------------------------------------------------------------------------
(* The last event about its job among those grun reads at a time.  *)
LEMMA LastReadIn ==
    ASSUME TypeOK, BusSound, FollowerSound, NEW k \in 1 .. Behind("follower"),
           NEW last, last # 0,
           last = SelectLastInSubSeq(log, at["follower"] + 1, at["follower"] + k, Relevant)
    PROVE  /\ last \in DOMAIN log /\ log[last] \in Published
           /\ Relevant(log[last])
<1>. DEFINE I == {i \in at["follower"] + 1 .. at["follower"] + k : Relevant(log[i])}
<1>1. last = IF I # {} THEN Max(I) ELSE 0
  BY DEF SelectLastInSubSeq
<1>2. /\ at["follower"] \in Nat /\ Len(log) \in Nat /\ at["follower"] + k \in Nat
      /\ at["follower"] + k <= Len(log)
  BY DEF TypeOK, BusSound, Behind, Subscribers
<1>3. I \in SUBSET (0 .. at["follower"] + k)
  BY <1>2
<1>4. I # {} /\ last = Max(I)
  BY <1>1
<1>5. last \in I
  <2>. HIDE DEF I
  <2>. QED BY <1>2, <1>3, <1>4, MaxIn
<1>6. last \in DOMAIN log
  BY <1>2, <1>5 DEF BusSound
<1>7. log[last] \in Published
  BY <1>6 DEF BusSound
<1>8. Relevant(log[last])
  BY <1>5
<1>. QED BY <1>6, <1>7, <1>8

(* One more outage.  *)
LEMMA Outage ==
    ASSUME TypeOK, outages < MaxOutages
    PROVE  outages + 1 \in 0 .. MaxOutages
<1>1. MaxOutages \in Nat /\ outages \in 0 .. MaxOutages
  BY NotificationsAssumption DEF TypeOK
<1>. QED BY <1>1

(* What grun exits with.  *)
LEMMA ExitCodes ==
    ASSUME NEW s \in Final, NEW code \in {"none", "0", "3"}
    PROVE  /\ ExitCodeFor(s, code) \in {"0", "1", "3", "124", "130"}
           /\ ExitCodeFor(s, code) = "0" => s = "finished"
           /\ ExitCodeFor(s, code) = "124" => s = "timeout"
           /\ ExitCodeFor(s, code) \in {"1", "3"} => s = "failed"
           /\ ExitCodeFor(s, code) = "130" => s = "cancelled"
BY DEF ExitCodeFor, Final

(* A look at the job leaves grun waiting, or lets it go with what became of the job.  *)
LEMMA LookedEffect ==
    ASSUME TypeOK, FollowerSound, NEW f \in Follower, f.at = "waiting", fol.at = "waiting",
           NEW asks \in BOOLEAN, Looked(f, asks), job' = job, mode' = mode
    PROVE  /\ FollowerSound' /\ ExitTellsOutcome'
           /\ outages' \in 0 .. MaxOutages
<1>0. Followed \in Jobs /\ job[Followed] # "none"
  BY DEF FollowerSound
<1>1. CASE fol' = f /\ outages' = outages
  BY <1>0, <1>1 DEF FollowerSound, ExitTellsOutcome, TypeOK
<1>2. CASE fol' = Leaves(f, job[Followed], "outcome") /\ job[Followed] \in Final
           /\ outages' = outages
  <2>1. f.code \in {"none", "0", "3"}
    BY DEF Follower
  <2>2. /\ fol' \in Follower /\ fol'.at = "done" /\ fol'.why = "outcome"
        /\ fol'.exit = ExitCodeFor(job[Followed], f.code)
    BY <1>2, <2>1, ExitCodes DEF Leaves, Follower
  <2>. QED BY <1>0, <1>2, <2>1, <2>2, ExitCodes DEF FollowerSound, ExitTellsOutcome, TypeOK
<1>3. CASE fol' = [f EXCEPT !.at = "done", !.exit = "1", !.why = "error"]
           /\ outages < MaxOutages /\ outages' = outages + 1
  BY <1>0, <1>3, Outage DEF FollowerSound, Follower, ExitTellsOutcome, TypeOK
<1>. QED BY <1>1, <1>2, <1>3 DEF Looked

(* What a step of grun keeps.  *)
GrunKept ==
    /\ JobsKept /\ BusMoves
    /\ FollowerSound' /\ ExitTellsOutcome'
    /\ outages' \in 0 .. MaxOutages

(* grun reads some events, and looks at the job when one of them is about it.  *)
LEMMA ReadStep ==
    ASSUME TypeOK, BusSound, FollowerSound, ExitTellsOutcome,
           NEW k \in 1 .. Capacity, GrunReads(k), mode' = mode
    PROVE  GrunKept
<1>1. /\ fol.at = "waiting" /\ k \in 1 .. Behind("follower")
      /\ job' = job /\ log' = log /\ outbox' = outbox /\ UNCHANGED <<refused, quiet>>
  BY DEF GrunReads, FollowerOnly, pastVars
<1>2. JobsKept /\ BusMoves
  BY <1>1 DEF JobsKept, BusMoves, TypeOK
<1>3. PICK last :
          last = SelectLastInSubSeq(log, at["follower"] + 1, at["follower"] + k, Relevant)
  OBVIOUS
<1>. DEFINE f == [fol EXCEPT !.code = IF log[last].info = "signal" THEN "none"
                                      ELSE log[last].info]
<1>4. \/ last = 0 /\ UNCHANGED <<fol, outages>>
      \/ last # 0 /\ log[last].type = "exec" /\ Looked(f, FALSE)
      \/ last # 0 /\ Looked(fol, TRUE)
  BY <1>3 DEF GrunReads
<1>5. CASE last = 0 /\ UNCHANGED <<fol, outages>>
  BY <1>1, <1>2, <1>5 DEF GrunKept, FollowerSound, ExitTellsOutcome, TypeOK
<1>6. CASE last # 0 /\ log[last].type = "exec" /\ Looked(f, FALSE)
  <2>1. log[last] \in Published
    BY <1>1, <1>3, <1>6, LastReadIn
  <2>2. log[last].info \in {"0", "3", "signal"}
    BY <1>6, <2>1 DEF Published, EventSound
  <2>3. f \in Follower /\ f.at = "waiting"
    BY <1>1, <2>2 DEF Follower, FollowerSound
  <2>. HIDE DEF f
  <2>. QED BY <1>1, <1>2, <1>6, <2>3, LookedEffect DEF GrunKept
<1>7. CASE last # 0 /\ Looked(fol, TRUE)
  <2>1. fol \in Follower
    BY DEF FollowerSound
  <2>. QED BY <1>1, <1>2, <1>7, <2>1, LookedEffect DEF GrunKept
<1>. QED BY <1>4, <1>5, <1>6, <1>7

(* Ctrl-C: grun asks for the cancellation and leaves, whether it was granted or not.  *)
LEMMA InterruptStep ==
    ASSUME TypeOK, BusSound, FollowerSound, ExitTellsOutcome,
           NEW ok \in BOOLEAN, Interrupt(ok), mode' = mode
    PROVE  GrunKept
<1>1. /\ fol.at = "waiting" /\ Followed \in Jobs /\ job[Followed] # "none"
      /\ fol' = Leaves(fol, "cancelled", IF ok THEN "interrupt" ELSE "error")
      /\ log' = log
  BY DEF Interrupt, FollowerSound
<1>2. /\ fol' \in Follower /\ fol'.at = "done" /\ fol'.exit = "130"
      /\ fol'.why = IF ok THEN "interrupt" ELSE "error"
  BY <1>1 DEF FollowerSound, Follower, Leaves, ExitCodeFor
<1>3. CASE ok
  <2>1. Ends(Followed, "cancelled", MaxRequests + 1) /\ outages' = outages
    BY <1>3 DEF Interrupt
  <2>2. MaxRequests + 1 \in 0 .. MaxRequests + 1 /\ "cancelled" \in Final
    BY NotificationsAssumption DEF Final
  <2>3. JobsKept /\ job'[Followed] \in Final
    BY <1>1, <2>1, <2>2, EndsEffect
  <2>4. "none" \notin Final /\ outages \in 0 .. MaxOutages
    BY DEF Final, TypeOK
  <2>. QED
    BY <1>1, <1>2, <1>3, <2>1, <2>2, <2>3, <2>4
    DEF GrunKept, BusMoves, FollowerSound, ExitTellsOutcome
<1>4. CASE ~ok
  <2>1. UNCHANGED <<job, outbox, refused, quiet>> /\ outages' = outages + 1
        /\ outages < MaxOutages
    BY <1>4 DEF Interrupt, pastVars
  <2>2. JobsKept /\ BusMoves
    BY <1>1, <2>1 DEF JobsKept, BusMoves, TypeOK
  <2>3. FollowerSound' /\ ExitTellsOutcome'
    BY <1>1, <1>2, <1>4, <2>1 DEF FollowerSound, ExitTellsOutcome
  <2>. QED BY <2>1, <2>2, <2>3, Outage DEF GrunKept
<1>. QED BY <1>3, <1>4

(* The steps of grun together.  *)
LEMMA GrunSteps ==
    ASSUME TypeOK, BusSound, FollowerSound, ExitTellsOutcome, Grun, mode' = mode
    PROVE  GrunKept
<1>1. CASE GrunSubmits
  <2>1. /\ fol.at = "idle" /\ Followed \in Jobs /\ job[Followed] = "none" /\ mode # "notify"
        /\ job' = [job EXCEPT ![Followed] = "queued"]
        /\ fol' = [fol EXCEPT !.at = "submitted"]
        /\ UNCHANGED <<outbox, refused, quiet, outages>>
        /\ log' = Append(log, Event("submitted", Followed, ""))
    BY <1>1, NotificationsAssumption DEF GrunSubmits, FollowerSound, FollowerOnly, pastVars,
                Publish
  <2>2. JobsKept
    BY <2>1, StatesAre DEF JobsKept, TypeOK, Final
  <2>3. BusMoves
    <3>1. /\ Event("submitted", Followed, "") \in Published
          /\ Event("submitted", Followed, "").type = "submitted"
      BY <2>1, Publishable DEF Event
    <3>. QED BY <2>1, <3>1 DEF BusMoves
  <2>4. FollowerSound' /\ ExitTellsOutcome'
    BY <2>1 DEF FollowerSound, Follower, ExitTellsOutcome, TypeOK
  <2>. QED BY <2>1, <2>2, <2>3, <2>4 DEF GrunKept, TypeOK
<1>2. ASSUME NEW ok \in BOOLEAN, GrunSubscribes(ok) PROVE GrunKept
  <2>1. /\ fol.at = "submitted" /\ fol' = [fol EXCEPT !.at = "waiting", !.stream = ok]
        /\ UNCHANGED <<job, log, outbox, refused, quiet>>
        /\ \/ outages' = outages
           \/ outages < MaxOutages /\ outages' = outages + 1
    BY <1>2 DEF GrunSubscribes, FollowerOnly, pastVars
  <2>. QED
    BY <2>1, Outage
    DEF GrunKept, JobsKept, BusMoves, FollowerSound, Follower, ExitTellsOutcome, TypeOK
<1>3. CASE StreamCloses
  <2>1. /\ fol.at = "waiting" /\ fol' = [fol EXCEPT !.stream = FALSE]
        /\ UNCHANGED <<job, log, outbox, refused, quiet>>
        /\ outages < MaxOutages /\ outages' = outages + 1
    BY <1>3 DEF StreamCloses, FollowerOnly, pastVars
  <2>. QED
    BY <2>1, Outage
    DEF GrunKept, JobsKept, BusMoves, FollowerSound, Follower, ExitTellsOutcome, TypeOK
<1>4. CASE GrunPolls
  <2>1. /\ fol.at = "waiting" /\ Looked(fol, TRUE)
        /\ UNCHANGED <<job, log, outbox, refused, quiet>>
    BY <1>4 DEF GrunPolls, FollowerOnly, pastVars
  <2>2. JobsKept /\ BusMoves
    BY <2>1 DEF JobsKept, BusMoves, TypeOK
  <2>3. fol \in Follower
    BY DEF FollowerSound
  <2>. QED BY <2>1, <2>2, <2>3, LookedEffect DEF GrunKept
<1>. QED BY <1>1, <1>2, <1>3, <1>4, ReadStep, InterruptStep DEF Grun

-----------------------------------------------------------------------------
(* The channel stays sound and only grows.  *)
LEMMA BusStep ==
    ASSUME TypeOK, BusSound, BusMoves
    PROVE  /\ BusSound' /\ Len(log') \in Nat /\ Len(log) <= Len(log')
           /\ \A i \in DOMAIN log' : log'[i].job \in Jobs \cup {NoJob}
           /\ \A e \in outbox' : e.req \in 0 .. MaxRequests + 1
<1>1. BusSound' /\ Len(log') \in Nat /\ Len(log) <= Len(log')
  <2>1. CASE log' = log /\ outbox' = outbox
    BY <2>1 DEF BusSound
  <2>2. CASE \E e \in Published : /\ e.type # "completed"
                                  /\ log' = Append(log, e) /\ outbox' = outbox
    BY <2>2 DEF BusSound
  <2>3. ASSUME log' = log, NEW j \in Jobs, NEW s \in Final, NEW req \in 0 .. MaxRequests + 1,
               Ends(j, s, req)
        PROVE  BusSound' /\ Len(log') \in Nat /\ Len(log) <= Len(log')
    <3>1. PICK p \in Pending : outbox' = outbox \cup {p}
      BY <2>3, EndsEffect
    <3>. QED BY <2>3, <3>1 DEF BusSound
  <2>4. ASSUME NEW e \in outbox, PublishPending(e)
        PROVE  BusSound' /\ Len(log') \in Nat /\ Len(log) <= Len(log')
    <3>. DEFINE x == [type |-> e.type, job |-> e.job, info |-> e.info]
    <3>1. log' = Append(log, x) /\ outbox' = outbox \ {e}
      BY <2>4 DEF PublishPending, Publish
    <3>2. x \in Published
      BY DEF BusSound, Pending, Published, EventSound
    <3>. HIDE DEF x
    <3>. QED BY <3>1, <3>2 DEF BusSound
  <2>. QED BY <2>1, <2>2, <2>3, <2>4 DEF BusMoves
<1>2. \A i \in DOMAIN log' : log'[i] \in Published
  BY <1>1 DEF BusSound
<1>3. \A i \in DOMAIN log' : log'[i].job \in Jobs \cup {NoJob}
  BY <1>2 DEF Published
<1>4. \A e \in outbox' : e.req \in 0 .. MaxRequests + 1
  BY <1>1 DEF BusSound, Pending
<1>. QED BY <1>1, <1>3, <1>4

(* A verdict that is true stays true.  *)
LEMMA TrueStays ==
    ASSUME JobsKept, NEW e, e.type = "completed" => e.job \in Jobs /\ e.info \in Final,
           True(e, job, refused)
    PROVE  True(e, job', refused')
BY DEF True, JobsKept

(* Every verdict stays true, and the new ones are.  *)
LEMMA VerdictsStep ==
    ASSUME TypeOK, BusSound, VerdictsSound, JobsKept, BusMoves
    PROVE  VerdictsSound'
<1>1. \A i \in DOMAIN log : True(log[i], job', refused')
  <2>. SUFFICES ASSUME NEW i \in DOMAIN log PROVE True(log[i], job', refused')
    OBVIOUS
  <2>1. log[i] \in Published
    BY DEF BusSound
  <2>2. log[i].type = "completed" => log[i].job \in Jobs /\ log[i].info \in Final
    BY <2>1 DEF Published, EventSound
  <2>. QED BY <2>2, TrueStays DEF VerdictsSound
<1>2. \A e \in outbox : True(e, job', refused')
  BY TrueStays DEF VerdictsSound, BusSound, Pending
<1>3. CASE log' = log /\ outbox' = outbox
  BY <1>1, <1>2, <1>3 DEF VerdictsSound
<1>4. ASSUME NEW e \in Published, e.type # "completed", log' = Append(log, e),
             outbox' = outbox
      PROVE  VerdictsSound'
  <2>1. True(e, job', refused')
    BY <1>4 DEF True
  <2>2. \A i \in DOMAIN log' : (i \in DOMAIN log /\ log'[i] = log[i]) \/ log'[i] = e
    BY <1>4 DEF BusSound
  <2>. QED BY <1>1, <1>2, <1>4, <2>1, <2>2 DEF VerdictsSound
<1>5. ASSUME log' = log, NEW j \in Jobs, NEW s \in Final, NEW req \in 0 .. MaxRequests + 1,
             Ends(j, s, req)
      PROVE  VerdictsSound'
  <2>. DEFINE p == [type |-> "completed", job |-> j, info |-> s, req |-> req]
  <2>1. outbox' = outbox \cup {p} /\ p.job = j /\ p.info = s
    BY <1>5 DEF Ends
  <2>2. job'[j] = s \/ <<j, s>> \in refused'
    BY <1>5, EndsEffect
  <2>3. True(p, job', refused')
    BY <2>1, <2>2 DEF True
  <2>. QED BY <1>1, <1>2, <1>5, <2>1, <2>3 DEF VerdictsSound
<1>6. ASSUME NEW e \in outbox, PublishPending(e) PROVE VerdictsSound'
  <2>. DEFINE x == [type |-> e.type, job |-> e.job, info |-> e.info]
  <2>1. log' = Append(log, x) /\ outbox' = outbox \ {e}
    BY <1>6 DEF PublishPending, Publish
  <2>2. True(x, job', refused')
    BY <1>2 DEF True
  <2>. HIDE DEF x
  <2>3. \A i \in DOMAIN log' : (i \in DOMAIN log /\ log'[i] = log[i]) \/ log'[i] = x
    BY <2>1 DEF BusSound
  <2>. QED BY <1>1, <1>2, <2>1, <2>2, <2>3 DEF VerdictsSound
<1>. QED BY <1>3, <1>4, <1>5, <1>6 DEF BusMoves

(* Where the subscribers are on the channel, and what a step that is no notifier's leaves
   of what the notifiers go by.  *)
LEMMA ReadersStep ==
    ASSUME TypeOK, BusSound, BusMoves, Next
    PROVE  at' \in [Subscribers -> 0 .. Len(log')]
<1>0. /\ Len(log) \in Nat /\ Len(log') \in Nat /\ Len(log) <= Len(log')
      /\ at \in [Subscribers -> 0 .. Len(log)]
  BY BusStep DEF TypeOK, BusSound
<1>1. SUFFICES \/ at' = at
               \/ \E s \in Subscribers, i \in 0 .. Len(log) : at' = [at EXCEPT ![s] = i]
  BY <1>0
<1>2. CASE JobStep
  BY <1>2 DEF JobStep, Submit, Hold, Release, Update, Start, LaunchFails, PayloadEnds,
              BecomesOverdue, Request, PollResults, PollTimeouts, GpuChanges, PublishPending,
              busVars
<1>3. CASE HandleResult
  <2>. DEFINE i == NextFor("results", {"exec", "zombie"})
  <2>1. i # 0 /\ at' = [at EXCEPT !["results"] = i]
    BY <1>3 DEF HandleResult, Handles
  <2>2. "results" \in Subscribers
    BY DEF Subscribers
  <2>3. i \in DOMAIN log
    BY <2>1, <2>2, NextForIn
  <2>. HIDE DEF i
  <2>4. i \in 0 .. Len(log)
    BY <1>0, <2>3 DEF BusSound
  <2>. QED BY <2>1, <2>2, <2>4
<1>4. CASE HandleTimeout
  <2>. DEFINE i == NextFor("timeouts", {"timed_out"})
  <2>1. i # 0 /\ at' = [at EXCEPT !["timeouts"] = i]
    BY <1>4 DEF HandleTimeout, Handles
  <2>2. "timeouts" \in Subscribers
    BY DEF Subscribers
  <2>3. i \in DOMAIN log
    BY <2>1, <2>2, NextForIn
  <2>. HIDE DEF i
  <2>4. i \in 0 .. Len(log)
    BY <1>0, <2>3 DEF BusSound
  <2>. QED BY <2>1, <2>2, <2>4
<1>5. CASE Grun
  <2>1. \/ at' = at \/ at' = [at EXCEPT !["follower"] = Len(log)]
        \/ \E k \in 1 .. Behind("follower") : at' = [at EXCEPT !["follower"] = @ + k]
    BY <1>5 DEF Grun, GrunSubmits, GrunSubscribes, Interrupt, GrunReads, StreamCloses, GrunPolls
  <2>2. "follower" \in Subscribers
    BY DEF Subscribers
  <2>. QED BY <1>0, <2>1, <2>2 DEF Behind
<1>6. ASSUME NEW s \in Subscribers, Lag(s) PROVE at' = [at EXCEPT ![s] = Len(log) - Capacity]
                                                /\ Len(log) - Capacity \in 0 .. Len(log)
  BY <1>0, <1>6, NotificationsAssumption DEF Lag, Behind
<1>7. ASSUME NEW n \in Notifiers, Receive(n) PROVE at' = [at EXCEPT ![n] = @ + 1]
                                                  /\ at[n] + 1 \in 0 .. Len(log)
  BY <1>0, <1>7 DEF Receive, Behind, HasNext, Advance, Notifiers, Subscribers
<1>8. ASSUME NEW n \in Notifiers, Dispatch(n) PROVE at' = at
  BY <1>8 DEF Dispatch, busVars
<1>9. ASSUME NEW d \in inflight, Accepted(d) \/ Resend(d) \/ Failed(d) PROVE at' = at
  BY <1>9 DEF Accepted, Resend, Failed, busVars
<1>10. Notifiers \subseteq Subscribers
  BY DEF Subscribers
<1>. QED BY <1>2, <1>3, <1>4, <1>5, <1>6, <1>7, <1>8, <1>9, <1>10 DEF Next

(* What the notifiers go by is theirs.  *)
LEMMA OthersKeep ==
    ASSUME TypeOK, BusSound, JobStep \/ Handlers \/ Grun
    PROVE  /\ UNCHANGED <<todo, inflight, permits, givenUp>>
           /\ \A n \in Notifiers : at'[n] = at[n]
<1>1. UNCHANGED <<todo, inflight, permits, givenUp>>
  <2>1. CASE JobStep
    BY <2>1 DEF JobStep, Submit, Hold, Release, Update, Start, LaunchFails, PayloadEnds,
                BecomesOverdue, Request, PollResults, PollTimeouts, GpuChanges, PublishPending,
                JobsOnly, sendVars, sentVars
  <2>2. CASE Handlers
    BY <2>2 DEF Handlers, HandleResult, HandleTimeout, sendVars, sentVars
  <2>3. CASE Grun
    BY <2>3 DEF Grun, GrunSubmits, GrunSubscribes, Interrupt, GrunReads, StreamCloses,
                GrunPolls, FollowerOnly, sendVars, sentVars
  <2>. QED BY <2>1, <2>2, <2>3
<1>2. \/ at' = at
      \/ \E s \in {"results", "timeouts", "follower"} : \E i : at' = [at EXCEPT ![s] = i]
  <2>1. CASE JobStep
    BY <2>1 DEF JobStep, Submit, Hold, Release, Update, Start, LaunchFails, PayloadEnds,
                BecomesOverdue, Request, PollResults, PollTimeouts, GpuChanges, PublishPending,
                busVars
  <2>2. CASE Handlers
    BY <2>2 DEF Handlers, HandleResult, HandleTimeout, Handles
  <2>3. CASE Grun
    <3>1. \/ at' = at \/ at' = [at EXCEPT !["follower"] = Len(log)]
          \/ \E k \in 1 .. Behind("follower") :
                at' = [at EXCEPT !["follower"] = at["follower"] + k]
      BY <2>3 DEF Grun, GrunSubmits, GrunSubscribes, Interrupt, GrunReads, StreamCloses,
                  GrunPolls
    <3>. QED BY <3>1
  <2>. QED BY <2>1, <2>2, <2>3
<1>3. \A n \in Notifiers : at'[n] = at[n]
  BY <1>2 DEF Notifiers, Subscribers, TypeOK
<1>. QED BY <1>1, <1>3

(* The notifiers: events are read once the deliveries of the one before have begun.  *)
LEMMA AdvanceKeeps ==
    ASSUME TypeOK, BusSound, DeliveriesSound, NEW n \in Notifiers, todo[n] = {},
           NEW i \in Nat, i > at[n], at' = [at EXCEPT ![n] = i],
           \A k \in Notifiers \ {n} : todo'[k] = todo[k],
           UNCHANGED <<inflight, permits, givenUp>>
    PROVE  DeliveriesSound'
<1>1. \A k \in Notifiers : at[k] \in Nat /\ at'[k] = IF k = n THEN i ELSE at[k]
  BY DEF TypeOK, BusSound, Subscribers
<1>2. ASSUME NEW k, NEW t, NEW m \in Nat, Begun(k, t, m) PROVE Begun(k, t, m)'
  BY <1>1, <1>2 DEF Begun
<1>3. \A d \in inflight : d.event \in Nat
  BY DEF TypeOK, Deliveries
<1>4. \A k \in givenUp : k[3] \in Nat
  BY DEF DeliveriesSound
<1>5. \A d \in inflight : Begun(d.by, d.target, d.event)'
  BY <1>2, <1>3 DEF DeliveriesSound
<1>6. \A k \in givenUp : Begun(k[1], k[2], k[3])'
  BY <1>2, <1>4 DEF DeliveriesSound
<1>. QED BY <1>5, <1>6 DEF DeliveriesSound, Key

(* A subscriber that lags skips events; a notifier has begun all deliveries by then.  *)
LEMMA LagStep ==
    ASSUME TypeOK, BusSound, DeliveriesSound,
           NEW s \in Subscribers, Lag(s)
    PROVE  DeliveriesSound' /\ todo' = todo
<1>1. /\ at' = [at EXCEPT ![s] = Len(log) - Capacity]
      /\ UNCHANGED <<todo, inflight, permits, givenUp>>
      /\ Len(log) - at[s] > Capacity
      /\ s \in Notifiers => todo[s] = {}
  BY DEF Lag, sendVars, Behind
<1>2. CASE s \in Notifiers
  <2>1. Len(log) \in Nat /\ at[s] \in Nat /\ Capacity \in Nat
    BY NotificationsAssumption DEF BusSound, TypeOK
  <2>2. Len(log) - Capacity \in Nat /\ Len(log) - Capacity > at[s]
    BY <1>1, <2>1
  <2>. QED BY <1>1, <1>2, <2>2, AdvanceKeeps
<1>3. CASE s \notin Notifiers
  <2>1. \A n \in Notifiers : at'[n] = at[n]
    BY <1>1, <1>3 DEF TypeOK, Subscribers
  <2>. QED BY <1>1, <2>1 DEF DeliveriesSound, Begun, Key
<1>. QED BY <1>1, <1>2, <1>3

(* A notifier that reads an event has all its targets to do.  *)
LEMMA ReceiveStep ==
    ASSUME TypeOK, BusSound, DeliveriesSound,
           NEW n \in Notifiers, Receive(n)
    PROVE  /\ DeliveriesSound'
           /\ \A k \in Notifiers : todo'[k] \subseteq DOMAIN Targets(k)
<1>. DEFINE T == {i \in DOMAIN Targets(n) : Wants(n, i, NextOf(n))}
<1>1. /\ todo[n] = {} /\ todo' = [todo EXCEPT ![n] = T] /\ at' = [at EXCEPT ![n] = @ + 1]
      /\ UNCHANGED <<inflight, permits, givenUp>>
  BY DEF Receive, Advance, sentVars
<1>2. T \subseteq DOMAIN Targets(n)
  OBVIOUS
<1>. HIDE DEF T
<1>3. at[n] \in Nat /\ at[n] + 1 \in Nat /\ at[n] + 1 > at[n]
  BY DEF BusSound, TypeOK, Subscribers
<1>4. \A k \in Notifiers \ {n} : todo'[k] = todo[k]
  BY <1>1 DEF TypeOK
<1>5. DeliveriesSound'
  BY <1>1, <1>3, <1>4, AdvanceKeeps
<1>6. \A k \in Notifiers : todo'[k] \subseteq DOMAIN Targets(k)
  BY <1>1, <1>2 DEF TypeOK
<1>. QED BY <1>5, <1>6

(* The types of what the notifiers have.  *)
SendTyped ==
    /\ todo \in [Notifiers -> SUBSET Nat]
    /\ \A n \in Notifiers : todo[n] \subseteq DOMAIN Targets(n)
    /\ inflight \subseteq Deliveries
    /\ permits \in Nat

(* A delivery that begins takes the next target and a permit.  *)
LEMMA DispatchStep ==
    ASSUME TypeOK, BusSound, DeliveriesSound,
           NEW n \in Notifiers, Dispatch(n)
    PROVE  DeliveriesSound' /\ SendTyped'
<1>1. PICK t \in Nat : t = Min(todo[n]) /\ t \in todo[n]
  <2>1. todo[n] \in SUBSET Nat /\ todo[n] # {}
    BY DEF TypeOK, Dispatch
  <2>. QED BY <2>1, MinIn
<1>2. PICK m \in Nat : m = at[n]
  BY DEF BusSound, TypeOK, Subscribers
<1>3. PICK d \in Deliveries :
          /\ d = [by |-> n, target |-> t, event |-> m, attempt |-> 1, phase |-> "sending"]
          /\ d.by = n /\ d.target = t /\ d.event = m
  <2>. DEFINE x == [by |-> n, target |-> t, event |-> m, attempt |-> 1, phase |-> "sending"]
  <2>1. x \in Deliveries
    BY DEF Deliveries
  <2>2. x.by = n /\ x.target = t /\ x.event = m
    OBVIOUS
  <2>. QED BY <2>1, <2>2
<1>4. /\ permits > 0 /\ permits' = permits - 1
      /\ inflight' = inflight \cup {d} /\ todo' = [todo EXCEPT ![n] = @ \ {t}]
      /\ at' = at /\ givenUp' = givenUp
  BY <1>1, <1>2, <1>3 DEF Dispatch, Delivery, busVars, sentVars
<1>5. Key(d) = <<n, t, m>>
  BY <1>3 DEF Key
<1>6. ~Begun(n, t, m)
  BY <1>1, <1>2 DEF Begun
<1>7. \A e \in inflight : Key(e) # Key(d)
  BY <1>5, <1>6 DEF Key, DeliveriesSound
<1>8. d \notin inflight /\ Key(d) \notin givenUp
  BY <1>5, <1>6, <1>7 DEF DeliveriesSound
<1>9. /\ IsFiniteSet(inflight') /\ Cardinality(inflight) \in Nat
      /\ Cardinality(inflight') = Cardinality(inflight) + 1
  BY <1>4, <1>8, FS_AddElement, FS_CardinalityType DEF DeliveriesSound
<1>10. permits \in Nat /\ MaxDeliveries \in Nat
  BY NotificationsAssumption DEF TypeOK
<1>11. permits' + Cardinality(inflight') = MaxDeliveries /\ permits' \in Nat
  BY <1>4, <1>9, <1>10 DEF DeliveriesSound
<1>12. \A k, i, x : Begun(k, i, x) => Begun(k, i, x)'
  BY <1>4 DEF Begun, TypeOK
<1>13. Begun(n, t, m)'
  BY <1>2, <1>4 DEF Begun, TypeOK
<1>14. \A e \in inflight' : Begun(e.by, e.target, e.event)' /\ Key(e) \notin givenUp'
  BY <1>3, <1>4, <1>8, <1>12, <1>13 DEF DeliveriesSound
<1>15. \A e, f \in inflight' : Key(e) = Key(f) => e = f
  BY <1>4, <1>7 DEF DeliveriesSound
<1>16. \A k \in givenUp' : Begun(k[1], k[2], k[3])'
  BY <1>4, <1>12 DEF DeliveriesSound
<1>17. DeliveriesSound'
  BY <1>4, <1>9, <1>11, <1>14, <1>15, <1>16 DEF DeliveriesSound, Key
<1>18. SendTyped'
  BY <1>4, <1>11 DEF SendTyped, TypeOK
<1>. QED BY <1>17, <1>18

(* A delivery that ends gives its permit back.  *)
LEMMA EndKeeps ==
    ASSUME TypeOK, BusSound, DeliveriesSound, NEW d \in inflight,
           inflight' = inflight \ {d}, permits' = permits + 1,
           givenUp' \subseteq givenUp \cup {Key(d)}, UNCHANGED <<todo, at>>
    PROVE  DeliveriesSound' /\ SendTyped'
<1>1. /\ IsFiniteSet(inflight') /\ Cardinality(inflight) \in Nat
      /\ Cardinality(inflight') = Cardinality(inflight) - 1
  BY FS_RemoveElement, FS_CardinalityType DEF DeliveriesSound
<1>2. permits' + Cardinality(inflight') = MaxDeliveries /\ permits' \in Nat
  <2>1. permits \in Nat /\ MaxDeliveries \in Nat
    BY NotificationsAssumption DEF TypeOK
  <2>. QED BY <1>1, <2>1 DEF DeliveriesSound
<1>3. d \in Deliveries
  BY DEF TypeOK
<1>4. /\ Key(d) \in Notifiers \X Nat \X Nat
      /\ Key(d)[1] = d.by /\ Key(d)[2] = d.target /\ Key(d)[3] = d.event
  BY <1>3 DEF Key, Deliveries
<1>5. \A k, i, m : Begun(k, i, m)' <=> Begun(k, i, m)
  BY DEF Begun
<1>6. \A e \in inflight' : Begun(e.by, e.target, e.event)' /\ Key(e) \notin givenUp'
  BY <1>5 DEF DeliveriesSound
<1>7. /\ givenUp' \subseteq Notifiers \X Nat \X Nat
      /\ \A k \in givenUp' : Begun(k[1], k[2], k[3])'
  BY <1>4, <1>5 DEF DeliveriesSound
<1>8. DeliveriesSound'
  BY <1>1, <1>2, <1>6, <1>7 DEF DeliveriesSound, Key
<1>9. SendTyped'
  BY <1>2 DEF SendTyped, TypeOK
<1>. QED BY <1>8, <1>9

(* A delivery that is tried again is the same.  *)
LEMMA AgainKeeps ==
    ASSUME TypeOK, BusSound, DeliveriesSound,
           NEW d \in inflight, NEW e \in Deliveries,
           e.by = d.by, e.target = d.target, e.event = d.event,
           inflight' = (inflight \ {d}) \cup {e}, UNCHANGED <<permits, givenUp, todo, at>>
    PROVE  DeliveriesSound' /\ SendTyped'
<1>1. Key(e) = Key(d)
  BY DEF Key
<1>2. e = d \/ e \notin inflight
  BY <1>1 DEF DeliveriesSound
<1>3. /\ IsFiniteSet(inflight \ {d}) /\ Cardinality(inflight) \in Nat
      /\ Cardinality(inflight \ {d}) = Cardinality(inflight) - 1
  BY FS_RemoveElement, FS_CardinalityType DEF DeliveriesSound
<1>4. /\ IsFiniteSet(inflight') /\ Cardinality(inflight') = Cardinality(inflight)
  <2>1. e \notin inflight \ {d}
    BY <1>2
  <2>2. /\ IsFiniteSet((inflight \ {d}) \cup {e})
        /\ Cardinality((inflight \ {d}) \cup {e}) = Cardinality(inflight \ {d}) + 1
    BY <1>3, <2>1, FS_AddElement
  <2>. QED BY <1>3, <2>2
<1>5. \A k, i, m : Begun(k, i, m)' <=> Begun(k, i, m)
  BY DEF Begun
<1>6. \A f \in inflight' : Begun(f.by, f.target, f.event)' /\ Key(f) \notin givenUp'
  BY <1>1, <1>5 DEF DeliveriesSound
<1>7. \A f, g \in inflight' : Key(f) = Key(g) => f = g
  BY <1>1 DEF DeliveriesSound
<1>8. DeliveriesSound'
  BY <1>4, <1>5, <1>6, <1>7 DEF DeliveriesSound, Key
<1>9. SendTyped'
  BY DEF SendTyped, TypeOK
<1>. QED BY <1>8, <1>9

(* What the endpoints answer.  *)
LEMMA DeliverySteps ==
    ASSUME TypeOK, BusSound, DeliveriesSound,
           NEW d \in inflight, Accepted(d) \/ Failed(d) \/ Resend(d)
    PROVE  DeliveriesSound' /\ SendTyped'
<1>0. d \in Deliveries
  BY DEF TypeOK
<1>1. CASE Accepted(d)
  BY <1>1, EndKeeps DEF Accepted, busVars, Permit
<1>2. CASE Failed(d)
  <2>1. \/ /\ inflight' = (inflight \ {d}) \cup {[d EXCEPT !.phase = "backoff"]}
           /\ UNCHANGED <<permits, givenUp, todo, at>>
        \/ /\ inflight' = inflight \ {d} /\ permits' = permits + 1
           /\ givenUp' = givenUp \cup {Key(d)} /\ UNCHANGED <<todo, at>>
    BY <1>2 DEF Failed, busVars, Permit
  <2>. DEFINE e == [d EXCEPT !.phase = "backoff"]
  <2>2. e \in Deliveries /\ e.by = d.by /\ e.target = d.target /\ e.event = d.event
    BY <1>0 DEF Deliveries
  <2>. HIDE DEF e
  <2>. QED BY <2>1, <2>2, EndKeeps, AgainKeeps DEF e
<1>3. CASE Resend(d)
  <2>. DEFINE e == [d EXCEPT !.phase = "sending", !.attempt = @ + 1]
  <2>1. /\ inflight' = (inflight \ {d}) \cup {e}
        /\ UNCHANGED <<permits, givenUp, todo, at>>
    BY <1>3 DEF Resend, busVars, sentVars
  <2>2. e \in Deliveries /\ e.by = d.by /\ e.target = d.target /\ e.event = d.event
    <3>1. d.attempt + 1 \in Nat \ {0}
      BY <1>0 DEF Deliveries
    <3>. QED BY <1>0, <3>1 DEF Deliveries
  <2>. HIDE DEF e
  <2>. QED BY <2>1, <2>2, AgainKeeps
<1>. QED BY <1>1, <1>2, <1>3

(* The payloads, the limits and the bounds.  *)
LEMMA OthersTyped ==
    ASSUME TypeOK, BusSound, FollowerSound, ExitTellsOutcome, Next
    PROVE  /\ payload' \in [Jobs -> Codes \cup {"none"}]
           /\ overdue' \subseteq Jobs
           /\ requests' \in 0 .. MaxRequests
           /\ outages' \in 0 .. MaxOutages /\ mode' = mode
<1>0. MaxRequests \in Nat /\ mode' = mode
  BY NotificationsAssumption, ModeKept
<1>. DEFINE P == UNCHANGED <<payload, overdue, requests>>
<1>1. CASE JobStep
  <2>1. /\ \/ payload' = payload
           \/ \E j \in Jobs, code \in Codes : payload' = [payload EXCEPT ![j] = code]
        /\ overdue' = overdue \/ \E j \in Jobs : overdue' = overdue \cup {j}
        /\ requests' = requests \/ (requests < MaxRequests /\ requests' = requests + 1)
        /\ outages' = outages
    BY <1>1 DEF JobStep, Submit, Hold, Release, Update, Start, LaunchFails, PayloadEnds,
                BecomesOverdue, Request, PollResults, PollTimeouts, GpuChanges,
                PublishPending, JobsOnly, jobVars, boundVars
  <2>. QED BY <1>0, <2>1 DEF TypeOK
<1>2. CASE Grun
  <2>1. P
    BY <1>2 DEF Grun, GrunSubmits, GrunSubscribes, Interrupt, GrunReads, StreamCloses,
                GrunPolls, FollowerOnly
  <2>2. outages' \in 0 .. MaxOutages
    BY <1>0, <1>2, GrunSteps DEF GrunKept
  <2>. QED BY <1>0, <2>1, <2>2 DEF TypeOK
<1>3. CASE Handlers \/ Notifying
  <2>1. P /\ outages' = outages
    BY <1>3 DEF Handlers, Notifying, HandleResult, HandleTimeout, Lag, Receive, Dispatch,
                Accepted, Resend, Failed, jobVars, boundVars
  <2>. QED BY <1>0, <2>1 DEF TypeOK
<1>. QED BY <1>1, <1>2, <1>3 DEF Next, Handlers, Notifying

(* The steps of the notifiers together.  *)
LEMMA NotifyingStep ==
    ASSUME TypeOK, BusSound, DeliveriesSound, Notifying
    PROVE  DeliveriesSound' /\ SendTyped'
<1>1. ASSUME NEW s \in Subscribers, Lag(s) PROVE DeliveriesSound' /\ SendTyped'
  <2>1. UNCHANGED <<todo, inflight, permits>>
    BY <1>1 DEF Lag, sendVars
  <2>. QED BY <1>1, <2>1, LagStep DEF SendTyped, TypeOK
<1>2. ASSUME NEW n \in Notifiers, Receive(n) PROVE DeliveriesSound' /\ SendTyped'
  <2>1. DeliveriesSound' /\ \A k \in Notifiers : todo'[k] \subseteq DOMAIN Targets(k)
    BY <1>2, ReceiveStep
  <2>2. UNCHANGED <<inflight, permits>>
    BY <1>2 DEF Receive
  <2>3. todo' \in [Notifiers -> SUBSET Nat]
    <3>1. todo' = [todo EXCEPT ![n] = {i \in DOMAIN Targets(n) : Wants(n, i, NextOf(n))}]
      BY <1>2 DEF Receive
    <3>2. DOMAIN Targets(n) \subseteq Nat
      BY NotificationsAssumption DEF Targets
    <3>. QED BY <3>1, <3>2 DEF TypeOK
  <2>. QED BY <2>1, <2>2, <2>3 DEF SendTyped, TypeOK
<1>. QED BY <1>1, <1>2, DispatchStep, DeliverySteps DEF Notifying

-----------------------------------------------------------------------------
(* The theorem.  *)

(* The invariant holds at the start ...  *)
LEMMA InitIInv == Init => IInv
<1>. SUFFICES ASSUME Init PROVE IInv
  OBVIOUS
<1>. DEFINE first == Event("started", NoJob, "")
<1>0. first \in Published /\ first.type = "started" /\ first.job = NoJob
  <2>1. first \in Published
    BY Publishable
  <2>. QED BY <2>1 DEF Event
<1>1. (log = <<>> \/ log = <<first>>) /\ outbox = {}
  BY DEF Init
<1>. HIDE DEF first
<1>2. /\ BusSound /\ Len(log) \in Nat
      /\ \A i \in DOMAIN log : log[i] = first
  <2>1. CASE log = <<>>
    BY <1>1, <2>1 DEF BusSound
  <2>2. CASE log = <<first>>
    BY <1>0, <1>1, <2>2 DEF BusSound
  <2>. QED BY <1>1, <2>1, <2>2
<1>3. IsFiniteSet({}) /\ Cardinality({}) = 0 /\ MaxDeliveries \in Nat
  BY FS_EmptySet, NotificationsAssumption
<1>4. TypeOK
  <2>1. MaxRequests \in Nat /\ MaxOutages \in Nat
    BY NotificationsAssumption
  <2>2. /\ job \in [Jobs -> DOMAIN CanTransitionTo]
        /\ payload \in [Jobs -> Codes \cup {"none"}]
    BY StatesAre DEF Init
  <2>3. at \in [Subscribers -> 0 .. Len(log)]
    <3>1. at = [s \in Subscribers |-> 0]
      BY DEF Init
    <3>2. 0 \in 0 .. Len(log)
      BY <1>2
    <3>. QED BY <3>1, <3>2
  <2>4. \A i \in DOMAIN log : log[i].job \in Jobs \cup {NoJob}
    BY <1>0, <1>2
  <2>5. /\ todo \in [Notifiers -> SUBSET Nat] /\ inflight = {}
        /\ \A n \in Notifiers : todo[n] \subseteq DOMAIN Targets(n)
    BY DEF Init
  <2>6. /\ overdue = {} /\ permits = MaxDeliveries
        /\ quiet = {} /\ requests = 0 /\ outages = 0 /\ givenUp = {}
    BY DEF Init
  <2>7. fol.at = "idle" /\ mode \in Modes
    BY DEF Init
  <2>. QED BY <1>3, <2>7, <1>1, <2>1, <2>2, <2>3, <2>4, <2>5, <2>6 DEF TypeOK
<1>5. VerdictsSound
  BY <1>0, <1>1, <1>2 DEF VerdictsSound, True
<1>6. DeliveriesSound
  <2>1. inflight = {} /\ givenUp = {} /\ permits = MaxDeliveries
    BY DEF Init
  <2>. QED BY <1>3, <2>1 DEF DeliveriesSound
<1>7. FollowerSound /\ ExitTellsOutcome
  BY DEF Init, FollowerSound, Follower, ExitTellsOutcome
<1>. QED BY <1>2, <1>4, <1>5, <1>6, <1>7 DEF IInv

(* ... and every step keeps it ...  *)
LEMMA NextIInv ==
    ASSUME IInv, [Next]_vars
    PROVE  IInv'
<1>1. CASE UNCHANGED vars
  BY <1>1 DEF vars, jobVars, busVars, sendVars, sentVars, pastVars, boundVars, IInv, TypeOK,
              BusSound, VerdictsSound, DeliveriesSound, FollowerSound, ExitTellsOutcome,
              Begun, Key
<1>2. CASE Next
  <2>. USE DEF IInv
  <2>0. mode' = mode
    BY <1>2, ModeKept
  <2>1. JobsKept /\ BusMoves
    BY <1>2, <2>0, JobSteps, HandlerSteps, NotifierSteps, GrunSteps
    DEF Next, Handlers, Notifying, GrunKept
  <2>2. FollowerSound' /\ ExitTellsOutcome'
    <3>1. CASE Grun
      BY <2>0, <3>1, GrunSteps DEF GrunKept
    <3>2. CASE JobStep \/ Handlers \/ Notifying
      <4>1. FollowedKept
        BY <3>2, JobSteps, HandlerSteps, NotifierSteps
      <4>. QED BY <2>0, <2>1, <4>1 DEF FollowedKept, JobsKept, FollowerSound, ExitTellsOutcome
    <3>. QED BY <1>2, <3>1, <3>2 DEF Next, Handlers, Notifying
  <2>3. DeliveriesSound' /\ SendTyped'
    <3>1. CASE JobStep \/ Handlers \/ Grun
      <4>1. /\ UNCHANGED <<todo, inflight, permits, givenUp>>
            /\ \A n \in Notifiers : at'[n] = at[n]
        BY <3>1, OthersKeep
      <4>2. \A n, i, m : Begun(n, i, m)' <=> Begun(n, i, m)
        BY <4>1 DEF Begun
      <4>3. DeliveriesSound'
        BY <4>1, <4>2 DEF DeliveriesSound, Key
      <4>4. SendTyped'
        BY <4>1 DEF SendTyped, TypeOK
      <4>. QED BY <4>3, <4>4
    <3>. QED BY <1>2, <3>1, NotifyingStep DEF Next, Handlers, Notifying
  <2>4. VerdictsSound'
    BY <2>1, VerdictsStep
  <2>5. /\ BusSound' /\ \A i \in DOMAIN log' : log'[i].job \in Jobs \cup {NoJob}
        /\ \A e \in outbox' : e.req \in 0 .. MaxRequests + 1
    BY <2>1, BusStep
  <2>6. at' \in [Subscribers -> 0 .. Len(log')]
    BY <1>2, <2>1, ReadersStep
  <2>7. permits' \in 0 .. MaxDeliveries
    BY <2>3, FS_CardinalityType, NotificationsAssumption DEF DeliveriesSound, SendTyped
  <2>8. {<<d.by, d.target, d.event>> : d \in inflight'} \cap givenUp' = {}
    BY <2>3 DEF DeliveriesSound, Key
  <2>9. TypeOK'
    <3>1. /\ payload' \in [Jobs -> Codes \cup {"none"}] /\ overdue' \subseteq Jobs
          /\ requests' \in 0 .. MaxRequests /\ outages' \in 0 .. MaxOutages
      BY <1>2, OthersTyped
    <3>2. fol'.at \in {"idle", "submitted", "waiting", "done"}
      BY <2>2 DEF FollowerSound, Follower
    <3>. QED BY <2>1, <2>3, <2>5, <2>6, <2>7, <2>8, <2>0, <3>1, <3>2
             DEF TypeOK, JobsKept, SendTyped
  <2>. QED BY <2>2, <2>3, <2>4, <2>5, <2>9
<1>. QED BY <1>1, <1>2

(* ... so it holds always.  *)
LEMMA Inductive == Spec => []IInv
<1>1. Init => IInv
  BY InitIInv
<1>2. IInv /\ [Next]_vars => IInv'
  BY NextIInv
<1>. QED BY <1>1, <1>2, PTL DEF Spec

(* What the endpoints and grun are told is true (handlers of jobs.rs, the notifiers, grun):
   however handlers, results, requests and Ctrl-C interleave, a verdict on the channel is
   what became of the job or was refused, and grun exits with what became of its job.  *)
THEOREM Truthful == Spec => []OutcomesAreTrue
<1>1. IInv => OutcomesAreTrue
  <2>. SUFFICES ASSUME IInv, NEW e \in Events, e.type = "completed"
                PROVE  job[e.job] = e.info \/ <<e.job, e.info>> \in refused
    BY DEF IInv, OutcomesAreTrue, VerdictsAreTrue
  <2>. QED BY DEF IInv, VerdictsSound, True, Events
<1>. QED BY <1>1, Inductive, PTL

-----------------------------------------------------------------------------
(* Submission: what the shells rely on.  *)

(* The jobs of a user that wait in a table.  *)
QueuedIn(js, u) == {j \in DOMAIN js : js[j].user = u /\ js[j].state = "Queued"}

(* A shell was told of jobs of its user, which its @'s name or pass over; a cascade
   has a job left to copy, each once, and knows the copy of its source.  *)
ToldSound(c) ==
    told[c] # Nobody => told[c] \in Known(jobs) /\ jobs[told[c]].user = LoginOf[c]
RefAt(c, i) == cmd[c].refs[1 + ((i - 1) % Len(cmd[c].refs))]
AnswersSound(c) ==
    Running(c, "batch") =>
        \A i \in DOMAIN cmd[c].answers :
            /\ cmd[c].answers[i] \in Known(jobs)
            /\ jobs[cmd[c].answers[i]].user = LoginOf[c]
            /\ RefAt(c, i) = 1 => cmd[c].answers[i] >= told[c]
CascadeSound(c) ==
    Running(c, "cascade") =>
        /\ Left(c) # {}
        /\ \A s, t \in cmd[c].list : s.id = t.id => s = t
        /\ cmd[c].source.id \in DOMAIN cmd[c].copies
ShellSound(c) == ToldSound(c) /\ AnswersSound(c) /\ CascadeSound(c)

CommandsInv == /\ SubmissionTypeOK
               /\ QueueLimitKept
               /\ \A c \in Clients : ShellSound(c)

(* A step keeps the jobs there are, and whose they are.  *)
OwnersKept == /\ Known(jobs) \subseteq Known(jobs')
              /\ \A j \in Known(jobs) : jobs'[j].user = jobs[j].user

-----------------------------------------------------------------------------
(* What the operators return.  *)

(* Auto-cancellation cancels jobs that wait, and changes nothing else.  *)
LEMMA SettlementsAre ==
    ASSUME NEW js \in Seq(Job), Len(js) <= MaxJobs, NEW after \in Settlements(js)
    PROVE  /\ after \in Seq(Job) /\ Len(after) = Len(js)
           /\ \A j \in DOMAIN js : /\ after[j].user = js[j].user
                                   /\ after[j].ids = js[j].ids
                                   /\ after[j].state = "Queued" => js[j].state = "Queued"
<1>. DEFINE D == Doomed(js)
            lost == D \cup {j \in Known(js) : js[j].state \in Lost}
<1>1. PICK why \in [D -> lost] :
         after = [j \in Known(js) |->
                    IF j \in D THEN [js[j] EXCEPT !.state = "Cancelled", !.cause = why[j]]
                               ELSE js[j]]
  BY DEF Settlements
<1>2. D \subseteq DOMAIN js /\ \A j \in D : js[j].state = "Queued"
  BY DEF Doomed, Known
<1>3. DOMAIN js = 1 .. Len(js) /\ Len(js) \in Nat /\ DOMAIN js \subseteq Ids
  BY SubmissionAssumption DEF Ids
<1>4. lost \subseteq Ids
  BY <1>2, <1>3 DEF Known
<1>. HIDE DEF D, lost
<1>5. after = [j \in 1 .. Len(js) |->
                  IF j \in D THEN [js[j] EXCEPT !.state = "Cancelled", !.cause = why[j]]
                             ELSE js[j]]
  BY <1>1, <1>3 DEF Known
<1>6. \A j \in 1 .. Len(js) : after[j] \in Job
  <2>. TAKE j \in 1 .. Len(js)
  <2>1. js[j] \in Job
    BY <1>3
  <2>2. j \in D => why[j] \in Ids
    BY <1>4
  <2>. QED BY <1>5, <2>1, <2>2 DEF Job, Ended, Lost
<1>7. after \in Seq(Job) /\ Len(after) = Len(js)
  <2>1. after \in [1 .. Len(js) -> Job]
    BY <1>5, <1>6
  <2>. QED BY <1>3, <2>1
<1>8. \A j \in DOMAIN js : js[j] \in Job
  BY <1>3
<1>9. \A j \in DOMAIN js : /\ after[j].user = js[j].user
                           /\ after[j].ids = js[j].ids
                           /\ after[j].state = "Queued" => js[j].state = "Queued"
  BY <1>2, <1>3, <1>5, <1>8 DEF Job
<1>. QED BY <1>7, <1>9

(* What is submitted is appended: jobs of the types of the table.  *)
WellTyped(r) == /\ r.user \in Users /\ r.retries \in Nat
                /\ r.ids \subseteq Ids
                /\ {r.legacy, r.from, r.again} \subseteq Ids \cup {Nobody}

LEMMA SubmittedAre ==
    ASSUME NEW base \in Seq(Job), NEW R, NEW reqs \in Seq(R),
           Len(base) + Len(reqs) <= MaxJobs,
           \A i \in DOMAIN reqs : WellTyped(reqs[i]),
           NEW js, js = Submitted(base, reqs)
    PROVE  /\ js \in Seq(Job) /\ Len(js) = Len(base) + Len(reqs)
           /\ \A j \in DOMAIN base : js[j] = base[j]
           /\ \A i \in DOMAIN reqs : /\ js[Len(base) + i].user = reqs[i].user
                                     /\ js[Len(base) + i].ids = reqs[i].ids
<1>. DEFINE new == [i \in DOMAIN reqs |->
              [user |-> reqs[i].user, ids |-> reqs[i].ids,
               legacy |-> reqs[i].legacy, from |-> reqs[i].from,
               again |-> reqs[i].again, retries |-> reqs[i].retries,
               state |-> "Queued", cause |-> Nobody]]
<1>1. /\ Len(base) \in Nat /\ DOMAIN base = 1 .. Len(base)
      /\ DOMAIN reqs = 1 .. Len(reqs) /\ Len(reqs) \in Nat
  OBVIOUS
<1>3. \A i \in DOMAIN reqs : new[i] \in Job
  BY DEF Job, WellTyped
<1>4. new \in Seq(Job) /\ Len(new) = Len(reqs)
  BY <1>1, <1>3
<1>5. Submitted(base, reqs) = base \o new
  BY DEF Submitted
<1>6. \A i \in DOMAIN reqs : new[i].user = reqs[i].user /\ new[i].ids = reqs[i].ids
  OBVIOUS
<1>. HIDE DEF new
<1>7. /\ base \o new \in Seq(Job) /\ Len(base \o new) = Len(base) + Len(reqs)
      /\ \A j \in DOMAIN base : (base \o new)[j] = base[j]
      /\ \A i \in DOMAIN reqs : (base \o new)[Len(base) + i] = new[i]
  <2>1. /\ base \o new \in Seq(Job) /\ Len(base \o new) = Len(base) + Len(reqs)
        /\ \A i \in 1 .. Len(base) + Len(reqs) :
              (base \o new)[i] = IF i <= Len(base) THEN base[i] ELSE new[i - Len(base)]
    <3>1. base \in Seq(Job) /\ new \in Seq(Job)
      BY <1>1, <1>4
    <3>2. /\ base \o new \in Seq(Job) /\ Len(base \o new) = Len(base) + Len(new)
          /\ \A i \in 1 .. Len(base) + Len(new) :
                (base \o new)[i] = IF i <= Len(base) THEN base[i] ELSE new[i - Len(base)]
      BY ONLY <3>1, ConcatProperties
    <3>. QED BY <3>2, <1>4
  <2>. QED BY <1>1, <2>1
<1>. QED BY <1>1, <1>5, <1>6, <1>7

-----------------------------------------------------------------------------
(* Queues.  *)

(* The jobs of a user in a table are finitely many.  *)
LEMMA QueuedFinite ==
    ASSUME NEW js \in Seq(Job), NEW u
    PROVE  IsFiniteSet(QueuedIn(js, u)) /\ QueuedIn(js, u) \subseteq 1 .. Len(js)
<1>1. Len(js) \in Nat /\ DOMAIN js = 1 .. Len(js)
  OBVIOUS
<1>2. QueuedIn(js, u) \subseteq 1 .. Len(js)
  BY <1>1 DEF QueuedIn
<1>3. IsFiniteSet(1 .. Len(js))
  BY <1>1, FS_Interval
<1>. QED BY <1>2, <1>3, FS_Subset

(* How many follow one of the naturals.  *)
LEMMA NextFew ==
    ASSUME NEW m \in Nat, NEW n \in Nat
    PROVE  IsFiniteSet(m + 1 .. m + n) /\ Cardinality(m + 1 .. m + n) = n
<1>1. m + 1 \in Int /\ m + n \in Int
  OBVIOUS
<1>2. /\ IsFiniteSet(m + 1 .. m + n)
      /\ Cardinality(m + 1 .. m + n) = IF m + 1 > m + n THEN 0 ELSE m + n - (m + 1) + 1
  BY ONLY <1>1, FS_Interval
<1>. QED BY <1>2

(* A table whose waiting jobs were among those of another is no fuller than that one.  *)
LEMMA QueueNotFuller ==
    ASSUME NEW js \in Seq(Job), NEW after \in Seq(Job), NEW u,
           \A j \in QueuedIn(after, u) : j \in QueuedIn(js, u)
    PROVE  Cardinality(QueuedIn(after, u)) <= Cardinality(QueuedIn(js, u))
BY QueuedFinite, FS_Subset

(* The queues after requests of one user that left room were appended.  *)
LEMMA QueueAfter ==
    ASSUME NEW base \in Seq(Job), NEW u \in Users, NEW R, NEW reqs \in Seq(R),
           \A i \in DOMAIN reqs : /\ reqs[i].user = u
                                 /\ Cardinality(QueuedIn(base, u)) + (i - 1) < MaxQueued,
           NEW js \in Seq(Job), Len(js) = Len(base) + Len(reqs),
           \A j \in DOMAIN base : js[j] = base[j],
           \A i \in DOMAIN reqs : js[Len(base) + i].user = reqs[i].user,
           NEW w \in Users, Cardinality(QueuedIn(base, w)) <= MaxQueued
    PROVE  Cardinality(QueuedIn(js, w)) <= MaxQueued
<1>. DEFINE n == Len(reqs)
            old == QueuedIn(base, w)
            new == Len(base) + 1 .. Len(base) + n
<1>1. /\ DOMAIN base = 1 .. Len(base) /\ Len(base) \in Nat
      /\ n \in Nat /\ DOMAIN reqs = 1 .. n /\ DOMAIN js = 1 .. Len(base) + n
      /\ MaxQueued \in Nat
  BY SubmissionAssumption
<1>2. IsFiniteSet(old) /\ old \subseteq 1 .. Len(base) /\ Cardinality(old) \in Nat
  BY <1>1, QueuedFinite, FS_CardinalityType
<1>3. Cardinality(old) <= MaxQueued
  OBVIOUS
<1>4. IsFiniteSet(new) /\ Cardinality(new) = n
  BY <1>1, NextFew
<1>5. \A j \in QueuedIn(js, w) : j \in old \/ (j \in new /\ w = u)
  <2>. TAKE j \in QueuedIn(js, w)
  <2>1. j \in 1 .. Len(base) + n /\ js[j].user = w /\ js[j].state = "Queued"
    BY <1>1 DEF QueuedIn
  <2>2. CASE j <= Len(base)
    <3>1. j \in DOMAIN base
      BY <1>1, <2>1, <2>2
    <3>2. js[j] = base[j]
      BY <3>1
    <3>3. base[j].user = w /\ base[j].state = "Queued" /\ j \in DOMAIN base
      BY <2>1, <3>1, <3>2
    <3>. QED BY <3>3 DEF QueuedIn
  <2>3. CASE ~(j <= Len(base))
    <3>1. j - Len(base) \in 1 .. n /\ j \in new /\ Len(base) + (j - Len(base)) = j
      BY <1>1, <2>1, <2>3
    <3>2. js[j].user = reqs[j - Len(base)].user
      BY <1>1, <3>1
    <3>. QED BY <2>1, <3>1, <3>2
  <2>. QED BY <2>2, <2>3
<1>6. CASE w # u \/ n = 0
  <2>1. QueuedIn(js, w) \subseteq old
    BY <1>1, <1>5, <1>6
  <2>. QED BY <1>1, <1>2, <1>3, <2>1, FS_Subset, FS_CardinalityType
<1>7. CASE w = u /\ n # 0
  <2>1. n \in DOMAIN reqs /\ reqs[n].user = u
    BY <1>1, <1>7
  <2>2. Cardinality(old) + (n - 1) < MaxQueued
    BY <1>7, <2>1
  <2>3. QueuedIn(js, w) \subseteq old \cup new
    BY <1>5
  <2>4. old \cap new = {}
    BY <1>1, <1>2
  <2>. HIDE DEF old, new, n
  <2>5. IsFiniteSet(old \cup new) /\ Cardinality(old \cup new) = Cardinality(old) + n
    <3>1. IsFiniteSet(old) /\ IsFiniteSet(new)
      BY <1>2, <1>4
    <3>2. /\ IsFiniteSet(old \cup new)
          /\ Cardinality(old \cup new) = Cardinality(old) + Cardinality(new)
                                         - Cardinality(old \cap new)
      BY <3>1, FS_Union
    <3>3. Cardinality(old \cap new) = 0
      BY <2>4, FS_EmptySet
    <3>. QED BY <1>1, <1>2, <1>4, <3>2, <3>3
  <2>6. Cardinality(QueuedIn(js, w)) <= Cardinality(old) + n
    BY <2>3, <2>5, FS_Subset
  <2>7. Cardinality(QueuedIn(js, w)) \in Nat
    BY <2>3, <2>5, FS_Subset, FS_CardinalityType
  <2>. QED BY <1>1, <1>2, <2>2, <2>6, <2>7
<1>. QED BY <1>6, <1>7

(* Of a finite set of numbers, every size is that of the part from some number on.  *)
LEMMA NthFromAbove ==
    ASSUME NEW S, S \subseteq Nat, IsFiniteSet(S), NEW n \in Nat \ {0}, n <= Cardinality(S)
    PROVE  \E j \in S : Cardinality({k \in S : k >= j}) = n
<1>. DEFINE Up(j) == {k \in S : k >= j}
            c == Cardinality(S)
            T == (1 .. c) \ {n}
            f == [j \in S |-> Cardinality(Up(j))]
<1>0. c \in Nat
  BY FS_CardinalityType
<1>1. \A j \in S : /\ IsFiniteSet(Up(j)) /\ Cardinality(Up(j)) \in 1 .. c /\ j \in Up(j)
  <2>. TAKE j \in S
  <2>1. IsFiniteSet(Up(j)) /\ Cardinality(Up(j)) <= c
    BY FS_Subset
  <2>2. j \in Up(j)
    OBVIOUS
  <2>. HIDE DEF Up, c
  <2>3. Cardinality(Up(j)) \in Nat /\ Cardinality(Up(j)) # 0
    BY <2>1, <2>2, FS_CardinalityType, FS_EmptySet
  <2>. QED BY <1>0, <2>1, <2>2, <2>3
<1>2. IsFiniteSet(T) /\ Cardinality(T) < c
  <2>1. IsFiniteSet(1 .. c) /\ Cardinality(1 .. c) = c
    <3>1. 1 \in Int /\ c \in Int
      BY <1>0
    <3>2. /\ IsFiniteSet(1 .. c)
          /\ Cardinality(1 .. c) = IF 1 > c THEN 0 ELSE c - 1 + 1
      BY ONLY <3>1, FS_Interval
    <3>. QED BY <1>0, <3>2
  <2>2. n \in 1 .. c
    BY <1>0
  <2>. HIDE DEF c
  <2>3. IsFiniteSet(T) /\ Cardinality(T) = Cardinality(1 .. c) - 1
    BY <2>1, <2>2, FS_RemoveElement
  <2>. QED BY <1>0, <2>1, <2>3
<1>3. SUFFICES ASSUME \A j \in S : Cardinality(Up(j)) # n
               PROVE  FALSE
  OBVIOUS
<1>4. f \in [S -> T]
  <2>. HIDE DEF Up
  <2>. QED BY <1>1, <1>3
<1>5. PICK x \in S, y \in S : x # y /\ Cardinality(Up(x)) = Cardinality(Up(y))
  <2>1. PICK g \in [S -> T] : \A j \in S : g[j] = Cardinality(Up(j))
    <3>. HIDE DEF T
    <3>. QED BY <1>4
  <2>2. IsFiniteSet(T) /\ Cardinality(T) < Cardinality(S)
    BY <1>2
  <2>. HIDE DEF T, Up, f, c
  <2>3. \E k, l \in S : k # l /\ g[k] = g[l]
    BY ONLY <2>2, IsFiniteSet(S), g \in [S -> T], FS_PigeonHole
  <2>. QED BY <2>1, <2>3
<1>6. \A a, b \in S : a < b => Cardinality(Up(a)) # Cardinality(Up(b))
  <2>. SUFFICES ASSUME NEW a \in S, NEW b \in S, a < b,
                       Cardinality(Up(a)) = Cardinality(Up(b))
                PROVE  FALSE
    OBVIOUS
  <2>1. a \in Nat /\ b \in Nat /\ \A k \in S : k \in Nat
    OBVIOUS
  <2>2. \A k \in S : k >= b => k >= a
    BY <2>1
  <2>3. Up(b) \subseteq Up(a)
    BY <2>2, Zenon
  <2>4. a >= a /\ ~(a >= b)
    BY <2>1
  <2>5. a \in Up(a) /\ a \notin Up(b)
    BY <2>4, Zenon
  <2>. HIDE DEF Up
  <2>. QED BY <1>1, <2>3, <2>5, FS_Subset
<1>7. x < y \/ y < x
  BY <1>5
<1>. QED BY <1>5, <1>6, <1>7

(* A shorthand that names a job names one of the user's; @ names none that is older
   than another of them.  *)
LEMMA ResolveAnswers ==
    ASSUME SubmissionTypeOK, NEW u, NEW n \in Nat \ {0}, Resolves(u, n)
    PROVE  /\ Resolve(u, n) \in JobsOf(u)
           /\ n = 1 => \A j \in JobsOf(u) : Resolve(u, n) >= j
<1>. DEFINE a == Resolve(u, n)
<1>1. JobsOf(u) \subseteq Nat /\ IsFiniteSet(JobsOf(u))
  <2>1. Len(jobs) \in Nat /\ DOMAIN jobs = 1 .. Len(jobs)
    BY DEF SubmissionTypeOK
  <2>2. JobsOf(u) \subseteq 1 .. Len(jobs)
    BY <2>1 DEF JobsOf, Known
  <2>3. IsFiniteSet(1 .. Len(jobs))
    BY <2>1, FS_Interval
  <2>. QED BY <2>1, <2>2, <2>3, FS_Subset
<1>2. n <= Cardinality(JobsOf(u))
  BY DEF Resolves
<1>3. \E j \in JobsOf(u) : Cardinality({k \in JobsOf(u) : k >= j}) = n
  <2>. HIDE DEF JobsOf
  <2>. QED BY <1>1, <1>2, NthFromAbove
<1>4. a \in JobsOf(u) /\ Cardinality(From(u, a)) = n
  BY <1>3 DEF Resolve, From
<1>5. ASSUME n = 1, NEW j \in JobsOf(u), ~(a >= j)
      PROVE  FALSE
  <2>1. a \in Nat /\ j \in Nat
    BY <1>1, <1>4
  <2>. HIDE DEF a
  <2>2. {a, j} \subseteq From(u, a) /\ a # j /\ IsFiniteSet(From(u, a))
    <3>1. {a, j} \subseteq From(u, a)
      BY <1>4, <1>5, <2>1 DEF From
    <3>2. From(u, a) \in SUBSET JobsOf(u)
      BY DEF From
    <3>. QED BY <1>1, <1>5, <2>1, <3>1, <3>2, FS_Subset
  <2>3. Cardinality({a}) = 1 /\ IsFiniteSet({a})
    BY FS_Singleton
  <2>4. {a} = From(u, a)
    BY <1>4, <1>5, <2>2, <2>3, FS_Subset
  <2>. QED BY <2>2, <2>4
<1>. QED BY <1>4, <1>5

-----------------------------------------------------------------------------
(* What a step keeps.  *)

(* The ids of the table are ids.  *)
LEMMA KnownIds ==
    ASSUME SubmissionTypeOK
    PROVE  /\ jobs \in Seq(Job) /\ Len(jobs) \in Nat /\ Len(jobs) <= MaxJobs
           /\ DOMAIN jobs = 1 .. Len(jobs) /\ Known(jobs) = 1 .. Len(jobs)
           /\ Known(jobs) \subseteq Ids /\ Ids \subseteq Nat
           /\ \A j \in Known(jobs) : jobs[j] \in Job
           /\ \A u : QueuedOf(u) = QueuedIn(jobs, u)
<1>1. jobs \in Seq(Job) /\ Len(jobs) <= MaxJobs
  BY DEF SubmissionTypeOK
<1>2. /\ Len(jobs) \in Nat /\ DOMAIN jobs = 1 .. Len(jobs)
      /\ \A j \in 1 .. Len(jobs) : jobs[j] \in Job
  BY <1>1
<1>3. 1 .. Len(jobs) \subseteq Ids /\ Ids \subseteq Nat
  BY <1>1, <1>2, SubmissionAssumption DEF Ids
<1>4. \A u : QueuedOf(u) = QueuedIn(jobs, u)
  BY DEF QueuedIn, QueuedOf, Known
<1>. QED BY <1>1, <1>2, <1>3, <1>4 DEF Known

(* The table after a settlement of one that has its jobs, all of whose owners have room.  *)
LEMMA SettledTable ==
    ASSUME SubmissionTypeOK, NEW js \in Seq(Job), Len(js) <= MaxJobs,
           Len(jobs) <= Len(js),
           \A j \in Known(jobs) : js[j].user = jobs[j].user,
           \A u \in Users : Cardinality(QueuedIn(js, u)) <= MaxQueued,
           jobs' \in Settlements(js)
    PROVE  /\ jobs' \in Seq(Job) /\ Len(jobs') = Len(js) /\ OwnersKept /\ QueueLimitKept'
           /\ \A j \in DOMAIN js : jobs'[j].user = js[j].user /\ jobs'[j].ids = js[j].ids
<1>1. /\ jobs' \in Seq(Job) /\ Len(jobs') = Len(js)
      /\ \A j \in DOMAIN js : /\ jobs'[j].user = js[j].user
                              /\ jobs'[j].ids = js[j].ids
                              /\ jobs'[j].state = "Queued" => js[j].state = "Queued"
  BY SettlementsAre
<1>2. DOMAIN js = 1 .. Len(js) /\ DOMAIN jobs' = 1 .. Len(js) /\ Len(js) \in Nat
  BY <1>1
<1>3. OwnersKept
  <2>1. Known(jobs) = 1 .. Len(jobs) /\ Len(jobs) \in Nat
    BY KnownIds
  <2>2. Known(jobs') = 1 .. Len(js)
    BY <1>2 DEF Known
  <2>. QED BY <1>1, <1>2, <2>1, <2>2 DEF OwnersKept
<1>4. QueueLimitKept'
  <2>. SUFFICES ASSUME NEW u \in Users
                PROVE  Cardinality(QueuedOf(u)') <= MaxQueued
    BY DEF QueueLimitKept, Users
  <2>1. QueuedOf(u)' = QueuedIn(jobs', u)
    BY DEF QueuedOf, QueuedIn, Known
  <2>2. \A j \in QueuedIn(jobs', u) : j \in QueuedIn(js, u)
    BY <1>1, <1>2 DEF QueuedIn
  <2>3. Cardinality(QueuedIn(jobs', u)) <= Cardinality(QueuedIn(js, u))
    BY <1>1, <2>2, QueueNotFuller
  <2>4. Cardinality(QueuedIn(js, u)) \in Nat /\ Cardinality(QueuedIn(jobs', u)) \in Nat
    BY <1>1, QueuedFinite, FS_CardinalityType
  <2>5. Cardinality(QueuedIn(js, u)) <= MaxQueued /\ MaxQueued \in Nat
    BY SubmissionAssumption
  <2>. QED BY <2>1, <2>3, <2>4, <2>5
<1>. QED BY <1>1, <1>3, <1>4

(* A shell that does nothing and is told nothing stays sound.  *)
LEMMA OtherShells ==
    ASSUME CommandsInv, OwnersKept, NEW c \in Clients,
           cmd'[c] = cmd[c], told'[c] = told[c]
    PROVE  ShellSound(c)'
<1>1. ToldSound(c) /\ AnswersSound(c) /\ CascadeSound(c)
  BY DEF CommandsInv, ShellSound
<1>2. ToldSound(c)'
  BY <1>1 DEF ToldSound, OwnersKept
<1>3. AnswersSound(c)'
  BY <1>1 DEF AnswersSound, OwnersKept, Running, RefAt
<1>4. CascadeSound(c)'
  BY <1>1 DEF CascadeSound, Running, Left
<1>. QED BY <1>2, <1>3, <1>4 DEF ShellSound

(* A step of the daemon.  *)
LEMMA DaemonStep ==
    ASSUME CommandsInv, jobs' \in Seq(Job), Len(jobs') <= MaxJobs,
           OwnersKept, QueueLimitKept', UNCHANGED <<cmd, told>>,
           commands' \in 0 .. MaxCommands
    PROVE  CommandsInv'
<1>1. SubmissionTypeOK'
  BY DEF CommandsInv, SubmissionTypeOK
<1>2. \A c \in Clients : ShellSound(c)'
  BY OtherShells
<1>. QED BY <1>1, <1>2 DEF CommandsInv

(* A step of a shell.  *)
LEMMA ShellStep ==
    ASSUME CommandsInv, NEW c \in Clients, NEW next \in Command, Does(c, next),
           jobs' \in Seq(Job), Len(jobs') <= MaxJobs, OwnersKept, QueueLimitKept',
           told' \in [Clients -> Ids \cup {Nobody}],
           \A d \in Clients \ {c} : told'[d] = told[d],
           commands' \in 0 .. MaxCommands,
           ShellSound(c)'
    PROVE  CommandsInv'
<1>1. SubmissionTypeOK'
  BY DEF CommandsInv, SubmissionTypeOK, Does
<1>2. ASSUME NEW d \in Clients \ {c}
      PROVE  ShellSound(d)'
  <2>1. cmd'[d] = cmd[d]
    BY DEF CommandsInv, SubmissionTypeOK, Does
  <2>. QED BY <2>1, OtherShells
<1>. QED BY <1>1, <1>2 DEF CommandsInv

(* Counting a command.  *)
LEMMA CommandCounted ==
    ASSUME SubmissionTypeOK
    PROVE  /\ Given => commands' \in 0 .. MaxCommands
           /\ UNCHANGED commands => commands' \in 0 .. MaxCommands
BY SubmissionAssumption DEF SubmissionTypeOK, Given

-----------------------------------------------------------------------------
(* The steps of the daemon.  *)

(* A table with one job changed, of the same owner and no more waiting than before.  *)
LEMMA OneChanged ==
    ASSUME CommandsInv, NEW j \in Known(jobs), NEW row \in Job,
           row.user = jobs[j].user, row.state = "Queued" => jobs[j].state = "Queued",
           NEW js, js = [jobs EXCEPT ![j] = row]
    PROVE  /\ js \in Seq(Job) /\ Len(js) = Len(jobs)
           /\ \A k \in Known(jobs) : js[k].user = jobs[k].user
           /\ \A u \in Users : Cardinality(QueuedIn(js, u)) <= MaxQueued
<1>1. /\ jobs \in Seq(Job) /\ Known(jobs) = DOMAIN jobs /\ Len(jobs) \in Nat
      /\ \A u : QueuedOf(u) = QueuedIn(jobs, u)
  BY KnownIds DEF CommandsInv, Known
<1>2. js \in Seq(Job) /\ Len(js) = Len(jobs)
  BY <1>1
<1>3. \A k \in Known(jobs) : js[k] = IF k = j THEN row ELSE jobs[k]
  BY <1>1
<1>4. DOMAIN js = DOMAIN jobs
  BY <1>1
<1>5. ASSUME NEW u \in Users
      PROVE  Cardinality(QueuedIn(js, u)) <= MaxQueued
  <2>1. \A k \in QueuedIn(js, u) : k \in QueuedIn(jobs, u)
    BY <1>1, <1>3, <1>4 DEF QueuedIn
  <2>2. Cardinality(QueuedIn(js, u)) <= Cardinality(QueuedIn(jobs, u))
    BY <1>1, <1>2, <2>1, QueueNotFuller
  <2>3. Cardinality(QueuedIn(jobs, u)) <= MaxQueued /\ MaxQueued \in Nat
    BY <1>1, SubmissionAssumption DEF CommandsInv, QueueLimitKept
  <2>4. Cardinality(QueuedIn(js, u)) \in Nat /\ Cardinality(QueuedIn(jobs, u)) \in Nat
    BY <1>1, <1>2, QueuedFinite, FS_CardinalityType
  <2>. QED BY <2>2, <2>3, <2>4
<1>. QED BY <1>2, <1>3, <1>5

LEMMA StartKeeps ==
    ASSUME CommandsInv, NEW j \in Known(jobs), StartJob(j)
    PROVE  CommandsInv'
<1>1. jobs[j] \in Job /\ Known(jobs) = 1 .. Len(jobs) /\ Len(jobs) <= MaxJobs
  BY KnownIds DEF CommandsInv
<1>2. [jobs[j] EXCEPT !.state = "Running"] \in Job
  BY <1>1 DEF Job
<1>3. jobs' = [jobs EXCEPT ![j] = [jobs[j] EXCEPT !.state = "Running"]]
  BY DEF StartJob
<1>4. /\ jobs' \in Seq(Job) /\ Len(jobs') = Len(jobs)
      /\ \A k \in Known(jobs) : jobs'[k].user = jobs[k].user
      /\ \A u \in Users : Cardinality(QueuedIn(jobs', u)) <= MaxQueued
  <2>1. /\ [jobs[j] EXCEPT !.state = "Running"].user = jobs[j].user
        /\ [jobs[j] EXCEPT !.state = "Running"].state # "Queued"
    BY <1>1 DEF Job
  <2>. QED BY <1>2, <1>3, <2>1, OneChanged
<1>5. OwnersKept
  BY <1>1, <1>4 DEF OwnersKept, Known
<1>6. QueueLimitKept'
  <2>1. \A u : QueuedOf(u)' = QueuedIn(jobs', u)
    BY DEF QueuedOf, QueuedIn, Known
  <2>. QED BY <1>4, <2>1 DEF QueueLimitKept, Users
<1>7. commands' \in 0 .. MaxCommands
  BY DEF CommandsInv, SubmissionTypeOK, StartJob
<1>. QED BY <1>1, <1>4, <1>5, <1>6, <1>7, DaemonStep DEF StartJob

(* The end, the cancellation and an update of a job change it and settle the table.  *)
LEMMA ChangeKeeps ==
    ASSUME CommandsInv, NEW j \in Known(jobs), NEW row \in Job,
           row.user = jobs[j].user, row.state = "Queued" => jobs[j].state = "Queued",
           jobs' \in Settlements([jobs EXCEPT ![j] = row]),
           UNCHANGED <<cmd, told>>, commands' \in 0 .. MaxCommands
    PROVE  CommandsInv'
<1>. DEFINE js == [jobs EXCEPT ![j] = row]
<1>1. SubmissionTypeOK /\ Len(jobs) <= MaxJobs /\ Len(jobs) \in Nat
  BY KnownIds DEF CommandsInv
<1>2. /\ js \in Seq(Job) /\ Len(js) = Len(jobs)
      /\ \A k \in Known(jobs) : js[k].user = jobs[k].user
      /\ \A u \in Users : Cardinality(QueuedIn(js, u)) <= MaxQueued
  BY OneChanged
<1>3. jobs' \in Settlements(js)
  OBVIOUS
<1>. HIDE DEF js
<1>4. jobs' \in Seq(Job) /\ Len(jobs') = Len(js) /\ OwnersKept /\ QueueLimitKept'
  BY <1>1, <1>2, <1>3, SettledTable
<1>. QED BY <1>1, <1>2, <1>4, DaemonStep

LEMMA FinalKeeps ==
    ASSUME CommandsInv, NEW j \in Known(jobs), NEW final \in {"Finished", "Failed"},
           End(j, final)
    PROVE  CommandsInv'
<1>1. jobs[j] \in Job
  BY KnownIds DEF CommandsInv
<1>2. [jobs[j] EXCEPT !.state = final] \in Job
  BY <1>1 DEF Job, Ended, Lost
<1>3. jobs' \in Settlements([jobs EXCEPT ![j] = [jobs[j] EXCEPT !.state = final]])
  BY DEF End
<1>4. commands' \in 0 .. MaxCommands
  BY DEF CommandsInv, SubmissionTypeOK, End
<1>5. /\ [jobs[j] EXCEPT !.state = final].user = jobs[j].user
      /\ [jobs[j] EXCEPT !.state = final].state = "Queued" => jobs[j].state = "Queued"
  BY <1>1 DEF Job
<1>. QED BY <1>2, <1>3, <1>4, <1>5, ChangeKeeps DEF End

LEMMA CancelKeeps ==
    ASSUME CommandsInv, NEW j \in Known(jobs), Cancel(j)
    PROVE  CommandsInv'
<1>1. jobs[j] \in Job
  BY KnownIds DEF CommandsInv
<1>2. [jobs[j] EXCEPT !.state = "Cancelled"] \in Job
  BY <1>1 DEF Job, Ended, Lost
<1>3. jobs' \in Settlements([jobs EXCEPT ![j] = [jobs[j] EXCEPT !.state = "Cancelled"]])
  BY DEF Cancel
<1>4. commands' \in 0 .. MaxCommands
  BY CommandCounted DEF CommandsInv, Cancel
<1>5. /\ [jobs[j] EXCEPT !.state = "Cancelled"].user = jobs[j].user
      /\ [jobs[j] EXCEPT !.state = "Cancelled"].state = "Queued" => jobs[j].state = "Queued"
  BY <1>1 DEF Job
<1>. QED BY <1>2, <1>3, <1>4, <1>5, ChangeKeeps DEF Cancel

LEMMA UpdateKeeps ==
    ASSUME CommandsInv, NEW j \in Known(jobs), NEW d \in Known(jobs), UpdateJob(j, d)
    PROVE  CommandsInv'
<1>1. jobs[j] \in Job /\ d \in Ids
  BY KnownIds DEF CommandsInv
<1>2. [jobs[j] EXCEPT !.ids = {d}] \in Job
  BY <1>1 DEF Job
<1>3. jobs' \in Settlements([jobs EXCEPT ![j] = [jobs[j] EXCEPT !.ids = {d}]])
  BY DEF UpdateJob
<1>4. commands' \in 0 .. MaxCommands
  BY CommandCounted DEF CommandsInv, UpdateJob
<1>5. /\ [jobs[j] EXCEPT !.ids = {d}].user = jobs[j].user
      /\ [jobs[j] EXCEPT !.ids = {d}].state = "Queued" => jobs[j].state = "Queued"
  BY <1>1 DEF Job
<1>. QED BY <1>2, <1>3, <1>4, <1>5, ChangeKeeps DEF UpdateJob

(* What is appended to a table with room for it, and settled.  *)
LEMMA AppendKeeps ==
    ASSUME SubmissionTypeOK, NEW base \in Seq(Job), Len(base) = Len(jobs),
           \A k \in Known(jobs) : base[k].user = jobs[k].user,
           \A w \in Users : Cardinality(QueuedIn(base, w)) <= MaxQueued,
           NEW u \in Users, NEW R, NEW reqs \in Seq(R), Len(jobs) + Len(reqs) <= MaxJobs,
           \A i \in DOMAIN reqs :
              /\ WellTyped(reqs[i]) /\ reqs[i].user = u
              /\ Cardinality(QueuedIn(base, u)) + (i - 1) < MaxQueued,
           jobs' \in Settlements(Submitted(base, reqs))
    PROVE  /\ jobs' \in Seq(Job) /\ Len(jobs') = Len(jobs) + Len(reqs)
           /\ Len(jobs') <= MaxJobs /\ OwnersKept /\ QueueLimitKept'
           /\ \A i \in DOMAIN reqs : /\ jobs'[Len(jobs) + i].user = u
                                     /\ jobs'[Len(jobs) + i].ids = reqs[i].ids
<1>. DEFINE js == Submitted(base, reqs)
<1>1. /\ Len(jobs) \in Nat /\ Known(jobs) = 1 .. Len(jobs) /\ DOMAIN base = 1 .. Len(jobs)
      /\ DOMAIN reqs = 1 .. Len(reqs) /\ Len(reqs) \in Nat
  BY KnownIds
<1>2. /\ js \in Seq(Job) /\ Len(js) = Len(jobs) + Len(reqs)
      /\ \A j \in DOMAIN base : js[j] = base[j]
      /\ \A i \in DOMAIN reqs : /\ js[Len(jobs) + i].user = u
                                /\ js[Len(jobs) + i].ids = reqs[i].ids
  <2>1. Len(base) + Len(reqs) <= MaxJobs /\ \A i \in DOMAIN reqs : WellTyped(reqs[i])
    OBVIOUS
  <2>2. js = Submitted(base, reqs)
    OBVIOUS
  <2>. HIDE DEF js
  <2>3. /\ js \in Seq(Job) /\ Len(js) = Len(base) + Len(reqs)
        /\ \A j \in DOMAIN base : js[j] = base[j]
        /\ \A i \in DOMAIN reqs : /\ js[Len(base) + i].user = reqs[i].user
                                  /\ js[Len(base) + i].ids = reqs[i].ids
    BY ONLY <2>1, <2>2, base \in Seq(Job), reqs \in Seq(R), SubmittedAre
  <2>. QED BY <2>3
<1>3. jobs' \in Settlements(js)
  OBVIOUS
<1>. HIDE DEF js
<1>4. \A w \in Users : Cardinality(QueuedIn(js, w)) <= MaxQueued
  <2>1. \A i \in DOMAIN reqs : /\ reqs[i].user = u
                              /\ Cardinality(QueuedIn(base, u)) + (i - 1) < MaxQueued
    OBVIOUS
  <2>2. Len(js) = Len(base) + Len(reqs)
    BY <1>2
  <2>3. \A i \in DOMAIN reqs : js[Len(base) + i].user = reqs[i].user
    BY <1>2, <2>1
  <2>4. \A w \in Users : Cardinality(QueuedIn(base, w)) <= MaxQueued
    OBVIOUS
  <2>. QED BY ONLY <1>2, <2>1, <2>2, <2>3, <2>4, base \in Seq(Job), u \in Users,
                   reqs \in Seq(R), QueueAfter
<1>5. \A k \in Known(jobs) : js[k].user = jobs[k].user
  BY <1>1, <1>2
<1>6. /\ jobs' \in Seq(Job) /\ Len(jobs') = Len(js) /\ OwnersKept /\ QueueLimitKept'
      /\ \A k \in DOMAIN js : jobs'[k].user = js[k].user /\ jobs'[k].ids = js[k].ids
  <2>1. Len(js) <= MaxJobs /\ Len(jobs) <= Len(js) /\ js \in Seq(Job)
    BY <1>1, <1>2
  <2>. QED BY ONLY <1>3, <1>4, <1>5, <2>1, SubmissionTypeOK, SettledTable
<1>7. \A i \in DOMAIN reqs : Len(jobs) + i \in DOMAIN js
  BY <1>1, <1>2
<1>. QED BY <1>2, <1>6, <1>7

(* A dependency in the legacy field is one of the list.  *)
LEMMA LegacyIsOne ==
    ASSUME NEW D
    PROVE  LegacyFor(D) \in D \cup {Nobody}
<1>1. CASE Cardinality(D) = 1
  <2>1. D # {}
    BY <1>1, FS_EmptySet
  <2>. QED BY <1>1, <2>1 DEF LegacyFor
<1>2. CASE Cardinality(D) # 1
  BY <1>2 DEF LegacyFor
<1>. QED BY <1>1, <1>2

LEMMA RetryKeeps ==
    ASSUME CommandsInv, NEW j \in Known(jobs), Retry(j)
    PROVE  CommandsInv'
<1>. DEFINE n == Len(jobs) + 1
            after(k) == (DepsOf(jobs[k]) \ {j}) \cup {n}
            moved == [k \in Known(jobs) |->
                       IF k = j THEN [jobs[k] EXCEPT !.state = "Failed"]
                       ELSE IF jobs[k].state = "Queued" /\ j \in DepsOf(jobs[k])
                       THEN [jobs[k] EXCEPT !.ids = after(k),
                                            !.legacy = LegacyFor(after(k))]
                       ELSE jobs[k]]
            again == [jobs[j] EXCEPT !.ids = DepsOf(jobs[j]),
                                     !.legacy = LegacyFor(DepsOf(jobs[j])),
                                     !.again = j,
                                     !.from = IF @ = Nobody THEN j ELSE @]
            u == jobs[j].user
<1>1. /\ SubmissionTypeOK /\ QueueLimitKept /\ jobs \in Seq(Job)
      /\ Len(jobs) \in Nat /\ Known(jobs) = 1 .. Len(jobs)
      /\ Known(jobs) \subseteq Ids /\ DOMAIN jobs = Known(jobs)
      /\ \A k \in Known(jobs) : jobs[k] \in Job
      /\ \A w : QueuedOf(w) = QueuedIn(jobs, w)
      /\ MaxQueued \in Nat
  BY KnownIds, SubmissionAssumption DEF CommandsInv
<1>2. /\ jobs[j].state = "Running" /\ MayRetry(j) /\ Len(jobs) < MaxJobs
      /\ jobs' \in Settlements(Submitted(moved, <<again>>))
      /\ UNCHANGED <<cmd, told, commands>>
  BY DEF Retry
<1>3. /\ n \in Ids
      /\ \A k \in Known(jobs) : DepsOf(jobs[k]) \subseteq Ids /\ after(k) \subseteq Ids
  <2>1. n \in Ids
    <3>1. MaxJobs \in Nat /\ Len(jobs) \in Nat /\ Len(jobs) < MaxJobs
      BY <1>1, <1>2, SubmissionAssumption
    <3>. QED BY ONLY <3>1 DEF Ids
  <2>2. \A k \in Known(jobs) : DepsOf(jobs[k]) \subseteq Ids
    BY <1>1 DEF DepsOf, Job
  <2>. QED BY <2>1, <2>2
<1>4. \A k \in Known(jobs) : /\ LegacyFor(after(k)) \in Ids \cup {Nobody}
                             /\ LegacyFor(DepsOf(jobs[k])) \in Ids \cup {Nobody}
  <2>. HIDE DEF after
  <2>. QED BY <1>3, LegacyIsOne
<1>5. \A k \in Known(jobs) : /\ moved[k] \in Job /\ moved[k].user = jobs[k].user
                             /\ moved[k].state = "Queued" => jobs[k].state = "Queued"
  <2>. TAKE k \in Known(jobs)
  <2>1. /\ jobs[k] \in Job /\ after(k) \subseteq Ids
        /\ LegacyFor(after(k)) \in Ids \cup {Nobody}
    BY <1>1, <1>3, <1>4
  <2>. HIDE DEF after
  <2>2. CASE k = j
    BY <2>1, <2>2 DEF Job, Ended, Lost
  <2>3. CASE k # j
    BY <2>1, <2>3 DEF Job
  <2>. QED BY <2>2, <2>3
<1>6. /\ WellTyped(again) /\ again.user = u /\ u \in Users
  <2>1. jobs[j] \in Job /\ DepsOf(jobs[j]) \subseteq Ids
        /\ LegacyFor(DepsOf(jobs[j])) \in Ids \cup {Nobody} /\ j \in Ids
    BY <1>1, <1>3, <1>4
  <2>. QED BY <2>1 DEF Job, WellTyped
<1>7. moved \in Seq(Job) /\ Len(moved) = Len(jobs)
  <2>1. moved = [k \in Known(jobs) |-> moved[k]]
    OBVIOUS
  <2>. HIDE DEF moved
  <2>2. moved \in [1 .. Len(jobs) -> Job]
    BY <1>1, <1>5, <2>1
  <2>. QED BY <1>1, <2>2
<1>. HIDE DEF moved, again, after, n
<1>8. \A w \in Users : /\ Cardinality(QueuedIn(moved, w)) <= Cardinality(QueuedOf(w))
                       /\ Cardinality(QueuedIn(moved, w)) \in Nat
                       /\ Cardinality(QueuedOf(w)) \in Nat
  <2>. TAKE w \in Users
  <2>1. DOMAIN moved = Known(jobs)
    BY <1>1, <1>7
  <2>2. \A k \in QueuedIn(moved, w) : k \in QueuedIn(jobs, w)
    BY <1>1, <1>5, <2>1 DEF QueuedIn
  <2>. QED BY <1>1, <1>7, <2>2, QueueNotFuller, QueuedFinite, FS_CardinalityType
<1>9. \A w \in Users : Cardinality(QueuedIn(moved, w)) <= MaxQueued
  BY <1>1, <1>8 DEF QueueLimitKept
<1>10. Cardinality(QueuedIn(moved, u)) + (1 - 1) < MaxQueued
  BY <1>1, <1>2, <1>6, <1>8 DEF MayRetry, MayQueue
<1>11. /\ jobs' \in Seq(Job) /\ Len(jobs') <= MaxJobs /\ OwnersKept /\ QueueLimitKept'
  <2>1. PICK reqs : reqs = <<again>>
    OBVIOUS
  <2>2. reqs \in Seq({again}) /\ Len(reqs) = 1 /\ DOMAIN reqs = 1 .. 1 /\ reqs[1] = again
    BY <2>1
  <2>3. \A i \in DOMAIN reqs :
              /\ WellTyped(reqs[i]) /\ reqs[i].user = u
              /\ Cardinality(QueuedIn(moved, u)) + (i - 1) < MaxQueued
    BY <1>6, <1>10, <2>2
  <2>4. Len(jobs) + Len(reqs) <= MaxJobs
    <3>1. MaxJobs \in Nat /\ Len(jobs) \in Nat
      BY <1>1, SubmissionAssumption
    <3>2. Len(jobs) < MaxJobs /\ Len(reqs) = 1
      BY <1>2, <2>2
    <3>3. Len(jobs) + 1 <= MaxJobs
      BY ONLY <3>1, <3>2
    <3>. QED BY ONLY <3>2, <3>3
  <2>5. jobs' \in Settlements(Submitted(moved, reqs))
    BY <1>2, <2>1
  <2>6. /\ SubmissionTypeOK /\ u \in Users
        /\ \A k \in Known(jobs) : moved[k].user = jobs[k].user
    BY <1>1, <1>5, <1>6
  <2>7. reqs \in Seq({again})
    BY <2>2
  <2>. HIDE DEF u
  <2>. QED BY ONLY <1>7, <1>9, <2>3, <2>4, <2>5, <2>6, <2>7, AppendKeeps
<1>12. commands' \in 0 .. MaxCommands
  BY <1>1, <1>2, CommandCounted
<1>. QED BY <1>2, <1>11, <1>12, DaemonStep

-----------------------------------------------------------------------------
(* The steps of the shells.  *)

Batches == [op : {"batch"}, count : 1 .. MaxBatch, refs : Offsets, retries : Attempts,
            answers : Seq(Ids)]
Redos == [op : {"redo"}, source : Copied, cascade : BOOLEAN]
Lists == [op : {"list"}, source : Copied, copy : Ids]
Renamings == UNION {[D -> Ids] : D \in SUBSET Ids}
Cascades == [op : {"cascade"}, source : Copied, list : SUBSET Copied, copies : Renamings]

(* A command is of the kind its name says.  *)
LEMMA CommandKinds ==
    ASSUME SubmissionTypeOK, NEW c \in Clients
    PROVE  /\ Running(c, "batch") => cmd[c] \in Batches
           /\ Running(c, "redo") => cmd[c] \in Redos
           /\ Running(c, "list") => cmd[c] \in Lists
           /\ Running(c, "cascade") => cmd[c] \in Cascades
<1>1. cmd[c] \in {Idle} \cup Batches \cup Redos \cup Lists \cup Cascades
  BY DEF SubmissionTypeOK, Command, Batches, Redos, Lists, Cascades, Renamings
<1>2. Idle.op = "idle"
  BY DEF Idle
<1>3. \A x \in Batches : x.op = "batch"
  BY DEF Batches
<1>4. \A x \in Redos : x.op = "redo"
  BY DEF Redos
<1>5. \A x \in Lists : x.op = "list"
  BY DEF Lists
<1>6. \A x \in Cascades : x.op = "cascade"
  BY DEF Cascades
<1>. QED BY <1>1, <1>2, <1>3, <1>4, <1>5, <1>6 DEF Running

LEMMA KindsOfCommand ==
    ASSUME NEW x, x \in {Idle} \cup Batches \cup Redos \cup Lists \cup Cascades
    PROVE  x \in Command
BY Zenon DEF Command, Batches, Redos, Lists, Cascades, Renamings

(* A shell goes on to a command of which nothing is to be shown.  *)
LEMMA Quiet ==
    ASSUME CommandsInv, NEW c \in Clients, NEW next, Does(c, next),
           next.op \notin {"batch", "cascade"}, ToldSound(c)'
    PROVE  ShellSound(c)'
<1>1. cmd'[c] = next
  BY DEF CommandsInv, SubmissionTypeOK, Does
<1>. QED BY <1>1 DEF ShellSound, AnswersSound, CascadeSound, Running

(* A shell that submits nothing.  *)
LEMMA ShellOnly ==
    ASSUME CommandsInv, NEW c \in Clients, NEW next \in Command, Does(c, next),
           UNCHANGED <<jobs, told>>, commands' \in 0 .. MaxCommands,
           ToldSound(c)' => ShellSound(c)'
    PROVE  CommandsInv'
<1>1. /\ SubmissionTypeOK /\ QueueLimitKept /\ jobs \in Seq(Job) /\ Len(jobs) <= MaxJobs
      /\ told \in [Clients -> Ids \cup {Nobody}] /\ ToldSound(c)
  BY DEF CommandsInv, SubmissionTypeOK, ShellSound
<1>2. OwnersKept
  BY DEF OwnersKept
<1>3. QueueLimitKept'
  BY <1>1 DEF QueueLimitKept, QueuedOf, Known, Users
<1>4. ToldSound(c)'
  BY <1>1 DEF ToldSound
<1>5. /\ jobs' \in Seq(Job) /\ Len(jobs') <= MaxJobs
      /\ told' \in [Clients -> Ids \cup {Nobody}]
      /\ \A d \in Clients \ {c} : told'[d] = told[d]
  BY <1>1
<1>6. ShellSound(c)'
  BY <1>4
<1>. QED BY <1>2, <1>3, <1>5, <1>6, ShellStep

(* A shell whose command ends, or goes on to one of which nothing is to be shown,
   without a submission.  *)
LEMMA QuietOnly ==
    ASSUME CommandsInv, NEW c \in Clients, NEW next \in Command, Does(c, next),
           next.op \notin {"batch", "cascade"},
           UNCHANGED <<jobs, told>>, commands' \in 0 .. MaxCommands
    PROVE  CommandsInv'
BY Quiet, ShellOnly

LEMMA IdleIs == Idle \in Command /\ Idle.op \notin {"batch", "cascade"}
BY DEF Command, Idle

LEMMA FailsKeeps ==
    ASSUME CommandsInv, NEW c \in Clients, Fails(c)
    PROVE  CommandsInv'
<1>1. commands' \in 0 .. MaxCommands
  BY CommandCounted DEF CommandsInv, Fails
<1>. QED BY <1>1, IdleIs, QuietOnly DEF Fails

LEMMA GBatchKeeps ==
    ASSUME CommandsInv, NEW c \in Clients, GBatch(c)
    PROVE  CommandsInv'
<1>1. PICK n \in 1 .. MaxBatch, refs \in Offsets, r \in Attempts :
         Begins(c, [op |-> "batch", count |-> n, refs |-> refs, retries |-> r,
                    answers |-> <<>>])
  BY DEF GBatch
<1>. DEFINE next == [op |-> "batch", count |-> n, refs |-> refs, retries |-> r,
                     answers |-> <<>>]
<1>2. next \in Command /\ next.op = "batch" /\ next.answers = <<>>
  <2>1. next \in Batches
    BY DEF Batches
  <2>. QED BY <2>1, KindsOfCommand
<1>3. Does(c, next) /\ UNCHANGED <<jobs, told>> /\ Given
  BY <1>1 DEF Begins
<1>. HIDE DEF next
<1>4. commands' \in 0 .. MaxCommands
  BY <1>3, CommandCounted DEF CommandsInv
<1>5. cmd'[c] = next
  BY <1>3 DEF CommandsInv, SubmissionTypeOK, Does
<1>6. ToldSound(c)' => ShellSound(c)'
  BY <1>2, <1>5 DEF ShellSound, AnswersSound, CascadeSound, Running
<1>. QED BY <1>2, <1>3, <1>4, <1>6, ShellOnly

LEMMA SnapshotsAre ==
    ASSUME SubmissionTypeOK, NEW j \in Known(jobs)
    PROVE  Snapshot(j) \in Copied /\ Snapshot(j).id = j
BY KnownIds DEF Snapshot, Copied, Job

LEMMA RedoKeeps ==
    ASSUME CommandsInv, NEW c \in Clients, NEW j \in Known(jobs), Redo(c, j)
    PROVE  CommandsInv'
<1>1. PICK cascade \in BOOLEAN :
         Begins(c, [op |-> "redo", source |-> Snapshot(j), cascade |-> cascade])
  BY DEF Redo
<1>. DEFINE next == [op |-> "redo", source |-> Snapshot(j), cascade |-> cascade]
<1>2. next \in Command /\ next.op = "redo"
  <2>1. Snapshot(j) \in Copied
    BY SnapshotsAre DEF CommandsInv
  <2>2. next \in Redos
    BY <2>1 DEF Redos
  <2>. QED BY <2>2, KindsOfCommand
<1>3. Does(c, next) /\ UNCHANGED <<jobs, told>> /\ Given
  BY <1>1 DEF Begins
<1>. HIDE DEF next
<1>4. commands' \in 0 .. MaxCommands
  BY <1>3, CommandCounted DEF CommandsInv
<1>. QED BY <1>2, <1>3, <1>4, QuietOnly

LEMMA ResolveKeeps ==
    ASSUME CommandsInv, NEW c \in Clients, ResolveNext(c)
    PROVE  CommandsInv'
<1>. DEFINE u == LoginOf[c]
            n == NextRef(c)
            a == Resolve(u, n)
            k == Len(cmd[c].refs)
            m == Len(cmd[c].answers)
            next == [cmd[c] EXCEPT !.answers = Append(@, a)]
<1>1. /\ SubmissionTypeOK /\ Running(c, "batch") /\ m < cmd[c].count * k
      /\ UNCHANGED <<jobs, told, commands>>
      /\ Does(c, IF Resolves(u, n) THEN next ELSE Idle)
  BY DEF CommandsInv, ResolveNext, Resolving
<1>2. commands' \in 0 .. MaxCommands
  BY <1>1, CommandCounted
<1>3. cmd[c] \in Batches
  BY <1>1, CommandKinds
<1>4. CASE ~Resolves(u, n)
  BY <1>1, <1>2, <1>4, IdleIs, QuietOnly
<1>5. CASE Resolves(u, n)
  <2>1. /\ cmd[c].refs \in Seq(Nat \ {0}) /\ cmd[c].answers \in Seq(Ids)
        /\ cmd[c].count \in Nat /\ k \in Nat /\ m \in Nat
    BY <1>3, SubmissionAssumption DEF Batches
  <2>2. k # 0
    <3>1. cmd[c].count * 0 = 0
      BY <2>1
    <3>. QED BY <1>1, <2>1, <3>1
  <2>3. 1 + (m % k) \in 1 .. k
    <3>. HIDE DEF m, k
    <3>. QED BY <2>1, <2>2
  <2>4. n \in Nat \ {0}
    <3>1. n = cmd[c].refs[1 + (m % k)]
      BY DEF NextRef
    <3>2. \A i \in 1 .. k : cmd[c].refs[i] \in Nat \ {0}
      BY <2>1
    <3>. HIDE DEF n, m, k
    <3>. QED BY <2>3, <3>1, <3>2
  <2>. HIDE DEF n
  <2>5. a \in JobsOf(u) /\ (n = 1 => \A j \in JobsOf(u) : a >= j)
    BY <1>1, <1>5, <2>4, ResolveAnswers
  <2>. HIDE DEF a
  <2>6. a \in Known(jobs) /\ jobs[a].user = u /\ a \in Ids
    BY <1>1, <2>5, KnownIds DEF JobsOf
  <2>7. /\ next \in Batches /\ next.op = "batch" /\ next.refs = cmd[c].refs
        /\ next.answers = Append(cmd[c].answers, a)
    <3>1. PICK answers : answers = Append(cmd[c].answers, a)
      OBVIOUS
    <3>2. answers \in Seq(Ids)
      BY <2>1, <2>6, <3>1
    <3>3. next = [cmd[c] EXCEPT !.answers = answers]
      BY <3>1
    <3>. HIDE DEF next
    <3>4. next \in Batches /\ next.refs = cmd[c].refs /\ next.answers = answers
      BY <1>3, <3>2, <3>3 DEF Batches
    <3>. QED BY <3>1, <3>4 DEF Batches
  <2>8. Does(c, next)
    BY <1>1, <1>5
  <2>9. cmd'[c] = next
    BY <1>1, <2>8 DEF SubmissionTypeOK, Does
  <2>. HIDE DEF next
  <2>10. AnswersSound(c)'
    <3>. SUFFICES ASSUME NEW i \in DOMAIN next.answers
                  PROVE  /\ next.answers[i] \in Known(jobs)
                         /\ jobs[next.answers[i]].user = u
                         /\ RefAt(c, i)' = 1 => next.answers[i] >= told[c]
      BY <1>1, <2>9 DEF AnswersSound, Known
    <3>1. RefAt(c, i)' = RefAt(c, i)
      BY <2>7, <2>9 DEF RefAt
    <3>2. CASE i \in DOMAIN cmd[c].answers
      <4>1. next.answers[i] = cmd[c].answers[i]
        BY <2>1, <2>7, <3>2
      <4>2. AnswersSound(c)
        BY DEF CommandsInv, ShellSound
      <4>. QED BY <1>1, <3>1, <3>2, <4>1, <4>2 DEF AnswersSound
    <3>3. CASE i \notin DOMAIN cmd[c].answers
      <4>1. i = m + 1 /\ next.answers[i] = a
        BY <2>1, <2>7, <3>3
      <4>2. RefAt(c, i) = n
        <5>1. (m + 1) - 1 = m
          BY <2>1
        <5>. QED BY <4>1, <5>1 DEF RefAt, n, NextRef
      <4>3. n = 1 => a >= told[c]
        <5>1. ToldSound(c) /\ told[c] \in Ids \cup {Nobody}
          BY DEF CommandsInv, ShellSound, SubmissionTypeOK
        <5>2. CASE told[c] = Nobody
          BY <1>1, <2>6, <5>2, KnownIds DEF Nobody
        <5>3. CASE told[c] # Nobody
          BY <2>5, <5>1, <5>3 DEF ToldSound, JobsOf
        <5>. QED BY <5>2, <5>3
      <4>. QED BY <2>6, <3>1, <4>1, <4>2, <4>3
    <3>. QED BY <3>2, <3>3
  <2>11. ToldSound(c)' => ShellSound(c)'
    BY <2>7, <2>9, <2>10 DEF ShellSound, CascadeSound, Running
  <2>12. next \in Command
    BY <2>7, KindsOfCommand
  <2>. QED BY <1>1, <1>2, <2>8, <2>11, <2>12, ShellOnly
<1>. QED BY <1>4, <1>5

(* Requests that are accepted: the table grows by them, and the shell is told of the
   last.  *)
LEMMA PostedAre ==
    ASSUME CommandsInv, NEW c \in Clients, NEW R, NEW reqs \in Seq(R), reqs # <<>>,
           Accepts(reqs),
           \A i \in DOMAIN reqs : /\ reqs[i].user = LoginOf[c] /\ reqs[i].retries \in Nat
                                 /\ {reqs[i].from, reqs[i].again} \subseteq Ids \cup {Nobody},
           jobs' \in Settlements(Submitted(jobs, reqs)), Told(c)
    PROVE  /\ jobs' \in Seq(Job) /\ Len(jobs') = Len(jobs) + Len(reqs)
           /\ Len(jobs') <= MaxJobs /\ Newest \in Ids /\ OwnersKept /\ QueueLimitKept'
           /\ told' \in [Clients -> Ids \cup {Nobody}] /\ told'[c] = Newest
           /\ \A d \in Clients \ {c} : told'[d] = told[d]
           /\ ToldSound(c)'
           /\ jobs'[Newest].ids = reqs[Len(reqs)].ids
<1>. DEFINE u == LoginOf[c]
            n == Len(reqs)
<1>1. /\ SubmissionTypeOK /\ QueueLimitKept /\ jobs \in Seq(Job)
      /\ Len(jobs) \in Nat /\ Known(jobs) \subseteq Ids
      /\ \A w : QueuedOf(w) = QueuedIn(jobs, w)
      /\ u \in Users
  BY KnownIds DEF CommandsInv, Users
<1>2. n \in Nat \ {0} /\ DOMAIN reqs = 1 .. n /\ n \in DOMAIN reqs
  OBVIOUS
<1>3. Len(jobs) + n <= MaxJobs
  BY DEF Accepts
<1>4. \A i \in DOMAIN reqs :
         /\ WellTyped(reqs[i]) /\ reqs[i].user = u
         /\ Cardinality(QueuedIn(jobs, u)) + (i - 1) < MaxQueued
  <2>. TAKE i \in DOMAIN reqs
  <2>1. /\ reqs[i].user = u /\ DepsOf(reqs[i]) \subseteq Ids
        /\ Cardinality(QueuedOf(u)) + (i - 1) < MaxQueued
    BY <1>1 DEF Accepts, MayQueue
  <2>2. reqs[i].ids \subseteq Ids /\ reqs[i].legacy \in Ids \cup {Nobody}
    BY <2>1 DEF DepsOf
  <2>3. WellTyped(reqs[i])
    BY <1>1, <2>1, <2>2 DEF WellTyped
  <2>. QED BY <1>1, <2>1, <2>3
<1>5. \A w \in Users : Cardinality(QueuedIn(jobs, w)) <= MaxQueued
  BY <1>1 DEF QueueLimitKept
<1>. HIDE DEF u
<1>6. /\ jobs' \in Seq(Job) /\ Len(jobs') = Len(jobs) + n
      /\ Len(jobs') <= MaxJobs /\ OwnersKept /\ QueueLimitKept'
      /\ \A i \in DOMAIN reqs : /\ jobs'[Len(jobs) + i].user = u
                                /\ jobs'[Len(jobs) + i].ids = reqs[i].ids
  <2>1. jobs \in Seq(Job) /\ SubmissionTypeOK /\ u \in Users
    BY <1>1
  <2>2. Len(jobs) = Len(jobs) /\ \A k \in Known(jobs) : jobs[k].user = jobs[k].user
    OBVIOUS
  <2>3. jobs' \in Settlements(Submitted(jobs, reqs))
    OBVIOUS
  <2>. QED BY ONLY <1>3, <1>4, <1>5, <2>1, <2>2, <2>3, reqs \in Seq(R), AppendKeeps
<1>7. /\ Newest \in Ids /\ Newest = Len(jobs) + n /\ Newest \in Known(jobs')
  BY <1>1, <1>2, <1>6, SubmissionAssumption DEF Newest, Ids, Known
<1>8. /\ told' \in [Clients -> Ids \cup {Nobody}] /\ told'[c] = Newest
      /\ \A d \in Clients \ {c} : told'[d] = told[d]
  BY <1>1, <1>7 DEF Told, SubmissionTypeOK
<1>9. jobs'[Newest].user = u /\ jobs'[Newest].ids = reqs[n].ids
  BY <1>2, <1>6, <1>7
<1>10. ToldSound(c)'
  BY <1>7, <1>8, <1>9 DEF ToldSound, u
<1>. QED BY <1>6, <1>7, <1>8, <1>9, <1>10

LEMMA PostBatchKeeps ==
    ASSUME CommandsInv, NEW c \in Clients, PostBatch(c)
    PROVE  CommandsInv'
<1>1. /\ SubmissionTypeOK /\ Running(c, "batch") /\ Does(c, Idle) /\ UNCHANGED commands
  BY DEF CommandsInv, PostBatch
<1>2. commands' \in 0 .. MaxCommands
  BY <1>1, CommandCounted
<1>3. CASE ~Accepts(Requests(c))
  <2>1. UNCHANGED <<jobs, told>>
    BY <1>3 DEF PostBatch
  <2>. QED BY <1>1, <1>2, <2>1, IdleIs, QuietOnly
<1>4. CASE Accepts(Requests(c))
  <2>. DEFINE reqs == Requests(c)
  <2>1. jobs' \in Settlements(Submitted(jobs, reqs)) /\ Told(c)
    BY <1>4 DEF PostBatch
  <2>2. cmd[c] \in Batches
    BY <1>1, CommandKinds
  <2>3. cmd[c].count \in Nat \ {0} /\ cmd[c].retries \in Nat
    <3>1. cmd[c].count \in 1 .. MaxBatch /\ cmd[c].retries \in Attempts
      BY <2>2 DEF Batches
    <3>2. MaxBatch \in Nat /\ Attempts \subseteq Nat
      BY SubmissionAssumption
    <3>3. \A i \in 1 .. MaxBatch : i \in Nat \ {0}
      BY <3>2
    <3>. QED BY ONLY <3>1, <3>2, <3>3
  <2>4. /\ DOMAIN reqs = 1 .. cmd[c].count
        /\ \A i \in DOMAIN reqs : /\ reqs[i].user = LoginOf[c] /\ reqs[i].retries \in Nat
                                 /\ reqs[i].from = Nobody /\ reqs[i].again = Nobody
    BY <2>3 DEF Requests
  <2>5. PICK R : reqs \in Seq(R)
    <3>1. reqs \in [1 .. cmd[c].count -> {reqs[i] : i \in 1 .. cmd[c].count}]
      BY DEF Requests
    <3>. HIDE DEF reqs
    <3>2. reqs \in Seq({reqs[i] : i \in 1 .. cmd[c].count})
      BY <2>3, <3>1
    <3>. QED BY <3>2
  <2>6. reqs # <<>>
    <3>. HIDE DEF reqs
    <3>. QED BY <2>3, <2>4
  <2>7. Accepts(reqs)
    BY <1>4
  <2>. HIDE DEF reqs
  <2>8. \A i \in DOMAIN reqs : /\ reqs[i].user = LoginOf[c] /\ reqs[i].retries \in Nat
                               /\ {reqs[i].from, reqs[i].again} \subseteq Ids \cup {Nobody}
    BY <2>4
  <2>9. /\ jobs' \in Seq(Job) /\ Len(jobs') <= MaxJobs /\ OwnersKept /\ QueueLimitKept'
        /\ told' \in [Clients -> Ids \cup {Nobody}]
        /\ \A d \in Clients \ {c} : told'[d] = told[d]
        /\ ToldSound(c)'
    BY ONLY <2>1, <2>5, <2>6, <2>7, <2>8, CommandsInv, c \in Clients, PostedAre
  <2>10. ShellSound(c)'
    BY <1>1, <2>9, IdleIs, Quiet
  <2>. QED BY <1>1, <1>2, <2>9, <2>10, IdleIs, ShellStep
<1>. QED BY <1>3, <1>4

(* One request.  *)
LEMMA OneRequest ==
    ASSUME CommandsInv, NEW c \in Clients, NEW r, NEW reqs, reqs = <<r>>,
           Accepts(reqs),
           r.user = LoginOf[c], r.retries \in Nat,
           {r.from, r.again} \subseteq Ids \cup {Nobody},
           jobs' \in Settlements(Submitted(jobs, reqs)), Told(c)
    PROVE  /\ jobs' \in Seq(Job) /\ Len(jobs') = Len(jobs) + 1
           /\ Len(jobs') <= MaxJobs /\ Newest \in Ids /\ OwnersKept /\ QueueLimitKept'
           /\ told' \in [Clients -> Ids \cup {Nobody}] /\ told'[c] = Newest
           /\ \A d \in Clients \ {c} : told'[d] = told[d]
           /\ ToldSound(c)'
           /\ jobs'[Newest].ids = r.ids
<1>1. /\ reqs \in Seq({r}) /\ Len(reqs) = 1 /\ reqs # <<>> /\ reqs[1] = r
      /\ \A i \in DOMAIN reqs : reqs[i] = r
  OBVIOUS
<1>2. \A i \in DOMAIN reqs : /\ reqs[i].user = LoginOf[c] /\ reqs[i].retries \in Nat
                             /\ {reqs[i].from, reqs[i].again} \subseteq Ids \cup {Nobody}
  BY <1>1
<1>3. /\ jobs' \in Seq(Job) /\ Len(jobs') = Len(jobs) + Len(reqs)
      /\ Len(jobs') <= MaxJobs /\ Newest \in Ids /\ OwnersKept /\ QueueLimitKept'
      /\ told' \in [Clients -> Ids \cup {Nobody}] /\ told'[c] = Newest
      /\ \A d \in Clients \ {c} : told'[d] = told[d]
      /\ ToldSound(c)'
      /\ jobs'[Newest].ids = reqs[Len(reqs)].ids
  <2>1. reqs \in Seq({r}) /\ reqs # <<>>
    BY <1>1
  <2>2. /\ CommandsInv /\ c \in Clients /\ Accepts(reqs)
        /\ jobs' \in Settlements(Submitted(jobs, reqs)) /\ Told(c)
    OBVIOUS
  <2>. QED BY ONLY <1>2, <2>1, <2>2, PostedAre
<1>. QED BY <1>1, <1>3

LEMMA PostRedoKeeps ==
    ASSUME CommandsInv, NEW c \in Clients, PostRedo(c)
    PROVE  CommandsInv'
<1>. DEFINE r == RedoOf(c, cmd[c].source)
            reqs == <<r>>
            next == IF cmd[c].cascade
                    THEN [op |-> "list", source |-> cmd[c].source, copy |-> Newest]
                    ELSE Idle
<1>1. SubmissionTypeOK /\ Running(c, "redo") /\ UNCHANGED commands
  BY DEF CommandsInv, PostRedo
<1>2. commands' \in 0 .. MaxCommands
  BY <1>1, CommandCounted
<1>3. cmd[c].source \in Copied
  BY <1>1, CommandKinds DEF Redos
<1>4. CASE ~Accepts(reqs)
  <2>1. Does(c, Idle) /\ UNCHANGED <<jobs, told>>
    BY <1>4 DEF PostRedo
  <2>. QED BY <1>1, <1>2, <2>1, IdleIs, QuietOnly
<1>5. CASE Accepts(reqs)
  <2>1. jobs' \in Settlements(Submitted(jobs, reqs)) /\ Told(c) /\ Does(c, next)
    BY <1>5 DEF PostRedo
  <2>2. /\ r.user = LoginOf[c] /\ r.retries \in Nat
        /\ {r.from, r.again} \subseteq Ids \cup {Nobody}
    BY <1>3 DEF RedoOf, Copied
  <2>3. PICK posted : posted = reqs
    OBVIOUS
  <2>4. posted = <<r>> /\ Accepts(posted) /\ jobs' \in Settlements(Submitted(jobs, posted))
    BY <1>5, <2>1, <2>3
  <2>. HIDE DEF r, next
  <2>5. /\ jobs' \in Seq(Job) /\ Len(jobs') <= MaxJobs /\ OwnersKept /\ QueueLimitKept'
        /\ Newest \in Ids
        /\ told' \in [Clients -> Ids \cup {Nobody}]
        /\ \A d \in Clients \ {c} : told'[d] = told[d]
        /\ ToldSound(c)'
    BY <2>1, <2>2, <2>4, OneRequest
  <2>6. next \in Command /\ next.op \notin {"batch", "cascade"}
    <3>. DEFINE list == [op |-> "list", source |-> cmd[c].source, copy |-> Newest]
    <3>1. list \in Lists /\ list.op = "list"
      BY <1>3, <2>5 DEF Lists
    <3>2. list \in Command
      BY <3>1, KindsOfCommand
    <3>. QED BY <3>1, <3>2, IdleIs DEF next
  <2>7. ShellSound(c)'
    BY <2>1, <2>5, <2>6, Quiet
  <2>. QED BY <1>1, <1>2, <2>1, <2>5, <2>6, <2>7, ShellStep
<1>. QED BY <1>4, <1>5

LEMMA ListKeeps ==
    ASSUME CommandsInv, NEW c \in Clients, ListJobs(c)
    PROVE  CommandsInv'
<1>. DEFINE source == cmd[c].source
            list == CascadeOf(source.id)
            copies == [d \in {source.id} |-> cmd[c].copy]
            next == [op |-> "cascade", source |-> source,
                     list |-> {Snapshot(j) : j \in list}, copies |-> copies]
<1>1. /\ SubmissionTypeOK /\ Running(c, "list") /\ UNCHANGED <<jobs, told, commands>>
      /\ Does(c, IF list = {} THEN Idle ELSE next)
  BY DEF CommandsInv, ListJobs
<1>2. commands' \in 0 .. MaxCommands
  BY <1>1, CommandCounted
<1>3. source \in Copied /\ source.id \in Ids /\ cmd[c].copy \in Ids
  BY <1>1, CommandKinds DEF Lists, Copied
<1>4. list \subseteq Known(jobs) /\ source.id \notin list
  BY DEF CascadeOf
<1>5. CASE list = {}
  BY <1>1, <1>2, <1>5, IdleIs, QuietOnly
<1>6. CASE list # {}
  <2>. HIDE DEF list, source
  <2>1. \A j \in list : Snapshot(j) \in Copied /\ Snapshot(j).id = j
    BY <1>1, <1>4, SnapshotsAre
  <2>2. copies \in Renamings /\ DOMAIN copies = {source.id}
    <3>1. copies \in [{source.id} -> Ids] /\ {source.id} \in SUBSET Ids
      BY <1>3
    <3>. HIDE DEF copies
    <3>. QED BY <3>1 DEF Renamings
  <2>. HIDE DEF copies
  <2>3. next \in Cascades
    BY <1>3, <2>1, <2>2 DEF Cascades
  <2>4. next \in Command
    BY <2>3, KindsOfCommand
  <2>5. Does(c, next) /\ cmd'[c] = next
    BY <1>1, <1>6 DEF SubmissionTypeOK, Does
  <2>6. /\ next.op = "cascade" /\ next.source = source /\ next.copies = copies
        /\ next.list = {Snapshot(j) : j \in list}
    OBVIOUS
  <2>. HIDE DEF next
  <2>7. Left(c)' # {}
    <3>1. PICK j \in list : TRUE
      BY <1>6
    <3>2. Snapshot(j) \in next.list /\ Snapshot(j).id \notin DOMAIN next.copies
      BY <1>4, <2>1, <2>2, <2>6
    <3>. QED BY <2>5, <3>2 DEF Left
  <2>8. \A s, t \in next.list : s.id = t.id => s = t
    BY <2>1, <2>6
  <2>9. CascadeSound(c)'
    BY <2>2, <2>5, <2>6, <2>7, <2>8 DEF CascadeSound
  <2>10. ToldSound(c)' => ShellSound(c)'
    BY <2>5, <2>6, <2>9 DEF ShellSound, AnswersSound, Running
  <2>. QED BY <1>1, <1>2, <2>4, <2>5, <2>10, ShellOnly
<1>. QED BY <1>5, <1>6

(* The job being copied is the first of those left.  *)
LEMMA CopiedNext ==
    ASSUME CommandsInv, NEW c \in Clients, Running(c, "cascade")
    PROVE  /\ BeingCopied(c) \in Left(c) /\ BeingCopied(c) \in Copied
           /\ \A t \in Left(c) : BeingCopied(c).id <= t.id
<1>1. cmd[c] \in Cascades /\ Left(c) # {}
  BY CommandKinds DEF CommandsInv, ShellSound, CascadeSound
<1>2. Left(c) \subseteq Copied /\ \A t \in Left(c) : t.id \in Nat
  <2>1. Left(c) \subseteq Copied
    BY <1>1 DEF Left, Cascades
  <2>2. \A t \in Copied : t.id \in Nat
    BY SubmissionAssumption DEF Copied, Ids
  <2>. QED BY <2>1, <2>2
<1>3. PICK n \in {t.id : t \in Left(c)} : \A m \in {t.id : t \in Left(c)} : n <= m
  <2>1. {t.id : t \in Left(c)} \in SUBSET Nat /\ {t.id : t \in Left(c)} # {}
    BY <1>1, <1>2
  <2>. QED BY <2>1, LeastOf
<1>4. \E s \in Left(c) : \A t \in Left(c) : s.id <= t.id
  BY <1>3
<1>. QED BY <1>2, <1>4 DEF BeingCopied

(* What the submission of a copy does.  *)
LEMMA CopyPostedIs ==
    ASSUME CommandsInv, NEW c \in Clients, Running(c, "cascade"),
           NEW r, r = CopyOf(c, BeingCopied(c), cmd[c].copies),
           NEW reqs, reqs = <<r>>, Accepts(reqs),
           jobs' \in Settlements(Submitted(jobs, reqs)), Told(c)
    PROVE  /\ jobs' \in Seq(Job) /\ Len(jobs') <= MaxJobs
           /\ Newest \in Ids /\ OwnersKept /\ QueueLimitKept'
           /\ told' \in [Clients -> Ids \cup {Nobody}] /\ told'[c] = Newest
           /\ \A d \in Clients \ {c} : told'[d] = told[d]
           /\ ToldSound(c)'
           /\ jobs'[Newest].ids = r.ids
<1>1. /\ r.user = LoginOf[c] /\ r.retries \in Nat
      /\ {r.from, r.again} \subseteq Ids \cup {Nobody}
  BY CopiedNext DEF CopyOf, Copied
<1>. QED BY <1>1, OneRequest

LEMMA PostCopyKeeps ==
    ASSUME CommandsInv, NEW c \in Clients, PostCopy(c)
    PROVE  CommandsInv'
<1>. DEFINE s == BeingCopied(c)
            r == CopyOf(c, s, cmd[c].copies)
            copies == Extended(cmd[c].copies, s.id, Newest)
            more == [cmd[c] EXCEPT !.copies = Extended(@, s.id, Newest)]
            next == IF Left(c) = {s} THEN Idle ELSE more
<1>1. SubmissionTypeOK /\ Running(c, "cascade") /\ UNCHANGED commands
  BY DEF CommandsInv, PostCopy
<1>2. commands' \in 0 .. MaxCommands
  BY <1>1, CommandCounted
<1>3. CASE ~Accepts(<<r>>)
  <2>1. Does(c, Idle) /\ UNCHANGED <<jobs, told>>
    BY <1>3 DEF PostCopy
  <2>. QED BY <1>1, <1>2, <2>1, IdleIs, QuietOnly
<1>4. CASE Accepts(<<r>>)
  <2>1. jobs' \in Settlements(Submitted(jobs, <<r>>)) /\ Told(c) /\ Does(c, next)
    BY <1>4 DEF PostCopy
  <2>2. /\ jobs' \in Seq(Job) /\ Len(jobs') <= MaxJobs /\ OwnersKept /\ QueueLimitKept'
        /\ Newest \in Ids
        /\ told' \in [Clients -> Ids \cup {Nobody}]
        /\ \A d \in Clients \ {c} : told'[d] = told[d]
        /\ ToldSound(c)'
    <3>1. PICK req, reqs : req = r /\ reqs = <<req>>
      OBVIOUS
    <3>2. /\ req = CopyOf(c, BeingCopied(c), cmd[c].copies)
          /\ reqs = <<req>> /\ Accepts(reqs)
          /\ jobs' \in Settlements(Submitted(jobs, reqs)) /\ Told(c)
      BY <1>4, <2>1, <3>1
    <3>. QED BY ONLY <1>1, <3>2, CommandsInv, c \in Clients, CopyPostedIs
  <2>3. cmd[c] \in Cascades /\ CascadeSound(c) /\ cmd[c].op = "cascade"
    BY <1>1, CommandKinds DEF CommandsInv, ShellSound, Running
  <2>4. s \in Left(c) /\ s \in Copied /\ s.id \in Ids
    BY <1>1, CopiedNext DEF Copied
  <2>5. CASE Left(c) = {s}
    <3>1. next = Idle
      BY <2>5
    <3>2. ShellSound(c)'
      BY <2>1, <2>2, <3>1, IdleIs, Quiet
    <3>. QED BY <1>2, <2>1, <2>2, <3>1, <3>2, IdleIs, ShellStep
  <2>6. CASE Left(c) # {s}
    <3>1. next = more /\ Does(c, more)
      BY <2>1, <2>6
    <3>. HIDE DEF s, next
    <3>2. copies \in Renamings /\ DOMAIN copies = DOMAIN cmd[c].copies \cup {s.id}
      <4>1. PICK D \in SUBSET Ids : cmd[c].copies \in [D -> Ids]
        BY <2>3 DEF Cascades, Renamings
      <4>2. copies \in [D \cup {s.id} -> Ids] /\ D \cup {s.id} \in SUBSET Ids
        BY <2>2, <2>4, <4>1 DEF Extended
      <4>. HIDE DEF copies
      <4>. QED BY <4>1, <4>2 DEF Renamings
    <3>3. more = [cmd[c] EXCEPT !.copies = copies]
      OBVIOUS
    <3>. HIDE DEF more, copies
    <3>4. /\ more \in Cascades /\ more.op = "cascade" /\ more.source = cmd[c].source
          /\ more.copies = copies /\ more.list = cmd[c].list
      BY <2>3, <3>2, <3>3 DEF Cascades
    <3>5. more \in Command
      BY <3>4, KindsOfCommand
    <3>6. cmd'[c] = more
      BY <1>1, <3>1 DEF SubmissionTypeOK, Does
    <3>7. /\ \A x, y \in cmd[c].list : x.id = y.id => x = y
          /\ cmd[c].source.id \in DOMAIN cmd[c].copies
      BY <1>1, <2>3 DEF CascadeSound
    <3>8. Left(c)' # {}
      <4>1. PICK t \in Left(c) : t # s
        BY <2>4, <2>6
      <4>2. t \in cmd[c].list /\ t.id \notin DOMAIN cmd[c].copies /\ t.id # s.id
        BY <2>4, <3>7, <4>1 DEF Left
      <4>. QED BY <3>2, <3>4, <3>6, <4>2 DEF Left
    <3>9. CascadeSound(c)'
      BY <3>2, <3>4, <3>6, <3>7, <3>8 DEF CascadeSound
    <3>10. ShellSound(c)'
      BY <2>2, <3>4, <3>6, <3>9 DEF ShellSound, AnswersSound, Running
    <3>. QED BY <1>2, <2>2, <3>1, <3>5, <3>10, ShellStep
  <2>. QED BY <2>5, <2>6
<1>. QED BY <1>3, <1>4

-----------------------------------------------------------------------------
(* The theorems.  *)

LEMMA CommandsInvInit == SubmissionInit => CommandsInv
<1>. SUFFICES ASSUME SubmissionInit
              PROVE  CommandsInv
  OBVIOUS
<1>1. SubmissionTypeOK
  BY SubmissionAssumption DEF SubmissionInit, SubmissionTypeOK, Command
<1>2. QueueLimitKept
  <2>. SUFFICES ASSUME NEW u \in Users
                PROVE  Cardinality(QueuedOf(u)) <= MaxQueued
    BY DEF QueueLimitKept
  <2>1. QueuedOf(u) = {}
    BY DEF SubmissionInit, QueuedOf, Known
  <2>. QED BY <2>1, FS_EmptySet, SubmissionAssumption
<1>3. ASSUME NEW c \in Clients
      PROVE  ShellSound(c)
  <2>1. told[c] = Nobody /\ cmd[c].op = "idle"
    BY DEF SubmissionInit, Idle
  <2>. QED BY <2>1 DEF ShellSound, ToldSound, AnswersSound, CascadeSound, Running
<1>. QED BY <1>1, <1>2, <1>3 DEF CommandsInv

LEMMA CommandsInvStep == CommandsInv /\ [SubmissionNext]_submissionVars => CommandsInv'
<1>. SUFFICES ASSUME CommandsInv, [SubmissionNext]_submissionVars
              PROVE  CommandsInv'
  OBVIOUS
<1>1. CASE UNCHANGED submissionVars
  BY <1>1 DEF submissionVars, CommandsInv, SubmissionTypeOK, QueueLimitKept, QueuedOf,
      Known, ShellSound, ToldSound, AnswersSound, CascadeSound, Running, RefAt, Left
<1>2. CASE \E j \in Known(jobs) :
              \/ StartJob(j) \/ End(j, "Finished") \/ End(j, "Failed")
              \/ Cancel(j) \/ Retry(j) \/ \E d \in Known(jobs) : UpdateJob(j, d)
  BY <1>2, StartKeeps, FinalKeeps, CancelKeeps, RetryKeeps, UpdateKeeps
<1>3. CASE \E c \in Clients :
              \/ GBatch(c) \/ ResolveNext(c) \/ PostBatch(c)
              \/ \E j \in Known(jobs) : Redo(c, j)
              \/ PostRedo(c) \/ ListJobs(c) \/ PostCopy(c) \/ Fails(c)
  BY <1>3, GBatchKeeps, ResolveKeeps, PostBatchKeeps, RedoKeeps, PostRedoKeeps,
     ListKeeps, PostCopyKeeps, FailsKeeps
<1>. QED BY <1>1, <1>2, <1>3 DEF SubmissionNext

(* Commands that run side by side neither overfill a queue nor hang a job on
   another's, whatever the number of shells and users, the limit of the queues, the
   size of the batches and the chains of shorthands.  *)
THEOREM CommandsAreSound == SubmissionSpec => []CommandsSound
<1>1. CommandsInv => CommandsSound
  <2>. SUFFICES ASSUME CommandsInv, NEW c \in Clients, Running(c, "batch"),
                       NEW i \in DOMAIN cmd[c].answers
                PROVE  LET a == cmd[c].answers[i]
                           n == cmd[c].refs[1 + ((i - 1) % Len(cmd[c].refs))]
                       IN  jobs[a].user = LoginOf[c] /\ (n = 1 => a >= told[c])
    BY DEF CommandsSound, AtIsOwnAndCurrent, CommandsInv
  <2>. QED BY DEF CommandsInv, ShellSound, AnswersSound, RefAt
<1>. QED BY CommandsInvInit, CommandsInvStep, <1>1, PTL DEF SubmissionSpec

(* Only the submission of a copy tells a cascade of a job.  *)
LEMMA ToldByCopy ==
    ASSUME CommandsInv, SubmissionNext, NEW c \in Clients, CopyPosted(c)
    PROVE  PostCopy(c) /\ Accepts(<<CopyOf(c, BeingCopied(c), cmd[c].copies)>>)
<1>1. /\ Running(c, "cascade") /\ told'[c] # told[c]
      /\ told \in [Clients -> Ids \cup {Nobody}]
  BY DEF CopyPosted, CommandsInv, SubmissionTypeOK
<1>2. \A e \in Clients : Told(e) => e = c
  BY <1>1 DEF Told
<1>3. told' # told
  BY <1>1
<1>4. PICK e \in Clients : PostBatch(e) \/ PostRedo(e) \/ PostCopy(e)
  BY <1>3 DEF SubmissionNext, StartJob, End, Cancel, Retry, UpdateJob, GBatch, Begins,
              ResolveNext, Redo, ListJobs, Fails
<1>5. Told(e)
  BY <1>3, <1>4 DEF PostBatch, PostRedo, PostCopy
<1>6. e = c
  BY <1>2, <1>5
<1>7. PostCopy(c)
  BY <1>1, <1>4, <1>6 DEF PostBatch, PostRedo, Running
<1>. QED BY <1>3, <1>7 DEF PostCopy

LEMMA CopiesFollowStep ==
    ASSUME CommandsInv, SubmissionNext, NEW c \in Clients, CopyPosted(c),
           NEW d \in RedoneDeps(c), d < BeingCopied(c).id
    PROVE  FollowsCopies(c, d)
<1>. DEFINE s == BeingCopied(c)
            r == CopyOf(c, s, cmd[c].copies)
<1>1. PostCopy(c) /\ Accepts(<<r>>) /\ Running(c, "cascade")
  BY ToldByCopy DEF CopyPosted
<1>2. jobs' \in Settlements(Submitted(jobs, <<r>>)) /\ Told(c)
  BY <1>1 DEF PostCopy
<1>3. told'[c] = Newest /\ jobs'[Newest].ids = r.ids
  <2>1. PICK req, reqs : req = r /\ reqs = <<req>>
    OBVIOUS
  <2>2. /\ req = CopyOf(c, BeingCopied(c), cmd[c].copies)
        /\ reqs = <<req>> /\ Accepts(reqs)
        /\ jobs' \in Settlements(Submitted(jobs, reqs)) /\ Told(c)
    BY <1>1, <1>2, <2>1
  <2>3. told'[c] = Newest /\ jobs'[Newest].ids = req.ids
    BY ONLY <1>1, <2>2, CommandsInv, c \in Clients, CopyPostedIs
  <2>. QED BY <2>1, <2>3
<1>4. d \in s.ids /\ d \in Redone(c)
  BY DEF RedoneDeps
<1>5. d \in DOMAIN cmd[c].copies
  <2>1. CASE d = cmd[c].source.id
    BY <1>1, <2>1 DEF CommandsInv, ShellSound, CascadeSound
  <2>2. ASSUME NEW t \in cmd[c].list, d = t.id, d \notin DOMAIN cmd[c].copies
        PROVE  FALSE
    <3>1. t \in Left(c)
      BY <2>2 DEF Left
    <3>2. s.id <= d
      BY <1>1, <2>2, <3>1, CopiedNext
    <3>3. s \in Copied /\ t \in Copied
      BY <1>1, CopiedNext, CommandKinds DEF Cascades, CommandsInv
    <3>4. s.id \in Nat /\ d \in Nat
      BY <2>2, <3>3, SubmissionAssumption DEF Copied, Ids
    <3>. QED BY <3>2, <3>4
  <2>. QED BY <1>4, <2>1, <2>2 DEF Redone
<1>6. cmd[c].copies[d] \in r.ids
  BY <1>4, <1>5 DEF CopyOf
<1>. QED BY <1>3, <1>5, <1>6 DEF FollowsCopies, DepsOf

(* The copies a cascade makes depend on each other as the originals did, whatever
   is retried, edited, ended and submitted by others between the requests.  *)
THEOREM CopiesDoFollowCopies == SubmissionSpec => CopiesFollowCopies
<1>1. ASSUME CommandsInv, [SubmissionNext]_submissionVars
      PROVE  [\A c \in Clients : CopyPosted(c) =>
                 \A d \in RedoneDeps(c) :
                     d < BeingCopied(c).id => FollowsCopies(c, d)]_submissionVars
  BY <1>1, CopiesFollowStep
<1>. QED BY CommandsInvInit, CommandsInvStep, <1>1, PTL
         DEF SubmissionSpec, CopiesFollowCopies
=============================================================================
