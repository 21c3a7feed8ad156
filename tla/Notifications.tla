---------------------------- MODULE Notifications ---------------------------
(***************************************************************************)
(* What the rest of the world hears of a job: the broadcast channel of the *)
(* event bus, the webhook and the e-mail notifier that turn its events     *)
(* into deliveries, and grun, which follows one job over /events and by    *)
(* polling.                                                                *)
(*                                                                         *)
(* The channel is the sequence of all events; a subscriber that is more    *)
(* than Capacity behind has lost the oldest.  How jobs are scheduled, what *)
(* runners are and what retries do is in the modules Allocation, Daemon    *)
(* and JobDeps: here jobs only change state as their handlers allow.       *)
(***************************************************************************)
EXTENDS Naturals, Sequences, SequencesExt, FiniteSets

CONSTANTS
    Jobs, Owner,       \* jobs, and who submitted them
    Dependent,         \* jobs that are cancelled with another one: job -> set of jobs
    Mails,             \* per-job addresses and events: job -> [to, events]
    Webhooks, Emails,  \* the targets of the configuration, in order
    MaxDeliveries,     \* max_concurrent_deliveries
    Capacity,          \* of the broadcast channel
    Codes,             \* how payloads may end
    GpuEvents,         \* what becomes of the GPU
    Followed,          \* the job grun submits, or NoJob
    NoJob, NoUser,
    Modes,             \* what goes on: "notify", "follow" or "both"
    MaxEvents,         \* bound on the events that are published for no other event
    MaxRequests, MaxOutages

ASSUME NotificationsAssumption ==
    /\ IsFiniteSet(Jobs) /\ NoJob \notin Jobs
    /\ Followed \in Jobs \cup {NoJob}
    /\ Dependent \in [Jobs -> SUBSET Jobs]
    /\ Codes \subseteq {"0", "3", "signal", "gone"}
    /\ GpuEvents \subseteq {"available", "taken"}
    /\ Modes \subseteq {"notify", "follow", "both"}
    /\ {DOMAIN Webhooks, DOMAIN Emails} \subseteq SUBSET Nat
    /\ MaxDeliveries \in Nat \ {0} /\ Capacity \in Nat \ {0}
    /\ {MaxEvents, MaxRequests, MaxOutages} \subseteq Nat

VARIABLES
    mode,        \* what goes on in a behaviour
    job,         \* the state of each job
    payload,     \* how its process ended
    overdue,     \* jobs beyond their time limit
    log,         \* all events published (the channel)
    at,          \* how many of them each subscriber is past
    outbox,      \* events of handlers that have released the lock
    todo,        \* deliveries a notifier has yet to start, for the event it is at
    inflight,    \* deliveries under way
    permits,     \* of the semaphore the notifiers share
    fol,         \* grun
    received, givenUp, missed,  \* what endpoints got, and what not (history)
    refused,     \* verdicts on jobs that had no such transition (history)
    quiet,       \* jobs that ended without an event (history)
    requests, outages

jobVars == <<job, payload, overdue>>
busVars == <<log, at, outbox>>
sendVars == <<todo, inflight, permits>>
sentVars == <<received, givenUp, missed>>
pastVars == <<refused, quiet>>
boundVars == <<mode, requests, outages>>
vars == <<jobVars, busVars, sendVars, fol, sentVars, pastVars, boundVars>>

Notifiers == {"webhook", "email"}
Subscribers == Notifiers \cup {"results", "timeouts", "follower"}
Final == {"finished", "failed", "cancelled", "timeout"}
Targets(n) == IF n = "webhook" THEN Webhooks ELSE Emails

(* The notifiers run if the configuration enables notifications and has targets.  *)
Notifies(n) == mode # "follow" /\ Targets(n) # <<>>

CanTransitionTo == [none |-> {}, queued |-> {"running", "hold", "cancelled"},
                    hold |-> {"queued", "cancelled"}, running |-> Final,
                    finished |-> {}, failed |-> {}, cancelled |-> {}, timeout |-> {}]

Event(type, j, info) == [type |-> type, job |-> j, info |-> info]

-----------------------------------------------------------------------------
(* What is sent for an event, and to whom.  *)

(* build_payloads: the name of the notification, "" for none.  *)
StateChangeName(old, new) ==
    CASE new = "running" -> "job_started" [] new = "hold" -> "job_held"
      [] old = "hold" /\ new = "queued" -> "job_released" [] OTHER -> ""

CompletedName == [finished |-> "job_completed", failed |-> "job_failed",
                  cancelled |-> "job_cancelled", timeout |-> "job_timeout"]

Name(e) ==
    CASE e.type = "submitted" -> "job_submitted"
      [] e.type = "updated" -> "job_updated"
      [] e.type = "state_changed" -> StateChangeName(e.info[1], e.info[2])
      [] e.type = "completed" -> CompletedName[e.info]
      [] e.type = "timed_out" -> "job_timeout"
      [] e.type = "gpu" -> IF e.info = "available" THEN "gpu_available" ELSE ""
      [] e.type = "started" -> "scheduler_online"
      [] OTHER -> ""

UserOf(e) == IF e.job = NoJob THEN NoUser ELSE Owner[e.job]

Terminal == {"job_completed", "job_failed", "job_timeout", "job_cancelled"}

(* EventMatcher.  No events in the configuration are all; no events of a job are
   the terminal ones.  *)
Matches(events, name) == events = {} \/ "*" \in events \/ name \in events
MatchesJob(events, name) == IF events = {} THEN name \in Terminal
                                           ELSE "*" \in events \/ name \in events

(* A filter without users is none; an event without a user passes no filter.  *)
UserAllowed(t, user) == t.users = {} \/ user \in t.users

WantsWebhook(t, e) == Matches(t.events, Name(e)) /\ UserAllowed(t, UserOf(e))

Recipients(t, e) ==
    IF ~UserAllowed(t, UserOf(e)) THEN {}
    ELSE (IF Matches(t.events, Name(e)) THEN t.to ELSE {})
         \cup (IF e.job # NoJob /\ Mails[e.job].to # {}
                  /\ MatchesJob(Mails[e.job].events, Name(e))
               THEN Mails[e.job].to ELSE {})

Wants(n, i, e) ==
    /\ Name(e) # ""
    /\ IF n = "webhook" THEN WantsWebhook(Webhooks[i], e)
                        ELSE Recipients(Emails[i], e) # {}

-----------------------------------------------------------------------------
Deliveries == [by : Notifiers, target : Nat, event : Nat,
               attempt : Nat \ {0}, phase : {"sending", "backoff"}]

TypeOK ==
    /\ mode \in Modes
    /\ job \in [Jobs -> DOMAIN CanTransitionTo]
    /\ payload \in [Jobs -> Codes \cup {"none"}]
    /\ overdue \subseteq Jobs
    /\ \A i \in DOMAIN log : log[i].job \in Jobs \cup {NoJob}
    /\ at \in [Subscribers -> 0 .. Len(log)]
    /\ \A e \in outbox : e.req \in 0 .. MaxRequests + 1
    /\ todo \in [Notifiers -> SUBSET Nat]
    /\ \A n \in Notifiers : todo[n] \subseteq DOMAIN Targets(n)
    /\ permits \in 0 .. MaxDeliveries
    /\ inflight \subseteq Deliveries
    /\ fol.at \in {"idle", "submitted", "waiting", "done"}
    /\ {<<d.by, d.target, d.event>> : d \in inflight} \cap givenUp = {}
    /\ quiet \subseteq Jobs /\ requests \in 0 .. MaxRequests /\ outages \in 0 .. MaxOutages

(* Where the notifiers are on, the first event is that the daemon is online.  *)
Init ==
    /\ mode \in Modes
    /\ job = [j \in Jobs |-> "none"] /\ payload = [j \in Jobs |-> "none"]
    /\ overdue = {}
    /\ log = IF \E n \in Notifiers : Notifies(n) THEN <<Event("started", NoJob, "")>>
             ELSE <<>>
    /\ at = [s \in Subscribers |-> 0] /\ outbox = {}
    /\ todo = [n \in Notifiers |-> {}] /\ inflight = {} /\ permits = MaxDeliveries
    /\ fol = [at |-> "idle", stream |-> FALSE, code |-> "none", exit |-> "none",
              why |-> "none"]
    /\ received = {} /\ givenUp = {} /\ missed = [s \in Subscribers |-> {}]
    /\ refused = {} /\ quiet = {} /\ requests = 0 /\ outages = 0

Publish(e) == log' = Append(log, e)
Room == Len(log) + Cardinality(outbox) < MaxEvents

JobsOnly == UNCHANGED <<sendVars, fol, sentVars, boundVars>>

-----------------------------------------------------------------------------
(* Jobs.  *)

Submit(j) ==
    /\ Room /\ job[j] = "none" /\ (j = Followed => mode = "notify")
    /\ job' = [job EXCEPT ![j] = "queued"]
    /\ Publish(Event("submitted", j, ""))
    /\ JobsOnly
    /\ UNCHANGED <<payload, overdue, at, outbox, pastVars>>

(* hold_job publishes nothing, release_job what a submission does.  *)
Hold(j) ==
    /\ job[j] = "queued"
    /\ job' = [job EXCEPT ![j] = "hold"]
    /\ JobsOnly
    /\ UNCHANGED <<payload, overdue, busVars, pastVars>>

Release(j) ==
    /\ Room /\ job[j] = "hold"
    /\ job' = [job EXCEPT ![j] = "queued"]
    /\ Publish(Event("submitted", j, ""))
    /\ JobsOnly
    /\ UNCHANGED <<payload, overdue, at, outbox, pastVars>>

Update(j) ==
    /\ Room /\ job[j] \in {"queued", "hold"}
    /\ Publish(Event("updated", j, ""))
    /\ JobsOnly
    /\ UNCHANGED <<jobVars, at, outbox, pastVars>>

GpuChanges(info) ==
    /\ Room
    /\ Publish(Event("gpu", NoJob, info))
    /\ JobsOnly
    /\ UNCHANGED <<jobVars, at, outbox, pastVars>>

Start(j) ==
    /\ job[j] = "queued"
    /\ job' = [job EXCEPT ![j] = "running"]
    /\ JobsOnly
    /\ UNCHANGED <<payload, overdue, busVars, pastVars>>

(* A failed launch fails the job, and only tells of a retry.  *)
LaunchFails(j) ==
    /\ job[j] = "running" /\ payload[j] = "none"
    /\ job' = [job EXCEPT ![j] = "failed"]
    /\ quiet' = quiet \cup {j}
    /\ JobsOnly
    /\ UNCHANGED <<payload, overdue, busVars, refused>>

PayloadEnds(j, code) ==
    /\ job[j] = "running" /\ payload[j] = "none"
    /\ payload' = [payload EXCEPT ![j] = code]
    /\ JobsOnly
    /\ UNCHANGED <<job, overdue, busVars, pastVars>>

BecomesOverdue(j) ==
    /\ job[j] = "running" /\ j \notin overdue
    /\ overdue' = overdue \cup {j}
    /\ JobsOnly
    /\ UNCHANGED <<job, payload, busVars, pastVars>>

(* What an end does to other jobs: those that depend on it are cancelled with it
   unless it finished.  *)
Cascade(j, s) == IF s = "finished" THEN {}
                 ELSE {k \in Dependent[j] : job[k] \in {"queued", "hold"}}

(* The transition of a handler, and what it will publish once it has released the
   lock.  A transition that is not allowed leaves the job alone and yet counts as
   done, except for fail_job and timeout_job, which look before.  *)
Ends(j, s, req) ==
    /\ outbox' = outbox \cup {[type |-> "completed", job |-> j, info |-> s, req |-> req]}
    /\ IF s \in CanTransitionTo[job[j]]
       THEN /\ job' = [k \in Jobs |-> IF k = j THEN s
                                      ELSE IF k \in Cascade(j, s) THEN "cancelled"
                                      ELSE job[k]]
            /\ quiet' = quiet \cup Cascade(j, s)
            /\ UNCHANGED refused
       ELSE refused' = refused \cup {<<j, s>>} /\ UNCHANGED <<job, quiet>>

(* The requests finish, fail and cancel.  *)
Request(j, s) ==
    /\ Room /\ requests < MaxRequests
    /\ requests' = requests + 1
    /\ job[j] # "none"
    /\ Ends(j, s, requests + 1)
    /\ UNCHANGED <<payload, overdue, log, at, sendVars, fol, sentVars, mode, outages>>

PublishPending(e) ==
    /\ e \in outbox
    /\ outbox' = outbox \ {e}
    /\ Publish([type |-> e.type, job |-> e.job, info |-> e.info])
    /\ JobsOnly
    /\ UNCHANGED <<jobVars, at, pastVars>>

(* Every 10 s: results and vanished runners of running jobs, again until they are
   handled.  *)
PollResults(j) ==
    /\ Room
    /\ job[j] = "running" /\ payload[j] # "none"
    /\ Publish(IF payload[j] = "gone" THEN Event("zombie", j, "signal")
                                      ELSE Event("exec", j, payload[j]))
    /\ JobsOnly
    /\ UNCHANGED <<jobVars, at, outbox, pastVars>>

PollTimeouts(j) ==
    /\ Room
    /\ job[j] = "running" /\ j \in overdue
    /\ Publish(Event("timed_out", j, ""))
    /\ JobsOnly
    /\ UNCHANGED <<jobVars, at, outbox, pastVars>>

-----------------------------------------------------------------------------
(* Subscribers.  One that lags loses the events the channel no longer holds.  *)

Behind(s) == Len(log) - at[s]
HasNext(s) == Behind(s) \in 1 .. Capacity
NextOf(s) == log[at[s] + 1]
Advance(s) == at' = [at EXCEPT ![s] = @ + 1]

Listening(s) == CASE s = "follower" -> fol.at = "waiting" /\ fol.stream
                  [] s \in Notifiers -> Notifies(s)
                  [] OTHER -> FALSE

Lag(s) ==
    /\ Listening(s) /\ Behind(s) > Capacity
    /\ s \in Notifiers => todo[s] = {}
    /\ at' = [at EXCEPT ![s] = Len(log) - Capacity]
    /\ missed' = [missed EXCEPT ![s] = @ \cup (at[s] + 1 .. Len(log) - Capacity)]
    /\ UNCHANGED <<jobVars, log, outbox, sendVars, fol, received, givenUp, pastVars,
                   boundVars>>

(* The daemon's own handlers pass over the events of others; that they lag, too, is
   in module Daemon.  *)
NextFor(s, types) == SelectInSubSeq(log, at[s] + 1, Len(log), LAMBDA e : e.type \in types)
Handles(s, types) == /\ NextFor(s, types) # 0
                     /\ at' = [at EXCEPT ![s] = NextFor(s, types)]

(* zombie_handler_task: one result at a time, each published before the next.  *)
HandleResult ==
    /\ \A e \in outbox : e.req # 0
    /\ Handles("results", {"exec", "zombie"})
    /\ LET e == log[NextFor("results", {"exec", "zombie"})] IN
       IF e.type = "exec" /\ e.info = "0" THEN Ends(e.job, "finished", 0)
       ELSE IF job[e.job] = "running" THEN Ends(e.job, "failed", 0)
       ELSE UNCHANGED <<job, outbox, pastVars>>
    /\ UNCHANGED <<payload, overdue, log, sendVars, fol, sentVars, boundVars>>

(* timeout_handler_task: the event that asked for the end is the notification.  *)
HandleTimeout ==
    /\ Handles("timeouts", {"timed_out"})
    /\ LET e == log[NextFor("timeouts", {"timed_out"})] IN
       IF job[e.job] = "running"
       THEN /\ job' = [k \in Jobs |-> IF k = e.job THEN "timeout"
                                      ELSE IF k \in Cascade(e.job, "timeout")
                                      THEN "cancelled" ELSE job[k]]
            /\ quiet' = quiet \cup Cascade(e.job, "timeout")
       ELSE UNCHANGED <<job, quiet>>
    /\ UNCHANGED <<payload, overdue, log, outbox, sendVars, fol, sentVars, refused,
                   boundVars>>

-----------------------------------------------------------------------------
(* Notifiers.  The loop of one waits for a permit of the semaphore both share, and
   receives nothing meanwhile.  *)

Receive(n) ==
    /\ Listening(n) /\ todo[n] = {} /\ HasNext(n)
    /\ todo' = [todo EXCEPT ![n] = {i \in DOMAIN Targets(n) : Wants(n, i, NextOf(n))}]
    /\ Advance(n)
    /\ UNCHANGED <<jobVars, log, outbox, inflight, permits, fol, sentVars, pastVars,
                   boundVars>>

Delivery(n) == [by |-> n, target |-> Min(todo[n]), event |-> at[n],
                attempt |-> 1, phase |-> "sending"]

Dispatch(n) ==
    /\ todo[n] # {} /\ permits > 0
    /\ permits' = permits - 1
    /\ inflight' = inflight \cup {Delivery(n)}
    /\ todo' = [todo EXCEPT ![n] = @ \ {Min(@)}]
    /\ UNCHANGED <<jobVars, busVars, fol, sentVars, pastVars, boundVars>>

MaxAttempts(d) == 1 + Targets(d.by)[d.target].retries
Key(d) == <<d.by, d.target, d.event>>

Permit_kept(ok) == IF ok THEN permits + 1 ELSE permits    \* mutant: lost with an error
Permit(ok) == permits + 1

(* deliver_once accepted, or deliver_with_retries out of attempts: the task ends,
   and the permit goes with it.  *)
Accepted(d) ==
    /\ d \in inflight /\ d.phase = "sending"
    /\ received' = received \cup {Key(d)}
    /\ inflight' = inflight \ {d}
    /\ permits' = Permit(TRUE)
    /\ UNCHANGED <<jobVars, busVars, todo, fol, givenUp, missed, pastVars, boundVars>>

(* Refused, unreachable or timed out, when it may have arrived all the same.  Every
   error is tried again, after a delay.  *)
Failed(d) ==
    /\ d \in inflight /\ d.phase = "sending"
    /\ IF d.attempt < MaxAttempts(d)
       THEN /\ inflight' = (inflight \ {d}) \cup {[d EXCEPT !.phase = "backoff"]}
            /\ UNCHANGED <<permits, givenUp>>
       ELSE /\ inflight' = inflight \ {d}
            /\ permits' = Permit(FALSE)
            /\ givenUp' = givenUp \cup {Key(d)}
    /\ UNCHANGED <<jobVars, busVars, todo, fol, received, missed, pastVars, boundVars>>

Resend(d) ==
    /\ d \in inflight /\ d.phase = "backoff"
    /\ inflight' = (inflight \ {d})
                   \cup {[d EXCEPT !.phase = "sending", !.attempt = @ + 1]}
    /\ UNCHANGED <<jobVars, busVars, todo, permits, fol, sentVars, pastVars, boundVars>>

-----------------------------------------------------------------------------
(* grun.  *)

FollowerOnly == UNCHANGED <<payload, overdue, outbox, sendVars, sentVars, pastVars,
                            mode, requests>>

GrunSubmits ==
    /\ fol.at = "idle" /\ Followed # NoJob /\ mode # "notify"
    /\ job' = [job EXCEPT ![Followed] = "queued"]
    /\ Publish(Event("submitted", Followed, ""))
    /\ fol' = [fol EXCEPT !.at = "submitted"]
    /\ FollowerOnly /\ UNCHANGED <<at, outages>>

(* Events from before the subscription are not seen; without one, polls are all
   there is.  *)
GrunSubscribes(ok) ==
    /\ fol.at = "submitted"
    /\ ok \/ outages < MaxOutages
    /\ outages' = IF ok THEN outages ELSE outages + 1
    /\ fol' = [fol EXCEPT !.at = "waiting", !.stream = ok]
    /\ at' = [at EXCEPT !["follower"] = Len(log)]
    /\ FollowerOnly /\ UNCHANGED <<job, log>>

ExitCodeFor_ended(s, code) ==                 \* mutant: a timeout is a failure
    CASE s = "finished" -> "0" [] s = "cancelled" -> "130"
      [] OTHER -> IF code \notin {"0", "none"} THEN code ELSE "1"
ExitCodeFor(s, code) ==
    CASE s = "finished" -> "0" [] s = "timeout" -> "124" [] s = "cancelled" -> "130"
      [] OTHER -> IF code \notin {"0", "none"} THEN code ELSE "1"

Leaves(f, s, why) == [f EXCEPT !.at = "done", !.exit = ExitCodeFor(s, f.code), !.why = why]

(* What grun does when it has asked for the job; an error ends it.  *)
Looked(f, asks) ==
    \/ /\ fol' = IF asks /\ job[Followed] \in Final
                 THEN Leaves(f, job[Followed], "outcome") ELSE f
       /\ UNCHANGED outages
    \/ /\ asks /\ outages < MaxOutages
       /\ outages' = outages + 1
       /\ fol' = [f EXCEPT !.at = "done", !.exit = "1", !.why = "error"]

(* subscribe: of the events in one chunk of the response, only the last about the
   job counts.  *)
Relevant(e) == e.job = Followed /\ e.type \in {"state_changed", "completed", "timed_out",
                                               "exec"}

GrunReads(k) ==
    /\ fol.at = "waiting" /\ fol.stream
    /\ k \in 1 .. Behind("follower") /\ Behind("follower") <= Capacity
    /\ at' = [at EXCEPT !["follower"] = @ + k]
    /\ LET last == SelectLastInSubSeq(log, at["follower"] + 1, at["follower"] + k, Relevant)
       IN  IF last = 0 THEN UNCHANGED <<fol, outages>>
           ELSE IF log[last].type = "exec"
           THEN Looked([fol EXCEPT !.code = IF log[last].info = "signal" THEN "none"
                                            ELSE log[last].info], FALSE)
           ELSE Looked(fol, TRUE)
    /\ FollowerOnly /\ UNCHANGED <<job, log>>

StreamCloses ==
    /\ fol.at = "waiting" /\ fol.stream /\ outages < MaxOutages
    /\ outages' = outages + 1
    /\ fol' = [fol EXCEPT !.stream = FALSE]
    /\ FollowerOnly /\ UNCHANGED <<job, log, at>>

Polls_fallback == ~fol.stream                 \* mutant: only without a stream
Polls == TRUE

GrunPolls ==
    /\ fol.at = "waiting" /\ Polls
    /\ job[Followed] \in Final \/ outages < MaxOutages
    /\ Looked(fol, TRUE)
    /\ FollowerOnly /\ UNCHANGED <<job, log, at>>

(* SIGINT and SIGTERM cancel the job, whose request may fail, and exit.  *)
Interrupt(ok) ==
    /\ fol.at = "waiting"
    /\ \/ /\ ok /\ Room
          /\ Ends(Followed, "cancelled", MaxRequests + 1)
          /\ UNCHANGED outages
       \/ /\ ~ok /\ outages < MaxOutages
          /\ outages' = outages + 1
          /\ UNCHANGED <<job, outbox, pastVars>>
    /\ fol' = Leaves(fol, "cancelled", IF ok THEN "interrupt" ELSE "error")
    /\ UNCHANGED <<payload, overdue, log, at, sendVars, sentVars, mode, requests>>

-----------------------------------------------------------------------------
JobStep ==
    \/ \E j \in Jobs :
          \/ Submit(j) \/ Hold(j) \/ Release(j) \/ Update(j) \/ Start(j) \/ LaunchFails(j)
          \/ \E code \in Codes : PayloadEnds(j, code)
          \/ BecomesOverdue(j)
          \/ \E s \in {"finished", "failed", "cancelled"} : Request(j, s)
          \/ PollResults(j) \/ PollTimeouts(j)
    \/ \E info \in GpuEvents : GpuChanges(info)
    \/ \E e \in outbox : PublishPending(e)

Grun == \/ GrunSubmits \/ (\E ok \in BOOLEAN : GrunSubscribes(ok) \/ Interrupt(ok))
        \/ (\E k \in 1 .. Capacity : GrunReads(k))
        \/ StreamCloses \/ GrunPolls

Next ==
    \/ JobStep \/ HandleResult \/ HandleTimeout \/ Grun
    \/ \E s \in Subscribers : Lag(s)
    \/ \E n \in Notifiers : Receive(n) \/ Dispatch(n)
    \/ \E d \in inflight : Accepted(d) \/ Resend(d) \/ Failed(d)

Spec == Init /\ [][Next]_vars

(* Handlers publish what they have to, tasks are scheduled, every request of a
   delivery is answered or times out, and grun polls.  *)
Fairness ==
    /\ WF_vars(\E e \in outbox : PublishPending(e))
    /\ WF_vars(\E s \in Subscribers : Lag(s))
    /\ \A n \in Notifiers : WF_vars(Receive(n)) /\ SF_vars(Dispatch(n))
    /\ WF_vars(\E d \in inflight : Accepted(d) \/ Resend(d)
                                   \/ Failed(d))
    /\ WF_vars(GrunPolls)

FairSpec == Spec /\ Fairness

-----------------------------------------------------------------------------
Events == {log[i] : i \in DOMAIN log} \cup {[type |-> e.type, job |-> e.job,
                                             info |-> e.info] : e \in outbox}

(* A verdict that is published, or about to be, is the state the job is in and stays
   in, however the handlers, the results and grun's Ctrl-C race; another verdict is
   only heard of a job that could not have the transition asked for.  *)
VerdictsAreTrue ==
    \A e \in Events : e.type = "completed" =>
        job[e.job] = e.info \/ <<e.job, e.info>> \in refused

(* The notifications of an event that reached a target, or were tried as often as its
   configuration says, or were lost to a notifier that lagged: in the end, all that
   are wanted.  One endpoint that refuses everything does not take the deliveries of
   the others with it, although they share the permits.  *)
Settled(n, i, m) == m \in missed[n] \/ <<n, i, m>> \in givenUp \cup received

WantsEvent(n, i, m) == m \in DOMAIN log /\ Wants(n, i, log[m])

EveryoneIsTold ==
    \A m \in 1 .. MaxEvents + 1 :
        m \in DOMAIN log ~> \A n \in Notifiers : \A i \in DOMAIN Targets(n) :
                                Notifies(n) /\ WantsEvent(n, i, m) => Settled(n, i, m)

(* grun returns when its job is over: also when the events that say so came before
   it subscribed, were in a chunk with others, or were lost with the stream.  *)
WaiterReturns ==
    (fol.at = "waiting" /\ job[Followed] \in Final) ~> fol.at = "done"

(* What grun exits with is what became of the job.  *)
ExitTellsOutcome ==
    fol.at = "done" /\ fol.why # "error" =>
        /\ job[Followed] \in Final
        /\ fol.exit = "0" => job[Followed] = "finished"
        /\ fol.exit = "124" => job[Followed] = "timeout"
        /\ fol.exit \in {"1", "3"} => job[Followed] = "failed"
        /\ fol.exit = "130" => job[Followed] = "cancelled" \/ fol.why = "interrupt"

(* What is said of a job is what became of it: to the targets by events, and by grun
   with its exit status.  *)
OutcomesAreTrue == TypeOK /\ VerdictsAreTrue /\ ExitTellsOutcome

(* Refuted.  "`job_cancelled`: Job was cancelled", "`job_completed`: Job finished
   successfully" (docs user-guide/notifications.md): a request for a job that has
   ended, or has not started, is refused by the state machine and announced all the
   same, and so is a result that comes after a cancellation.  *)
OnlyEndsAreReported ==
    \A e \in Events : e.type = "completed" => job[e.job] = e.info

(* Refuted.  "`job_timeout`: Job hit its time limit": the event is published when the
   monitor looks, and the job may finish before the handler ends it.  *)
TimeoutIsTheEnd ==
    \A e \in Events : e.type = "timed_out" /\ job[e.job] \in Final
                          => job[e.job] = "timeout"

(* Refuted.  "`job_failed`: Job finished with failure" (same table): nothing is
   published when a launch fails, or when a job is cancelled with another.  *)
EveryEndIsReported ==
    \A j \in Jobs : job[j] \in Final ~> \E e \in Events :
        e.job = j /\ (e.type = "completed" \/ e.type = "timed_out")

(* Refuted.  A failed job's exit status is "the job process's exit code when the
   daemon reported it" (docs reference/grun-reference.md): a chunk that also holds
   the event that follows hides the one with the code, and a poll may come first.  *)
ExitIsPayloads ==
    (/\ fol.at = "done" /\ fol.why = "outcome" /\ job[Followed] = "failed"
     /\ Event("exec", Followed, "3") \in Events) => fol.exit = "3"
=============================================================================
