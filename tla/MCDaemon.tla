------------------------------ MODULE MCDaemon ------------------------------
(* Instances of Daemon: two jobs, one place unless a setup says otherwise.  *)
EXTENDS Daemon
CONSTANTS a, b
AllJobs == {a, b}
Plain == [jobs |-> AllJobs, cancelled |-> AllJobs, deferred |-> {}, timed |-> {},
          gpu |-> FALSE, capacities |-> {1}, launchesFail |-> FALSE, savesFail |-> FALSE,
          lags |-> 0, crashes |-> 0]

(* Cancellations at any moment and a crash, with two jobs; a job with a begin time
   next to another, and alone with all of that.  *)
OneJob == [Plain EXCEPT !.jobs = {a}]
CrashSetups ==
    [crash |-> [Plain EXCEPT !.crashes = 1],
     due   |-> [Plain EXCEPT !.deferred = {b}, !.cancelled = {b}],
     alone |-> [OneJob EXCEPT !.deferred = {a}, !.crashes = 1]]

(* Two jobs for one place; a crash; a time limit on a machine with a GPU, launches that
   fail and a lagging handler; limits that are raised.  *)
LiveSetups ==
    [starts |-> [Plain EXCEPT !.cancelled = {a}],
     crash  |-> [OneJob EXCEPT !.crashes = 1],
     times  |-> [OneJob EXCEPT !.timed = {a}, !.gpu = TRUE, !.launchesFail = TRUE,
                               !.lags = 1],
     limits |-> [OneJob EXCEPT !.capacities = {1, 2}]]

(* Room that nobody is told of: a slot that was busy between two polls, a launch
   that failed, a timeout, a limit that was raised.  *)
IdleSetups == [gpu |-> [Plain EXCEPT !.gpu = TRUE],
               fails |-> [Plain EXCEPT !.launchesFail = TRUE],
               timeout |-> [Plain EXCEPT !.timed = {a}],
               limits |-> [Plain EXCEPT !.capacities = {1, 2}]]
(* One thing at a time: nothing but cancellations, a time limit, saves that fail, a
   crash.  *)
RefutedSetups == [plain |-> OneJob, timed |-> [OneJob EXCEPT !.timed = {a}],
                  saves |-> [OneJob EXCEPT !.savesFail = TRUE],
                  restart |-> [Plain EXCEPT !.crashes = 1]]
=============================================================================
