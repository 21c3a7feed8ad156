----------------------------- MODULE MCJobDeps -----------------------------
(* Instances of JobDeps for TLC.  *)
EXTENDS JobDeps

P(D, mode) == [ids |-> D, again |-> {},
               legacy |-> IF Cardinality(D) = 1 THEN CHOOSE d \in D : TRUE ELSE NoJob,
               mode |-> mode, auto |-> TRUE, key |-> 1, begin |-> "none",
               retries |-> 0]

FourJobs == 1 .. 4
Plain == [last |-> 4, plans |-> [j \in FourJobs |-> {}], ids |-> {}, modes |-> {},
          autos |-> {}, keys |-> {}, delayed |-> {}, edits |-> 0]

(* Any dependencies on earlier jobs, edited and retried: job 1 may be retried as
   the last job.  *)
Graph ==
    [Plain EXCEPT
        !.plans = [j \in FourJobs |->
            CASE j = 1 -> {[P({}, "All") EXCEPT !.retries = 1]}
              [] j = 2 -> {P({1}, "All"), [P({1}, "All") EXCEPT !.auto = FALSE]}
              [] j = 3 -> {P({1, 2}, "All"), P({1, 2}, "Any")}
              [] j = 4 -> {}],
        !.ids = {{}, {3}, {1, 2}},
        !.autos = {TRUE},
        !.edits = 2]

(* A job with a begin time, one that depends on it, and retries.  *)
Time ==
    [Plain EXCEPT
        !.last = 3,
        !.plans = [j \in FourJobs |->
            CASE j = 1 -> {[P({}, "All") EXCEPT !.begin = "future"],
                           [P({}, "All") EXCEPT !.retries = 1]}
              [] j = 2 -> {[P({1}, "All") EXCEPT !.begin = b] : b \in {"none", "future"}}
              [] j = 3 -> {[P({2}, "All") EXCEPT !.begin = "future", !.key = 2]}
              [] j = 4 -> {}],
        !.delayed = {"Hold"},
        !.edits = 3]

GraphAndTime == [graph |-> Graph, time |-> Time]

(* A job whose priority or time limit is edited; a job that needs any of two
   others, of which one depends on a third; a job whose dependency is taken away,
   or listed twice; a begin time with any of two jobs; gjob release --at of a job that
   another has released already.  *)
Keys == [Plain EXCEPT !.last = 1, !.keys = {0, 1}, !.edits = 1,
                      !.plans[1] = {P({}, "All")}]
Any == [Plain EXCEPT !.plans = [j \in FourJobs |->
            CASE j \in {1, 3} -> {P({}, "All")}
              [] j = 2 -> {P({1}, "All")}
              [] j = 4 -> {P({2, 3}, "Any")}]]
Replace == [Plain EXCEPT !.last = 2, !.ids = {{}}, !.edits = 1,
                         !.plans = [j \in FourJobs |-> IF j > 2 THEN {}
                                                       ELSE {P(1 .. j - 1, "All")}]]
Twice == [Plain EXCEPT !.last = 2, !.plans[1] = {P({}, "All")},
                       !.plans[2] = {[P({1}, "All") EXCEPT !.again = {1}]}]
AnyTime == [Plain EXCEPT !.last = 3, !.plans[1] = {P({}, "All")}, !.plans[2] = {P({}, "All")},
                         !.plans[3] = {[P({1, 2}, "Any") EXCEPT !.begin = "future"]}]
Delayed == [Plain EXCEPT !.last = 1, !.plans[1] = {P({}, "All")}, !.delayed = {"Queued"},
                         !.edits = 1]
FaultySetups == [keys |-> Keys, any |-> Any, replace |-> Replace, twice |-> Twice,
                 anytime |-> AnyTime, delayed |-> Delayed]
=============================================================================
