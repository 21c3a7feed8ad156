----------------------------- MODULE MCQueries -----------------------------
(* Instances of Queries and of GpuSlots for TLC, checked together: a behaviour is
   one of the queue or one of a machine's GPUs.  *)
EXTENDS Queries, GpuSlots, TLC

None == [jobs |-> 0, users |-> {}, gpus |-> 0, lists |-> 0, edits |-> 0, redos |-> 0,
         enters |-> {}, views |-> {}, page |-> 0, groups |-> 1, log |-> 0, bytes |-> 1,
         lines |-> 1]
Alphabet == [u \in Users |-> IF u = "a" THEN 1 ELSE 2]

(* Every state, two users of which a summary shows one.  *)
Indexed == [None EXCEPT !.jobs = 3, !.users = Users, !.gpus = 1, !.enters = States]
(* An agent that reads pages of one job.  *)
Pages == [None EXCEPT !.jobs = 4, !.users = {"a"}, !.enters = States \ {"Failed", "Timeout", "Cancelled"},
                      !.views = {"active", "waiting", "all"}, !.page = 1]
(* Dependencies that are edited and redos: rings.  *)
Edited == [None EXCEPT !.jobs = 3, !.users = {"a"}, !.lists = 2, !.edits = 2, !.redos = 2,
                       !.enters = {"Running", "Finished", "Cancelled"}]
(* Four jobs: diamonds and redos.  *)
Forest == [None EXCEPT !.jobs = 4, !.users = {"a"}, !.lists = 2, !.redos = 1,
                       !.enters = {"Running", "Finished"}]
(* A log of eight bytes, read from its last four for at most two lines.  *)
Logged == [None EXCEPT !.log = 8, !.bytes = 4, !.lines = 2]

AllSetups == [indexed |-> Indexed, pages |-> Pages, edited |-> Edited, forest |-> Forest,
              logged |-> Logged, gpus |-> None]

NoGpus == [gpus |-> {}, pids |-> {}, modes |-> {}, restrictions |-> {}, blind |-> 0,
           restarts |-> 0, asks |-> FALSE]
(* One GPU, one process id that is used again, jobs of both kinds, and all that
   can go wrong; one GPU and two processes; two GPUs.  *)
One == [NoGpus EXCEPT !.gpus = {0}, !.pids = {1}, !.modes = {"exclusive", "shared"},
                      !.restrictions = {{}, {0}}, !.blind = 1, !.restarts = 1, !.asks = TRUE]
Crowd == [NoGpus EXCEPT !.gpus = {0}, !.pids = {1, 2}, !.modes = {"exclusive"}, !.blind = 1]
Two == [NoGpus EXCEPT !.gpus = {0, 1}, !.pids = {1}, !.modes = {"exclusive"},
                      !.restrictions = {{0, 1}, {0}}]
AllMachines == [none |-> NoGpus, one |-> One, crowd |-> Crowd, two |-> Two]

Start == QueryInit /\ GpuInit /\ (setup = "gpus" <=> machine # "none")
Step ==
    \/ QueryNext /\ UNCHANGED gpuVars
    \/ machine # "none" /\ GpuNext /\ UNCHANGED queryVars
Both == Start /\ [][Step]_<<queryVars, gpuVars>>
=============================================================================
