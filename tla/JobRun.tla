------------------------------- MODULE JobRun -------------------------------
(***************************************************************************)
(* What the daemon promises of a job, whatever executor runs it            *)
(* (core/executor.rs) and whatever crashes: what is recorded of it only    *)
(* moves forward, its payload is started once and only after the job is    *)
(* recorded as started, and it is recorded as Finished only if its payload *)
(* succeeded.                                                              *)
(***************************************************************************)
CONSTANT Jobs

VARIABLES
    record,     \* the state recorded of each job
    work        \* its payload: not started, running, or how it ended

vars == <<record, work>>

Ended == {"Finished", "Failed", "Cancelled", "Timeout"}
Unstarted == {"Absent", "Queued"}
Recorded == Unstarted \cup {"Running"} \cup Ended

(* A record may skip states: not every one of them is written down.  *)
Later == [s \in Recorded |-> CASE s = "Absent"  -> Recorded \ {"Absent"}
                               [] s = "Queued"  -> {"Running"} \cup Ended
                               [] s = "Running" -> Ended
                               [] OTHER         -> {}]

Init == /\ record = [j \in Jobs |-> "Absent"]
        /\ work = [j \in Jobs |-> "none"]

Advance(j) == /\ record'[j] \in Later[record[j]]
              /\ record'[j] = "Finished" => work[j] = "ok"

Begin(j) == /\ work[j] = "none"
            /\ record[j] \notin Unstarted
            /\ work'[j] = "running"

End(j) == /\ work[j] = "running"
          /\ work'[j] \in {"ok", "bad"}

Next == /\ record' \in [Jobs -> Recorded]
        /\ work' \in [Jobs -> {"none", "running", "ok", "bad"}]
        /\ \A j \in Jobs : /\ Advance(j) \/ record'[j] = record[j]
                           /\ Begin(j) \/ End(j) \/ work'[j] = work[j]

Spec == Init /\ [][Next]_vars
=============================================================================
