--------------------------- MODULE MCNotifications --------------------------
(* Instances of Notifications.  In one the daemon has a webhook for the outcomes of one
   user's jobs and an e-mail target for submissions and the GPU, to which a job adds
   addresses of its own, and they share one permit; in the other a grun follows its job.  *)
EXTENDS Notifications

TwoJobs == {"j1", "j2"}
OneJob == {"j1"}
MCOwner == [j \in Jobs |-> IF j = "j1" THEN "alice" ELSE "bob"]
NoDependents == [j \in Jobs |-> {}]
J2OnJ1 == [j \in Jobs |-> IF j = "j1" THEN {"j2"} ELSE {}]
MCMails == [j \in Jobs |-> [to |-> IF j = "j1" THEN {"alice@x"} ELSE {}, events |-> {}]]
MCWebhooks == <<[events |-> {"job_completed", "job_cancelled", "job_timeout"},
                 users |-> {"alice"}, retries |-> 0, to |-> {}]>>
MCEmails == <<[events |-> {"job_submitted", "gpu_available"}, users |-> {}, retries |-> 1,
               to |-> {"ops@x"}]>>
Apart == {"notify", "follow"}
Both == {"both"}
=============================================================================
