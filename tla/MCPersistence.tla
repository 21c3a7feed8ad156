--------------------------- MODULE MCPersistence ----------------------------
(* Instances of Persistence: an old and a new version of the daemon.  *)
EXTENDS Persistence

MCJobs == {"job"}
MCReservations == {"reservation"}
MCQuotas == {"quota"}
=============================================================================
