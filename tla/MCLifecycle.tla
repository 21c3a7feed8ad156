---------------------------- MODULE MCLifecycle -----------------------------
(* Instances of Lifecycle: two shells, and few pids so that they get recycled.  *)
EXTENDS Lifecycle

MCPids == {"p1", "p2"}
MCClients == {"c1", "c2"}
AllOps == {"up", "down", "status", "reload", "install", "uninstall"}
HandOps == {"up", "down", "status", "reload"}
=============================================================================
