----------------------------- MODULE Lifecycle ------------------------------
(***************************************************************************)
(* The daemon as a process: hosted by a tmux session, directly under a     *)
(* flock, or by systemd; started, stopped, queried and replaced by gflowd  *)
(* commands that may overlap, while processes crash and pids are recycled. *)
(*                                                                         *)
(* `gflowd restart` is a down followed by an up.  What the daemon keeps is *)
(* the set of changes it has accepted and, through the saver, what is on   *)
(* disk (module Persistence has the files); the jobs it runs are one       *)
(* managed process, as under the process executor.                         *)
(***************************************************************************)
EXTENDS Naturals, FiniteSets

CONSTANTS
    Pids, Clients,     \* process ids, and the shells that run gflowd commands
    Nobody, Absent,    \* no process; no tmux session
    TmuxAvailable,     \* what an up may find out about tmux: is it installed?
    Ops,               \* the commands that are run
    Edits,             \* changes users make
    MaxBorn,           \* bound on the processes that get a pid, per pid
    MaxCommands, MaxCrashes, MaxTimeouts

ASSUME LifecycleAssumption ==
    /\ IsFiniteSet(Pids) /\ IsFiniteSet(Clients)
    /\ Nobody \notin Pids /\ Absent \notin Pids /\ Nobody # Absent
    /\ TmuxAvailable \subseteq BOOLEAN
    /\ Ops \subseteq {"up", "down", "status", "reload", "install", "uninstall"}
    /\ {MaxBorn, MaxCommands, MaxCrashes, MaxTimeouts} \subseteq Nat

VARIABLES
    proc,        \* the process table
    path,        \* the file gflowd.lock: an inode, or 0
    identity,    \* what is written in an inode
    session,     \* the tmux session gflow_server, and the daemon started in it
    fresh,       \* the session a reload has created
    installed,   \* the systemd unit
    revive,      \* systemd is about to restart the daemon
    cmd,         \* what each client is doing
    disk,                            \* changes on disk
    accepted, late,    \* all there were, and those a daemon told to stop took (history)
    job,                             \* the managed job
    asked,                           \* somebody ran a command to stop (history)
    doubled, disturbed, crashed,     \* see below (history)
    commands, crashes, timeouts

hostVars == <<path, identity, session, fresh, installed, revive>>
pastVars == <<accepted, late, asked, doubled, crashed>>
historyVars == <<pastVars, disturbed>>
boundVars == <<commands, crashes, timeouts>>
vars == <<proc, hostVars, cmd, disk, job, historyVars, boundVars>>

Inodes == 1 .. Cardinality(Pids) + Cardinality(Clients) + 1
Id(p, n) == [pid |-> p, born |-> n]
NoId == Id(Nobody, 0)
NoSession == Id(Absent, 0)
Ids == [pid : Pids \cup {Nobody, Absent}, born : 0 .. MaxBorn]

Process == [kind : {"none", "other", "daemon"}, born : 0 .. MaxBorn,
            host : {"direct", "tmux", "systemd"},
            phase : {"spawned", "locked", "loading", "serving", "saving", "ending"},
            why : {"none", "stop", "handoff"}, known : SUBSET Edits,
            inode : Inodes \cup {0}]
NoProcess == [kind |-> "none", born |-> 0, host |-> "direct", phase |-> "spawned",
              why |-> "none", known |-> {}, inode |-> 0]

Idle == [op |-> "none", at |-> "idle", target |-> NoId, inode |-> 0, old |-> {}]

(* The daemon id is about, if it still runs.  *)
Runs(id) == /\ id.pid \in Pids
            /\ proc[id.pid].kind = "daemon"
            /\ proc[id.pid].born = id.born

ProcessAlive(p) == proc[p].kind # "none"

(* process_identity_matches.  Daemons lead their process group, and so may the
   process that has the pid now: the start time tells them apart.  *)
Matches_pid(id) == id.pid \in Pids /\ ProcessAlive(id.pid)
    \* mutant: the start time is not compared
Matches(id) == /\ id.pid \in Pids
               /\ ProcessAlive(id.pid)
               /\ proc[id.pid].born = id.born

Live(p) == proc[p].kind = "daemon" /\ proc[p].phase \in {"serving", "saving", "ending"}
Daemons == {p \in Pids : proc[p].kind = "daemon"}
Active == \E p \in Pids : proc[p].kind = "daemon" /\ proc[p].host = "systemd"

-----------------------------------------------------------------------------
(* The kernel's flock goes with the process that holds it.  *)
Locked_never(i) == FALSE                    \* mutant: flock is not asked
Locked(i) == \/ \E p \in Pids : proc[p].kind = "daemon" /\ proc[p].inode = i
             \/ \E c \in Clients : cmd[c].at = "release" /\ cmd[c].inode = i

(* Opening gflowd.lock creates it where there is none.  *)
Opened == IF path # 0 THEN path
          ELSE CHOOSE i \in Inodes : /\ ~Locked(i)
                                     /\ \A p \in Pids : proc[p].inode # i
                                     /\ \A c \in Clients : cmd[c].inode # i
OpenedIdentity == IF path # 0 THEN identity ELSE [identity EXCEPT ![Opened] = NoId]

Ended(r) == [NoProcess EXCEPT !.born = r.born]

(* What a signal other than SIGKILL makes of a process: before the daemon listens
   for signals it has the default effect, and the first it listens to decides.  *)
Signalled_unsaved(r, why) ==
    IF r.kind = "daemon" /\ r.phase \in {"saving", "ending"} THEN r
    ELSE IF r.kind = "daemon" /\ r.phase = "serving"
         THEN [r EXCEPT !.phase = "ending", !.why = why]
    ELSE Ended(r)                           \* mutant: no final save
Signalled(r, why) ==
    IF r.kind = "daemon" /\ r.phase \in {"saving", "ending"} THEN r
    ELSE IF r.kind = "daemon" /\ r.phase = "serving"
         THEN [r EXCEPT !.phase = "saving", !.why = why]
    ELSE Ended(r)

(* kill-session hangs up on the daemon in it, and returns.  *)
HungUp(id) == IF Runs(id) THEN [proc EXCEPT ![id.pid] = Signalled(@, "stop")] ELSE proc

Disturbing(id) == disturbed \cup (IF Runs(id) THEN {"hangup"} ELSE {})

Spawned(p, h) == [proc EXCEPT ![p] = [NoProcess EXCEPT !.kind = "daemon", !.host = h,
                                                       !.born = proc[p].born + 1]]
CanSpawn(p) == proc[p].kind = "none" /\ proc[p].born < MaxBorn
NewId_next(p) == Id(p, proc[p].born + 2)    \* mutant: the one after
NewId(p) == Id(p, proc[p].born + 1)

-----------------------------------------------------------------------------
TypeOK ==
    /\ proc \in [Pids -> Process]
    /\ path \in Inodes \cup {0}
    /\ identity \in [Inodes -> Ids]
    /\ session \in Ids
    /\ fresh \in [Clients -> Ids]
    /\ {installed, revive, asked, doubled, crashed} \subseteq BOOLEAN
    /\ cmd \in [Clients -> [op : Ops \cup {"none"},
                            at : {"idle", "probe", "release", "unlink", "identify", "check",
                                  "spawn", "await", "verify", "term", "wait", "stopping",
                                  "hangup", "pane", "hup", "usr2", "leave", "replace",
                                  "confirm", "rename", "retry"},
                            target : Ids, inode : Inodes \cup {0}, old : SUBSET Pids]]
    /\ {disk, accepted, late} \subseteq SUBSET Edits
    /\ job \in {"running", "terminated"}
    /\ disturbed \subseteq {"overlap", "reloads", "slow", "service", "hangup"}
    /\ commands \in 0 .. MaxCommands /\ crashes \in 0 .. MaxCrashes
    /\ timeouts \in 0 .. MaxTimeouts

Init ==
    /\ proc = [p \in Pids |-> NoProcess]
    /\ path = 0 /\ identity = [i \in Inodes |-> NoId]
    /\ session = NoSession /\ fresh = [c \in Clients |-> NoSession]
    /\ installed = FALSE /\ revive = FALSE
    /\ cmd = [c \in Clients |-> Idle]
    /\ disk = {} /\ accepted = {} /\ late = {} /\ job = "running"
    /\ asked = FALSE /\ doubled = FALSE /\ disturbed = {} /\ crashed = FALSE
    /\ commands = 0 /\ crashes = 0 /\ timeouts = 0

At(c, op, at) == cmd[c].op = op /\ cmd[c].at = at
Goto(c, at) == cmd' = [cmd EXCEPT ![c].at = at]
Done(c) == cmd' = [cmd EXCEPT ![c] = Idle]

-----------------------------------------------------------------------------
(* Commands.  Those of the service first: they leave the rest to systemd.  *)

Begin(c, op) ==
    /\ cmd[c] = Idle
    /\ commands < MaxCommands
    /\ commands' = commands + 1
    /\ asked' = (asked \/ op \in {"down", "uninstall"})
    /\ disturbed' = disturbed
          \cup (IF \E d \in Clients \ {c} : cmd[d] # Idle THEN {"overlap"} ELSE {})
          \cup (IF op = "reload" /\ \E d \in Clients : cmd[d].op = "reload" THEN {"reloads"}
                                                                     ELSE {})
          \cup (IF op = "install" THEN {"service"} ELSE {})
    /\ UNCHANGED <<path, identity, session, fresh, disk, accepted, late, job, doubled,
                   crashed, crashes, timeouts>>

(* up and `service install` have systemd start the daemon; nobody looks for one
   that is hosted otherwise.  *)
ServiceStarts(c, op) ==
    /\ Begin(c, op)
    /\ op = "install" \/ (op = "up" /\ installed)
    /\ installed' = TRUE
    /\ \/ Active /\ UNCHANGED proc
       \/ ~Active /\ \E p \in Pids : CanSpawn(p) /\ proc' = Spawned(p, "systemd")
    /\ UNCHANGED <<revive, cmd>>

ServiceStops(c, op) ==
    /\ Begin(c, op)
    /\ op = "uninstall" \/ (op = "down" /\ installed /\ Active)
    /\ proc' = [p \in Pids |-> IF proc[p].kind = "daemon" /\ proc[p].host = "systemd"
                               THEN Signalled(proc[p], "stop") ELSE proc[p]]
    /\ revive' = FALSE
    /\ cmd' = [cmd EXCEPT ![c].op = op, ![c].at = "stopping"]
    /\ UNCHANGED installed

ServiceStopped(c) ==
    /\ cmd[c].at = "stopping"
    /\ ~Active
    /\ installed' = (installed /\ cmd[c].op # "uninstall")
    /\ Done(c)
    /\ UNCHANGED <<proc, path, identity, session, fresh, revive, disk, job, historyVars,
                   boundVars>>

RunsCommand(c, op) ==
    /\ Begin(c, op)
    /\ op \in {"up", "down", "status", "reload"}
    /\ op = "up" => ~installed
    /\ op \in {"down", "status"} => ~(installed /\ Active)
    /\ cmd' = [cmd EXCEPT ![c] = [Idle EXCEPT !.op = op, !.at = "probe"]]
    /\ UNCHANGED <<proc, installed, revive>>

-----------------------------------------------------------------------------
(* direct_daemon_pid: is the lock held, and by whom?  Finding out takes the lock
   if it is free, and leaves without it and without the file.  *)

Only(v) == /\ UNCHANGED <<proc, session, fresh, installed, revive, disk, job, historyVars,
                          boundVars>>
           /\ UNCHANGED v

AfterProbe(op) == CASE op = "up" -> "check" [] op = "down" -> "hangup"
                    [] op = "reload" -> "pane" [] OTHER -> "idle"

ProbeLock(c) ==
    /\ cmd[c].at = "probe"
    /\ path' = Opened
    /\ identity' = OpenedIdentity
    /\ IF Locked(Opened) THEN Goto(c, "identify")
       ELSE cmd' = [cmd EXCEPT ![c].at = "release", ![c].inode = Opened]
    /\ Only(<<>>)

ProbeReleases(c) ==
    /\ cmd[c].at = "release"
    /\ cmd' = [cmd EXCEPT ![c].at = "unlink", ![c].inode = 0]
    /\ Only(<<path, identity>>)

NothingFound(c) == IF AfterProbe(cmd[c].op) = "idle" THEN Done(c)
                                                     ELSE Goto(c, AfterProbe(cmd[c].op))

ProbeUnlinks(c) ==
    /\ cmd[c].at = "unlink"
    /\ path' = 0
    /\ NothingFound(c)
    /\ Only(identity)

Written == IF path = 0 THEN NoId ELSE identity[path]

(* A daemon that is found is one to stop; up refuses, and so does reload.  *)
Identify(c) ==
    /\ cmd[c].at = "identify"
    /\ IF ~Matches(Written) THEN NothingFound(c)
       ELSE IF cmd[c].op # "down" THEN Done(c)
       ELSE cmd' = [cmd EXCEPT ![c].at = "verify", ![c].target = Written]
    /\ Only(<<path, identity>>)

-----------------------------------------------------------------------------
(* up *)

UpChecks(c) ==
    /\ At(c, "up", "check")
    /\ IF session # NoSession THEN Done(c) ELSE Goto(c, "spawn")
    /\ Only(<<path, identity>>)

UpInTmux(c) ==
    /\ At(c, "up", "spawn") /\ TRUE \in TmuxAvailable
    /\ \/ /\ session = NoSession
          /\ \E p \in Pids : /\ CanSpawn(p)
                             /\ proc' = Spawned(p, "tmux")
                             /\ session' = NewId(p)
       \/ session # NoSession /\ UNCHANGED <<proc, session>>
    /\ Done(c)
    /\ UNCHANGED <<path, identity, fresh, installed, revive, disk, job, historyVars,
                   boundVars>>

UpDirect(c) ==
    /\ At(c, "up", "spawn") /\ FALSE \in TmuxAvailable
    /\ \E p \in Pids : /\ CanSpawn(p)
                       /\ proc' = Spawned(p, "direct")
                       /\ cmd' = [cmd EXCEPT ![c].at = "await", ![c].target = NewId(p)]
    /\ UNCHANGED <<hostVars, disk, job, historyVars, boundVars>>

TimesOut == /\ timeouts < MaxTimeouts
            /\ timeouts' = timeouts + 1
            /\ disturbed' = disturbed \cup {"slow"}

(* It waits up to 3 s for the lock to name its child, or for what the child says
   when it ends.  *)
UpAwaits(c) ==
    /\ At(c, "up", "await")
    /\ \/ /\ Written = cmd[c].target /\ Matches(Written)
          /\ UNCHANGED <<timeouts, disturbed>>
       \/ ~Runs(cmd[c].target) /\ UNCHANGED <<timeouts, disturbed>>
       \/ TimesOut
    /\ Done(c)
    /\ UNCHANGED <<proc, hostVars, disk, job, pastVars, commands, crashes>>

-----------------------------------------------------------------------------
(* down *)

DownVerifies(c) ==
    /\ At(c, "down", "verify")
    /\ IF Written.pid = cmd[c].target.pid /\ Matches(Written)
       THEN /\ cmd' = [cmd EXCEPT ![c].at = "term", ![c].target = Written]
            /\ UNCHANGED path
       ELSE Done(c) /\ path' = 0
    /\ Only(identity)

DownTerminates(c) ==
    /\ At(c, "down", "term")
    /\ proc' = [proc EXCEPT ![cmd[c].target.pid] = Signalled(@, "stop")]
    /\ Goto(c, "wait")
    /\ UNCHANGED <<hostVars, disk, job, historyVars, boundVars>>

(* It waits up to 5 s for the pid to be gone, and kills what has it then.  *)
DownWaits(c) ==
    /\ At(c, "down", "wait")
    /\ \/ /\ ~ProcessAlive(cmd[c].target.pid)
          /\ UNCHANGED <<proc, timeouts, disturbed, crashed>>
       \/ /\ ProcessAlive(cmd[c].target.pid)
          /\ TimesOut
          /\ proc' = [proc EXCEPT ![cmd[c].target.pid] = Ended(@)]
          /\ crashed' = TRUE
    /\ path' = 0
    /\ Done(c)
    /\ UNCHANGED <<identity, session, fresh, installed, revive, disk, job, accepted, late,
                   asked, doubled, commands, crashes>>

DownHangsUp(c) ==
    /\ At(c, "down", "hangup")
    /\ proc' = HungUp(session)
    /\ session' = NoSession
    /\ disturbed' = Disturbing(session)
    /\ Done(c)
    /\ UNCHANGED <<path, identity, fresh, installed, revive, disk, job, pastVars,
                   boundVars>>

-----------------------------------------------------------------------------
(* reload *)

(* up and reload type the command into the shell of a new session, whose pid is the
   pane's.  With the daemon in its foreground the shell is what reload takes for the
   daemon; when the daemon has left, the first daemon that pgrep lists is.  *)
ReloadFindsPane(c) ==
    /\ At(c, "reload", "pane")
    /\ \/ /\ Runs(session)
          /\ cmd' = [cmd EXCEPT ![c].at = "hup", ![c].target = session, ![c].old = Daemons]
       \/ /\ session # NoSession /\ ~Runs(session)
          /\ \E p \in Daemons :
                cmd' = [cmd EXCEPT ![c].at = "usr2", ![c].target = Id(p, proc[p].born),
                                   ![c].old = Daemons]
       \/ ~Runs(session) /\ (session = NoSession \/ Daemons = {}) /\ Done(c)
    /\ Only(<<path, identity>>)

(* The shell has no handler for SIGUSR2: it ends, its session goes with it, and the
   daemon is hung up on.  Its pid being gone, nobody waits for the daemon.  *)
ReloadHangsUp(c) ==
    /\ At(c, "reload", "hup")
    /\ proc' = HungUp(cmd[c].target)
    /\ session' = IF session = cmd[c].target THEN NoSession ELSE session
    /\ disturbed' = Disturbing(cmd[c].target)
    /\ Goto(c, "replace")
    /\ UNCHANGED <<path, identity, fresh, installed, revive, disk, job, pastVars,
                   boundVars>>

ReloadSignals(c) ==
    /\ At(c, "reload", "usr2")
    /\ proc' = [proc EXCEPT ![cmd[c].target.pid] = Signalled(@, "handoff")]
    /\ Goto(c, "leave")
    /\ UNCHANGED <<hostVars, disk, job, historyVars, boundVars>>

(* It waits up to 3 s, and goes on in any case.  *)
ReloadWaits(c) ==
    /\ At(c, "reload", "leave")
    /\ \/ ~ProcessAlive(cmd[c].target.pid) /\ UNCHANGED <<timeouts, disturbed>>
       \/ TimesOut
    /\ Goto(c, "replace")
    /\ UNCHANGED <<proc, hostVars, disk, job, pastVars, commands, crashes>>

ReloadReplaces(c) ==
    /\ At(c, "reload", "replace")
    /\ \E p \in Pids : /\ CanSpawn(p)
                       /\ proc' = Spawned(p, "tmux")
                       /\ fresh' = [fresh EXCEPT ![c] = NewId(p)]
    /\ Goto(c, "confirm")
    /\ UNCHANGED <<path, identity, session, installed, revive, disk, job, historyVars,
                   boundVars>>

(* wait_for_new_daemon_pid: the shell of the new session with its daemon in the
   foreground or, for want of one, a daemon that was not there before.  Without either
   for 10 s, or if the one that was found ends during the health checks, the new
   session is killed.  *)
ReloadConfirms(c) ==
    /\ At(c, "reload", "confirm")
    /\ \/ /\ Runs(fresh[c]) \/ ~(Daemons \subseteq cmd[c].old)
          /\ Goto(c, "rename")
          /\ UNCHANGED fresh
       \/ /\ ~Runs(fresh[c])
          /\ Done(c)
          /\ fresh' = [fresh EXCEPT ![c] = NoSession]
    /\ UNCHANGED <<proc, path, identity, session, installed, revive, disk, job, historyVars,
                   boundVars>>

(* rename-session fails while there is a session of that name: it is killed, and
   the renaming tried once more.  A session that keeps its own name is one no
   command looks for.  *)
ReloadRenames_once(c) ==
    /\ cmd[c].at \in {"rename", "retry"}
    /\ IF session = NoSession
       THEN session' = fresh[c] /\ UNCHANGED <<proc, disturbed>>
       ELSE /\ proc' = HungUp(session) /\ session' = NoSession
            /\ disturbed' = Disturbing(session)
    /\ fresh' = [fresh EXCEPT ![c] = NoSession]
    /\ Done(c)                              \* mutant: not tried again
    /\ UNCHANGED <<path, identity, installed, revive, disk, job, pastVars, boundVars>>
ReloadRenames(c) ==
    /\ cmd[c].at \in {"rename", "retry"}
    /\ \/ /\ session = NoSession
          /\ session' = fresh[c]
          /\ fresh' = [fresh EXCEPT ![c] = NoSession]
          /\ Done(c)
          /\ UNCHANGED <<proc, disturbed>>
       \/ /\ session # NoSession /\ cmd[c].at = "rename"
          /\ proc' = HungUp(session)
          /\ session' = NoSession
          /\ disturbed' = Disturbing(session)
          /\ Goto(c, "retry")
          /\ UNCHANGED fresh
       \/ /\ session # NoSession /\ cmd[c].at = "retry"
          /\ fresh' = [fresh EXCEPT ![c] = NoSession]
          /\ Done(c)
          /\ UNCHANGED <<proc, session, disturbed>>
    /\ UNCHANGED <<path, identity, installed, revive, disk, job, pastVars, boundVars>>

-----------------------------------------------------------------------------
(* The daemon.  *)

DaemonOnly == UNCHANGED <<session, fresh, installed, cmd, asked, doubled, disturbed,
                          commands, timeouts>>

AcquireLock(p) ==
    /\ proc[p].kind = "daemon" /\ proc[p].host = "direct" /\ proc[p].phase = "spawned"
    /\ path' = Opened
    /\ identity' = OpenedIdentity
    /\ proc' = [proc EXCEPT ![p] = IF Locked(Opened) THEN Ended(@)
                                   ELSE [@ EXCEPT !.phase = "locked", !.inode = Opened]]
    /\ DaemonOnly
    /\ UNCHANGED <<revive, disk, job, accepted, late, crashed, crashes>>

WriteIdentity(p) ==
    /\ proc[p].kind = "daemon" /\ proc[p].phase = "locked"
    /\ identity' = [identity EXCEPT ![proc[p].inode] = Id(p, proc[p].born)]
    /\ proc' = [proc EXCEPT ![p].phase = "loading"]
    /\ DaemonOnly
    /\ UNCHANGED <<path, revive, disk, job, accepted, late, crashed, crashes>>

Load(p) ==
    /\ proc[p].kind = "daemon"
    /\ proc[p].phase = IF proc[p].host = "direct" THEN "loading" ELSE "spawned"
    /\ proc' = [proc EXCEPT ![p].phase = "serving", ![p].known = disk]
    /\ doubled' = (doubled \/ \E q \in Pids : Live(q))
    /\ UNCHANGED <<hostVars, cmd, disk, job, accepted, late, asked, crashed, disturbed,
                   boundVars>>

(* Every daemon binds the port with SO_REUSEPORT: any of them may get a request.  One
   that was told to stop answers until it has saved and shut down its executor.  *)
Accept(p, e) ==
    /\ Live(p)
    /\ e \notin accepted
    /\ accepted' = accepted \cup {e}
    /\ late' = IF proc[p].phase = "serving" THEN late ELSE late \cup {e}
    /\ proc' = [proc EXCEPT ![p].known = @ \cup {e}]
    /\ DaemonOnly
    /\ UNCHANGED <<path, identity, revive, disk, job, crashed, crashes>>

Save(p) ==
    /\ proc[p].kind = "daemon" /\ proc[p].phase = "serving"
    /\ disk # proc[p].known
    /\ disk' = proc[p].known
    /\ DaemonOnly
    /\ UNCHANGED <<proc, path, identity, revive, job, accepted, late, crashed, crashes>>

FinalSave(p) ==
    /\ proc[p].kind = "daemon" /\ proc[p].phase = "saving"
    /\ disk' = proc[p].known
    /\ proc' = [proc EXCEPT ![p].phase = "ending"]
    /\ DaemonOnly
    /\ UNCHANGED <<path, identity, revive, job, accepted, late, crashed, crashes>>

(* executor.shutdown, unless it was told to hand over.  *)
Exit(p) ==
    /\ proc[p].kind = "daemon" /\ proc[p].phase = "ending"
    /\ job' = IF proc[p].why = "stop" THEN "terminated" ELSE job
    /\ proc' = [proc EXCEPT ![p] = Ended(@)]
    /\ DaemonOnly
    /\ UNCHANGED <<path, identity, revive, disk, accepted, late, crashed, crashes>>

Crash(p) ==
    /\ proc[p].kind = "daemon"
    /\ crashes < MaxCrashes
    /\ crashes' = crashes + 1
    /\ crashed' = TRUE
    /\ proc' = [proc EXCEPT ![p] = Ended(@)]
    /\ revive' = (revive \/ (proc[p].host = "systemd" /\ \A c \in Clients : cmd[c].at # "stopping"))
    /\ DaemonOnly
    /\ UNCHANGED <<path, identity, disk, job, accepted, late>>

(* Restart=on-failure, which is not for a unit that is being stopped.  *)
Revive(p) ==
    /\ revive /\ CanSpawn(p)
    /\ revive' = FALSE
    /\ proc' = Spawned(p, "systemd")
    /\ DaemonOnly
    /\ UNCHANGED <<path, identity, disk, job, accepted, late, crashed, crashes>>

(* The pid of a daemon that is gone is given to another program, for a while.  *)
Recycle(p) ==
    /\ proc[p].kind \in {"none", "other"} /\ proc[p].born \in 1 .. MaxBorn
    /\ \/ /\ proc[p].kind = "none" /\ proc[p].born < MaxBorn
          /\ proc' = [proc EXCEPT ![p] = [NoProcess EXCEPT !.kind = "other",
                                                           !.born = proc[p].born + 1]]
       \/ /\ proc[p].kind = "other"
          /\ proc' = [proc EXCEPT ![p] = Ended(@)]
    /\ DaemonOnly
    /\ UNCHANGED <<path, identity, revive, disk, job, accepted, late, crashed, crashes>>

-----------------------------------------------------------------------------
Command(c) ==
    \/ \E op \in Ops : ServiceStarts(c, op) \/ ServiceStops(c, op) \/ RunsCommand(c, op)
    \/ ServiceStopped(c)
    \/ ProbeLock(c) \/ ProbeReleases(c) \/ ProbeUnlinks(c) \/ Identify(c)
    \/ UpChecks(c) \/ UpInTmux(c) \/ UpDirect(c) \/ UpAwaits(c)
    \/ DownVerifies(c) \/ DownTerminates(c) \/ DownWaits(c) \/ DownHangsUp(c)
    \/ ReloadFindsPane(c) \/ ReloadHangsUp(c) \/ ReloadSignals(c) \/ ReloadWaits(c)
    \/ ReloadReplaces(c) \/ ReloadConfirms(c) \/ ReloadRenames(c)

Daemon(p) ==
    \/ AcquireLock(p) \/ WriteIdentity(p) \/ Load(p)
    \/ \E e \in Edits : Accept(p, e)
    \/ Save(p) \/ FinalSave(p) \/ Exit(p) \/ Crash(p) \/ Revive(p) \/ Recycle(p)

Next == (\E c \in Clients : Command(c)) \/ (\E p \in Pids : Daemon(p))

Spec == Init /\ [][Next]_vars

-----------------------------------------------------------------------------
(* A down that decides to signal has found the daemon that holds the lock on the
   file it read: no file that a crash left behind, or that another daemon has locked
   and not yet written to, makes it choose a process that got the pid since.  *)
SignalsTheDaemon ==
    [][\A c \in Clients :
          At(c, "down", "verify") /\ cmd'[c].at = "term"
          => Runs(cmd'[c].target) /\ proc[cmd'[c].target.pid].inode = path]_vars

(* Two daemons live at a time only if commands overlapped, something took longer
   than a command waits, a session was killed under its daemon (nobody waits for that
   one), or the service was installed beside a daemon: never after any other sequence
   of starts, stops, reloads and crashes.  *)
AloneUnlessDisturbed == doubled => disturbed # {}

(* Where a stop looks for p: systemd's unit, the session (or one a reload is about to
   rename), the lock file.  *)
InReach(p) ==
    CASE proc[p].host = "systemd" -> installed
      [] proc[p].host = "tmux" -> Id(p, proc[p].born) \in {session} \cup {fresh[c] : c \in Clients}
      [] proc[p].host = "direct" -> path # 0 /\ path = proc[p].inode
                                    /\ identity[path] = Id(p, proc[p].born)

(* While commands are run one at a time and none times out, a daemon that serves is one
   that `gflowd down' can find: no order of starts, stops, reloads, installations and
   crashes takes its session, its unit or its lock file from it.  *)
StopsFindIt ==
    disturbed \cap {"overlap", "slow"} = {}
    => \A p \in Daemons : proc[p].phase = "serving" => InReach(p)

(* The jobs are only terminated if somebody asked for a stop or a session was killed
   under its daemon: starts, crashes and hand-overs leave them alone.  *)
JobsOutliveHandOvers == job = "terminated" => asked \/ "hangup" \in disturbed

(* The commands, processes and files are what they can be, a daemon stays in reach and
   the jobs survive whoever hands over.  *)
InReachWithItsJobs == TypeOK /\ StopsFindIt /\ JobsOutliveHandOvers

(* A daemon that loads the state alone, where none was killed before it had saved,
   knows every change accepted before a stop: what comes while a daemon stops may be
   too late for its last save.  *)
LoadsEverything ==
    [][\A p \in Pids :
          proc[p].phase # "serving" /\ proc'[p].phase = "serving" /\ ~doubled' /\ ~crashed
          => accepted \ late \subseteq proc'[p].known]_vars

(* A stop meets the daemon, and a start finds what was accepted before it.  *)
StopsAndStarts == SignalsTheDaemon /\ LoadsEverything

(* Refuted.  "SIGUSR2 is a reload handoff, so the old daemon leaves durable job runners
   alive while it flushes and exits" (reload.rs): the signal goes to the shell, and
   what the daemon gets is the SIGHUP of its terminal.  *)
ReloadKeepsJobs == job = "terminated" => asked

(* Refuted.  The "graceful shutdown" of server.rs saves, then terminates the jobs, and
   answers requests meanwhile: what they change is lost.  *)
StopsAreComplete ==
    [][\A p \in Pids :
          proc[p].phase # "serving" /\ proc'[p].phase = "serving" /\ ~doubled' /\ ~crashed
          => proc'[p].known = accepted]_vars

(* Refuted.  "The lock is both mutual exclusion (a duplicate `up` is refused) and a
   crash-safe liveness signal" (docs reference/gflowd-reference.md): a command that
   finds the lock free unlinks the file a daemon may have locked meanwhile.  *)
OneDirectDaemon ==
    \A p, q \in Pids : (p # q /\ Live(p) /\ Live(q)) => proc[p].host # proc[q].host

(* Refuted.  "A recycled PID is never SIGTERM/SIGKILLed" (docs
   reference/gflowd-reference.md): the wait before SIGKILL looks at the pid.  *)
RecycledPidSpared ==
    [][\A p \in Pids : proc[p].kind = "other" /\ proc'[p].kind = "none" => cmd' = cmd]_vars

(* Refuted.  "Persist the latest scheduler snapshot before the replacement daemon
   loads state" (reload.rs): after 3 s the replacement loads what there is.  And a
   restart under tmux does not wait at all: the new daemon loads what the old one
   has not saved yet.  *)
EveryLoadIsComplete ==
    [][\A p \in Pids :
          proc[p].phase # "serving" /\ proc'[p].phase = "serving" /\ ~crashed
          => proc'[p].known = accepted]_vars
=============================================================================
