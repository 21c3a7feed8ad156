--------------------------- MODULE Lifecycle_proofs --------------------------
(***************************************************************************)
(* Proofs about the daemon as a process, for every set of pids, shells and  *)
(* commands: any interleaving of the commands' steps with starts, crashes,  *)
(* slow stops and pids that are given away.                                 *)
(***************************************************************************)
EXTENDS Lifecycle, FiniteSetTheorems, TLAPS

IdOf(p) == Id(p, proc[p].born)

(* Each stage of a command belongs to one command, and a client with no command is at
   no stage.  *)
Fits(op, at) ==
    /\ at \in {"check", "spawn", "await"} => op = "up"
    /\ at \in {"verify", "term", "wait", "hangup"} => op = "down"
    /\ at = "stopping" => op \in {"down", "uninstall"}
    /\ at \in {"pane", "hup", "usr2", "leave", "replace", "confirm", "rename", "retry"}
          => op = "reload"
StagesSound ==
    \A c \in Clients : /\ cmd[c].at = "idle" => cmd[c] = Idle
                       /\ cmd[c].op = "none" => cmd[c] = Idle
                       /\ Fits(cmd[c].op, cmd[c].at)

(* Only a daemon that was started directly has a lock file open.  *)
ProcessesSound ==
    \A p \in Pids :
        /\ proc[p].kind # "daemon" => proc[p].inode = 0
        /\ proc[p].host # "direct" => proc[p].inode = 0
        /\ proc[p].phase = "spawned" => proc[p].inode = 0

(* An identity that is written in a file is that of a process of the past, or of the
   daemon that has the file open.  *)
IdentitySound ==
    \A i \in Inodes : \A p \in Pids : identity[i].pid = p =>
        /\ identity[i].born <= proc[p].born
        /\ identity[i].born = proc[p].born /\ ProcessAlive(p)
              => /\ proc[p].kind = "daemon" /\ proc[p].inode = i
                 /\ proc[p].phase \notin {"spawned", "locked"}

(* The daemon of a session is one that was started.  *)
SessionSound ==
    \A p \in Pids : /\ session.pid = p => session.born <= proc[p].born
                   /\ \A c \in Clients : fresh[c].pid = p => fresh[c].born <= proc[p].born

(* Where nobody asked for a stop and no session was killed under its daemon, none is
   told to stop.  *)
JobsSound ==
    ~asked /\ "hangup" \notin disturbed =>
        /\ job = "running"
        /\ \A p \in Daemons : proc[p].why # "stop"
        /\ \A c \in Clients : cmd[c].op \notin {"down", "uninstall"}

(* A daemon at its place: the session is its own, or the lock file is, with its
   identity in it.  *)
Settled(p) == \/ proc[p].host = "tmux" /\ session = IdOf(p)
              \/ /\ proc[p].host = "direct"
                 /\ path # 0 /\ proc[p].inode = path /\ identity[path] = IdOf(p)

Launching(c) == cmd[c].at \in {"await", "confirm", "rename", "retry"}
NoDirect == \A p \in Daemons : proc[p].host # "direct"

(* What a command that nothing disturbs knows at each of its stages.  *)
StageCalm(c) ==
    /\ cmd[c].at \in {"release", "unlink", "check", "spawn", "hangup", "pane", "hup"}
          => NoDirect
    /\ cmd[c].at \in {"spawn", "retry"} => session = NoSession
    /\ cmd[c].at = "hup" => cmd[c].target = session
    /\ cmd[c].at \notin {"usr2", "leave"}
    /\ cmd[c].at = "replace" => Daemons = {}
    /\ cmd[c].at \in {"verify", "term", "wait"} => cmd[c].target = Written
    /\ cmd[c].at = "await" =>
          \A p \in Daemons : /\ proc[p].host = "direct" /\ cmd[c].target = IdOf(p)
                             /\ \/ proc[p].phase = "spawned"
                                \/ path # 0 /\ proc[p].inode = path
    /\ cmd[c].at \in {"confirm", "rename", "retry"} =>
          \A p \in Daemons : proc[p].host = "tmux" /\ fresh[c] = IdOf(p)

(* When nothing was disturbed there is no service, one command at a time, one daemon at
   most, and that one at its place unless a command is still starting it.  *)
CalmSound ==
    disturbed = {} =>
        /\ ~installed /\ ~revive
        /\ \A p \in Daemons : proc[p].host # "systemd"
        /\ \A c, d \in Clients : cmd[c] # Idle /\ cmd[d] # Idle => c = d
        /\ \A p, q \in Daemons : p = q
        /\ (\A c \in Clients : ~Launching(c)) => \A p \in Daemons : Settled(p)
        /\ \A c \in Clients : StageCalm(c)

(* A daemon that lives alone, none having been killed, knows all that was accepted
   before a stop, or has saved it.  *)
Promised == accepted \ late
KnowledgeSound ==
    ~doubled /\ ~crashed =>
        /\ \A p, q \in Pids : Live(p) /\ Live(q) => p = q
        /\ (\A p \in Pids : ~Live(p)) => Promised \subseteq disk
        /\ \A p \in Pids :
              /\ Live(p) /\ proc[p].phase # "ending" => Promised \subseteq proc[p].known
              /\ Live(p) /\ proc[p].phase = "ending" => Promised \subseteq disk

Sound == /\ TypeOK /\ StagesSound /\ ProcessesSound /\ IdentitySound /\ SessionSound
         /\ KnowledgeSound
IInv == Sound /\ JobsSound /\ CalmSound /\ AloneUnlessDisturbed

-----------------------------------------------------------------------------
(* Type correctness.  *)

LEMMA IdType ==
    /\ NoId \in Ids /\ NoSession \in Ids
    /\ \A p \in Pids, b \in 0 .. MaxBorn : Id(p, b) \in Ids
    /\ \A p \in Pids, b \in 0 .. MaxBorn : Id(p, b).pid = p /\ Id(p, b).born = b
    /\ NoId.pid = Nobody /\ NoSession.pid = Absent
BY LifecycleAssumption DEF NoId, NoSession, Ids, Id

(* A file that is created has an inode nobody has.  *)
LEMMA OpenedType ==
    ASSUME TypeOK
    PROVE  /\ Opened \in Inodes
           /\ path # 0 => Opened = path
           /\ path = 0 => /\ ~Locked(Opened)
                          /\ \A p \in Pids : proc[p].inode # Opened
                          /\ \A c \in Clients : cmd[c].inode # Opened
<1>. DEFINE P == {proc[p].inode : p \in Pids}
            C == {cmd[c].inode : c \in Clients}
            free(i) == /\ ~Locked(i)
                       /\ \A p \in Pids : proc[p].inode # i
                       /\ \A c \in Clients : cmd[c].inode # i
<1>1. /\ IsFiniteSet(P) /\ Cardinality(P) <= Cardinality(Pids)
      /\ IsFiniteSet(C) /\ Cardinality(C) <= Cardinality(Clients)
      /\ Cardinality(Pids) \in Nat /\ Cardinality(Clients) \in Nat
  <2>. DEFINE f == [p \in Pids |-> proc[p].inode]
              g == [c \in Clients |-> cmd[c].inode]
  <2>1. f \in Surjection(Pids, P) /\ g \in Surjection(Clients, C)
    BY DEF Surjection
  <2>. HIDE DEF f, g, P, C
  <2>2. IsFiniteSet(P) /\ Cardinality(P) <= Cardinality(Pids)
    BY <2>1, FS_Surjection, LifecycleAssumption
  <2>3. IsFiniteSet(C) /\ Cardinality(C) <= Cardinality(Clients)
    BY <2>1, FS_Surjection, LifecycleAssumption
  <2>. QED BY <2>2, <2>3, FS_CardinalityType, LifecycleAssumption
<1>2. IsFiniteSet(P \cup C) /\ Cardinality(P \cup C) <= Cardinality(Pids) + Cardinality(Clients)
  <2>1. /\ IsFiniteSet(P \cup C)
        /\ Cardinality(P \cup C) = Cardinality(P) + Cardinality(C) - Cardinality(P \cap C)
    BY <1>1, FS_Union
  <2>2. Cardinality(P \cap C) \in Nat /\ Cardinality(P) \in Nat /\ Cardinality(C) \in Nat
    BY <1>1, FS_Subset, FS_CardinalityType
  <2>. QED BY <1>1, <2>1, <2>2
<1>3. Cardinality(Inodes) = Cardinality(Pids) + Cardinality(Clients) + 1
  BY <1>1, FS_Interval DEF Inodes
<1>4. ~(Inodes \subseteq P \cup C)
  <2>1. Cardinality(P \cup C) \in Nat
    BY <1>2, FS_CardinalityType
  <2>. QED BY <1>1, <1>2, <1>3, <2>1, FS_Subset
<1>5. PICK i \in Inodes : i \notin P \cup C
  BY <1>4
<1>6. free(i)
  BY <1>5 DEF Locked
<1>7. path = 0 => Opened = CHOOSE k \in Inodes : free(k)
  BY DEF Opened
<1>. HIDE DEF free
<1>8. path = 0 => Opened \in Inodes /\ free(Opened)
  BY <1>6, <1>7
<1>9. path # 0 => Opened = path /\ path \in Inodes
  BY DEF Opened, TypeOK
<1>. QED BY <1>8, <1>9 DEF free

LEMMA OpenedIdentityType ==
    ASSUME TypeOK
    PROVE  OpenedIdentity \in [Inodes -> Ids]
BY OpenedType, IdType DEF OpenedIdentity, TypeOK

(* What becomes of a process.  *)
LEMMA ProcessType ==
    ASSUME NEW r \in Process
    PROVE  /\ NoProcess \in Process
           /\ Ended(r) \in Process
           /\ \A w \in {"stop", "handoff"} : Signalled(r, w) \in Process
           /\ \A h \in {"direct", "tmux", "systemd"}, b \in 0 .. MaxBorn :
                 [NoProcess EXCEPT !.kind = "daemon", !.host = h, !.born = b] \in Process
           /\ \A b \in 0 .. MaxBorn : [NoProcess EXCEPT !.kind = "other", !.born = b] \in Process
<1>1. NoProcess \in Process
  BY LifecycleAssumption DEF NoProcess, Process
<1>2. Ended(r) \in Process
  BY <1>1 DEF Ended, NoProcess, Process
<1>3. \A w \in {"stop", "handoff"} : Signalled(r, w) \in Process
  BY <1>2 DEF Signalled, Process
<1>4. \A h \in {"direct", "tmux", "systemd"}, b \in 0 .. MaxBorn :
         [NoProcess EXCEPT !.kind = "daemon", !.host = h, !.born = b] \in Process
  BY <1>1 DEF Process
<1>5. \A b \in 0 .. MaxBorn : [NoProcess EXCEPT !.kind = "other", !.born = b] \in Process
  BY <1>1 DEF Process
<1>. QED BY <1>1, <1>2, <1>3, <1>4, <1>5

LEMMA SpawnedType ==
    ASSUME TypeOK, NEW p \in Pids, CanSpawn(p), NEW h \in {"direct", "tmux", "systemd"}
    PROVE  /\ Spawned(p, h) \in [Pids -> Process]
           /\ NewId(p) \in Ids
           /\ proc[p].born + 1 \in 0 .. MaxBorn
<1>1. proc[p] \in Process /\ proc[p].born \in 0 .. MaxBorn
  BY DEF TypeOK, Process
<1>2. proc[p].born + 1 \in 0 .. MaxBorn
  BY <1>1, LifecycleAssumption DEF CanSpawn
<1>3. [NoProcess EXCEPT !.kind = "daemon", !.host = h, !.born = proc[p].born + 1] \in Process
  BY <1>1, <1>2, ProcessType
<1>. QED BY <1>2, <1>3, IdType DEF Spawned, NewId, TypeOK

LEMMA HungUpType ==
    ASSUME TypeOK, NEW id
    PROVE  HungUp(id) \in [Pids -> Process]
<1>1. ASSUME NEW p \in Pids PROVE Signalled(proc[p], "stop") \in Process
  BY ProcessType DEF TypeOK
<1>. QED BY <1>1 DEF HungUp, Runs, TypeOK

(* Clients and what they know.  *)
Stages == {"idle", "probe", "release", "unlink", "identify", "check", "spawn", "await",
           "verify", "term", "wait", "stopping", "hangup", "pane", "hup", "usr2", "leave",
           "replace", "confirm", "rename", "retry"}
Commands == [op : Ops \cup {"none"}, at : Stages, target : Ids, inode : Inodes \cup {0},
             old : SUBSET Pids]

LEMMA CommandType ==
    ASSUME TypeOK, NEW c \in Clients
    PROVE  /\ cmd \in [Clients -> Commands] /\ Idle \in Commands
           /\ [cmd EXCEPT ![c] = Idle] \in [Clients -> Commands]
           /\ \A at \in Stages : /\ [cmd EXCEPT ![c].at = at] \in [Clients -> Commands]
                                 /\ \A id \in Ids : [cmd EXCEPT ![c].at = at, ![c].target = id]
                                                       \in [Clients -> Commands]
                                 /\ \A i \in Inodes \cup {0} :
                                       [cmd EXCEPT ![c].at = at, ![c].inode = i]
                                          \in [Clients -> Commands]
                                 /\ \A id \in Ids, o \in SUBSET Pids :
                                       [cmd EXCEPT ![c].at = at, ![c].target = id, ![c].old = o]
                                          \in [Clients -> Commands]
<1>1. cmd \in [Clients -> Commands]
  BY DEF TypeOK, Commands, Stages
<1>2. Idle \in Commands
  BY IdType DEF Idle, Commands, Stages
<1>. HIDE DEF Stages
<1>3. ASSUME NEW at \in Stages, NEW id \in Ids, NEW i \in Inodes \cup {0},
             NEW o \in SUBSET Pids
      PROVE  /\ [cmd[c] EXCEPT !.at = at] \in Commands
             /\ [cmd[c] EXCEPT !.at = at, !.target = id] \in Commands
             /\ [cmd[c] EXCEPT !.at = at, !.target = id, !.old = o] \in Commands
             /\ [cmd[c] EXCEPT !.at = at, !.inode = i] \in Commands
  BY <1>1 DEF Commands
<1>4. ASSUME NEW at \in Stages, NEW id \in Ids, NEW i \in Inodes \cup {0},
             NEW o \in SUBSET Pids
      PROVE  /\ [cmd EXCEPT ![c].at = at, ![c].target = id, ![c].old = o]
                   = [cmd EXCEPT ![c] = [cmd[c] EXCEPT !.at = at, !.target = id, !.old = o]]
             /\ [cmd EXCEPT ![c].at = at] = [cmd EXCEPT ![c] = [cmd[c] EXCEPT !.at = at]]
             /\ [cmd EXCEPT ![c].at = at, ![c].target = id]
                   = [cmd EXCEPT ![c] = [cmd[c] EXCEPT !.at = at, !.target = id]]
             /\ [cmd EXCEPT ![c].at = at, ![c].inode = i]
                   = [cmd EXCEPT ![c] = [cmd[c] EXCEPT !.at = at, !.inode = i]]
  BY <1>1
<1>5. \A r \in Commands : [cmd EXCEPT ![c] = r] \in [Clients -> Commands]
  BY <1>1
<1>6. NoId \in Ids /\ 0 \in Inodes \cup {0}
  BY IdType
<1>. QED BY <1>1, <1>2, <1>3, <1>4, <1>5, <1>6

(* The types hold at the start ...  *)
LEMMA TypeInit == Init => TypeOK
<1>. SUFFICES ASSUME Init PROVE TypeOK
  OBVIOUS
<1>1. NoProcess \in Process
  BY LifecycleAssumption DEF NoProcess, Process
<1>2. Idle \in Commands
  BY IdType DEF Idle, Commands, Stages
<1>3. commands \in 0 .. MaxCommands /\ crashes \in 0 .. MaxCrashes /\ timeouts \in 0 .. MaxTimeouts
  BY LifecycleAssumption DEF Init
<1>. QED BY <1>1, <1>2, <1>3, IdType DEF Init, TypeOK, Commands, Stages

(* The types in three parts: processes and files, commands, and history.  *)
HostType == /\ proc \in [Pids -> Process] /\ path \in Inodes \cup {0}
            /\ identity \in [Inodes -> Ids] /\ session \in Ids /\ fresh \in [Clients -> Ids]
            /\ installed \in BOOLEAN /\ revive \in BOOLEAN
CmdType == cmd \in [Clients -> Commands]
PastType == /\ {asked, doubled, crashed} \subseteq BOOLEAN
            /\ {disk, accepted, late} \subseteq SUBSET Edits /\ job \in {"running", "terminated"}
            /\ disturbed \subseteq {"overlap", "reloads", "slow", "service", "hangup"}
            /\ commands \in 0 .. MaxCommands /\ crashes \in 0 .. MaxCrashes
            /\ timeouts \in 0 .. MaxTimeouts

LEMMA TypeParts == TypeOK <=> HostType /\ CmdType /\ PastType
BY DEF TypeOK, HostType, CmdType, PastType, Commands, Stages

(* The steps of a command.  *)
LEMMA BeginType ==
    ASSUME TypeOK, NEW c \in Clients, NEW op \in Ops, Begin(c, op)
    PROVE  PastType' /\ UNCHANGED <<path, identity, session, fresh>>
<1>1. commands' \in 0 .. MaxCommands
  BY LifecycleAssumption DEF TypeOK, Begin
<1>2. disturbed' \subseteq {"overlap", "reloads", "slow", "service", "hangup"}
  BY DEF TypeOK, Begin
<1>. QED BY <1>1, <1>2 DEF TypeOK, Begin, PastType

LEMMA PastStays ==
    ASSUME TypeOK, UNCHANGED <<disk, job, historyVars, boundVars>>
    PROVE  PastType'
BY DEF TypeOK, PastType, historyVars, pastVars, boundVars

LEMMA TimeoutType ==
    ASSUME TypeOK, TimesOut
    PROVE  /\ timeouts' \in 0 .. MaxTimeouts
           /\ disturbed' \subseteq {"overlap", "reloads", "slow", "service", "hangup"}
BY LifecycleAssumption DEF TypeOK, TimesOut

LEMMA CommandTypeStep ==
    ASSUME TypeOK, NEW c \in Clients, Command(c)
    PROVE  TypeOK'
<1>0. HostType /\ CmdType /\ PastType
  BY TypeParts
<1>. SUFFICES HostType' /\ CmdType' /\ PastType'
  BY DEF TypeOK, HostType, CmdType, PastType, Commands, Stages
<1>1. ASSUME NEW at \in Stages, Goto(c, at) PROVE CmdType'
  BY <1>1, CommandType DEF Goto, CmdType
<1>2. ASSUME Done(c) PROVE CmdType'
  BY <1>2, CommandType DEF Done, CmdType
<1>3. ASSUME NothingFound(c) PROVE CmdType'
  <2>1. AfterProbe(cmd[c].op) \in {"check", "hangup", "pane", "idle"}
    BY DEF AfterProbe
  <2>. QED BY <1>1, <1>2, <1>3, <2>1 DEF NothingFound, Stages
<1>4. ASSUME NEW op \in Ops, ServiceStarts(c, op) PROVE HostType' /\ CmdType' /\ PastType'
  <2>1. proc' \in [Pids -> Process]
    BY <1>0, <1>4, SpawnedType DEF ServiceStarts, HostType
  <2>. QED BY <1>0, <1>4, <2>1, BeginType DEF ServiceStarts, HostType, CmdType
<1>5. ASSUME NEW op \in Ops, ServiceStops(c, op) PROVE HostType' /\ CmdType' /\ PastType'
  <2>1. proc' \in [Pids -> Process]
    <3>1. \A p \in Pids : Signalled(proc[p], "stop") \in Process /\ proc[p] \in Process
      BY <1>0, ProcessType DEF HostType
    <3>. QED BY <1>5, <3>1 DEF ServiceStops
  <2>2. cmd' \in [Clients -> Commands]
    <3>1. [cmd[c] EXCEPT !.op = op, !.at = "stopping"] \in Commands
      BY <1>0 DEF CmdType, Commands, Stages
    <3>2. cmd' = [cmd EXCEPT ![c] = [cmd[c] EXCEPT !.op = op, !.at = "stopping"]]
      BY <1>0, <1>5 DEF ServiceStops, CmdType
    <3>. QED BY <1>0, <3>1, <3>2 DEF CmdType
  <2>. QED BY <1>0, <1>5, <2>1, <2>2, BeginType DEF ServiceStops, HostType, CmdType
<1>6. CASE ServiceStopped(c)
  <2>1. PastType' /\ CmdType'
    BY <1>2, <1>6, PastStays DEF ServiceStopped
  <2>. QED BY <1>0, <1>6, <2>1 DEF ServiceStopped, HostType
<1>7. ASSUME NEW op \in Ops, RunsCommand(c, op) PROVE HostType' /\ CmdType' /\ PastType'
  <2>1. cmd' \in [Clients -> Commands]
    <3>1. [Idle EXCEPT !.op = op, !.at = "probe"] \in Commands
      BY CommandType DEF Commands, Stages
    <3>. QED BY <1>0, <1>7, <3>1 DEF RunsCommand, CmdType
  <2>. QED BY <1>0, <1>7, <2>1, BeginType DEF RunsCommand, HostType, CmdType
<1>8. CASE ProbeLock(c)
  <2>1. CmdType'
    <3>1. CASE cmd' = [cmd EXCEPT ![c].at = "release", ![c].inode = Opened]
      BY <3>1, OpenedType, CommandType DEF CmdType, Stages
    <3>. QED BY <1>1, <1>8, <3>1 DEF ProbeLock, Stages
  <2>. QED BY <1>0, <1>8, <2>1, OpenedType, OpenedIdentityType, PastStays
       DEF ProbeLock, Only, HostType
<1>9. CASE ProbeReleases(c)
  <2>1. CmdType'
    BY <1>9, CommandType DEF ProbeReleases, CmdType, Stages
  <2>. QED BY <1>0, <1>9, <2>1, PastStays DEF ProbeReleases, Only, HostType
<1>10. CASE ProbeUnlinks(c)
  BY <1>0, <1>3, <1>10, PastStays DEF ProbeUnlinks, Only, HostType
<1>11. Written \in Ids
  BY <1>0, IdType DEF Written, HostType
<1>12. CASE Identify(c)
  <2>1. CmdType'
    <3>1. CASE cmd' = [cmd EXCEPT ![c].at = "verify", ![c].target = Written]
      BY <1>11, <3>1, CommandType DEF CmdType, Stages
    <3>. QED BY <1>2, <1>3, <1>12, <3>1 DEF Identify
  <2>. QED BY <1>0, <1>12, <2>1, PastStays DEF Identify, Only, HostType
<1>13. CASE UpChecks(c)
  BY <1>0, <1>1, <1>2, <1>13, PastStays DEF UpChecks, Only, HostType, Stages
<1>14. CASE UpInTmux(c)
  <2>1. proc' \in [Pids -> Process] /\ session' \in Ids
    BY <1>0, <1>14, SpawnedType DEF UpInTmux, HostType
  <2>. QED BY <1>0, <1>2, <1>14, <2>1, PastStays DEF UpInTmux, HostType
<1>15. CASE UpDirect(c)
  <2>1. PICK p \in Pids : /\ CanSpawn(p) /\ proc' = Spawned(p, "direct")
                          /\ cmd' = [cmd EXCEPT ![c].at = "await", ![c].target = NewId(p)]
    BY <1>15 DEF UpDirect
  <2>2. proc' \in [Pids -> Process] /\ CmdType'
    BY <2>1, SpawnedType, CommandType DEF CmdType, Stages
  <2>. QED BY <1>0, <1>15, <2>2, PastStays DEF UpDirect, HostType, hostVars
<1>16. CASE UpAwaits(c)
  <2>1. /\ timeouts' \in 0 .. MaxTimeouts
        /\ disturbed' \subseteq {"overlap", "reloads", "slow", "service", "hangup"}
    BY <1>0, <1>16, TimeoutType DEF UpAwaits, PastType
  <2>. QED BY <1>0, <1>2, <1>16, <2>1 DEF UpAwaits, HostType, hostVars, PastType, pastVars
<1>17. CASE DownVerifies(c)
  <2>1. CmdType' /\ path' \in Inodes \cup {0}
    <3>1. CASE cmd' = [cmd EXCEPT ![c].at = "term", ![c].target = Written] /\ UNCHANGED path
      BY <1>0, <1>11, <3>1, CommandType DEF CmdType, Stages, HostType
    <3>. QED BY <1>2, <1>17, <3>1 DEF DownVerifies
  <2>. QED BY <1>0, <1>17, <2>1, PastStays DEF DownVerifies, Only, HostType
<1>18. ASSUME NEW q, NEW w \in {"stop", "handoff"}
       PROVE  [proc EXCEPT ![q] = Signalled(@, w)] \in [Pids -> Process]
  <2>1. \A p \in Pids : Signalled(proc[p], w) \in Process
    BY <1>0, ProcessType DEF HostType
  <2>. QED BY <1>0, <2>1 DEF HostType
<1>19. CASE DownTerminates(c)
  BY <1>0, <1>1, <1>18, <1>19, PastStays DEF DownTerminates, HostType, hostVars, Stages
<1>20. CASE DownWaits(c)
  <2>1. proc' \in [Pids -> Process]
    <3>1. \A p \in Pids : Ended(proc[p]) \in Process
      BY <1>0, ProcessType DEF HostType
    <3>. QED BY <1>0, <1>20, <3>1 DEF DownWaits, HostType
  <2>2. /\ timeouts' \in 0 .. MaxTimeouts /\ crashed' \in BOOLEAN
        /\ disturbed' \subseteq {"overlap", "reloads", "slow", "service", "hangup"}
    BY <1>0, <1>20, TimeoutType DEF DownWaits, PastType
  <2>. QED BY <1>0, <1>2, <1>20, <2>1, <2>2 DEF DownWaits, HostType, PastType
<1>21. CASE DownHangsUp(c)
  <2>1. disturbed' \subseteq {"overlap", "reloads", "slow", "service", "hangup"}
    BY <1>0, <1>21 DEF DownHangsUp, PastType, Disturbing
  <2>. QED BY <1>0, <1>2, <1>21, <2>1, HungUpType, IdType
       DEF DownHangsUp, HostType, PastType, pastVars, boundVars
<1>22. CASE ReloadFindsPane(c)
  <2>1. CmdType'
    <3>1. Daemons \in SUBSET Pids /\ "hup" \in Stages /\ "usr2" \in Stages
      BY DEF Daemons, Stages
    <3>2. ASSUME NEW p \in Daemons PROVE Id(p, proc[p].born) \in Ids
      BY <1>0, IdType DEF HostType, Process, Daemons
    <3>3. CASE cmd' = [cmd EXCEPT ![c].at = "hup", ![c].target = session, ![c].old = Daemons]
      BY <1>0, <3>1, <3>3, CommandType DEF CmdType, HostType
    <3>4. ASSUME NEW p \in Daemons,
                 cmd' = [cmd EXCEPT ![c].at = "usr2", ![c].target = Id(p, proc[p].born),
                                    ![c].old = Daemons]
          PROVE  CmdType'
      BY <3>1, <3>2, <3>4, CommandType DEF CmdType
    <3>. QED BY <1>2, <1>22, <3>3, <3>4 DEF ReloadFindsPane
  <2>. QED BY <1>0, <1>22, <2>1, PastStays DEF ReloadFindsPane, Only, HostType
<1>23. CASE ReloadSignals(c)
  BY <1>0, <1>1, <1>18, <1>23, PastStays DEF ReloadSignals, HostType, hostVars, Stages
<1>28. CASE ReloadHangsUp(c)
  <2>1. disturbed' \subseteq {"overlap", "reloads", "slow", "service", "hangup"}
    BY <1>0, <1>28 DEF ReloadHangsUp, PastType, Disturbing
  <2>. QED BY <1>0, <1>1, <1>28, <2>1, HungUpType, IdType
       DEF ReloadHangsUp, HostType, PastType, pastVars, boundVars, Stages
<1>24. CASE ReloadWaits(c)
  <2>1. /\ timeouts' \in 0 .. MaxTimeouts
        /\ disturbed' \subseteq {"overlap", "reloads", "slow", "service", "hangup"}
    BY <1>0, <1>24, TimeoutType DEF ReloadWaits, PastType
  <2>. QED BY <1>0, <1>1, <1>24, <2>1
       DEF ReloadWaits, HostType, hostVars, PastType, pastVars, Stages
<1>25. CASE ReloadReplaces(c)
  <2>1. proc' \in [Pids -> Process] /\ fresh' \in [Clients -> Ids]
    BY <1>0, <1>25, SpawnedType DEF ReloadReplaces, HostType
  <2>. QED BY <1>0, <1>1, <1>25, <2>1, PastStays DEF ReloadReplaces, HostType, Stages
<1>26. CASE ReloadConfirms(c)
  <2>1. CmdType' /\ fresh' \in [Clients -> Ids]
    BY <1>0, <1>1, <1>2, <1>26, IdType DEF ReloadConfirms, HostType, Stages
  <2>. QED BY <1>0, <1>26, <2>1, PastStays DEF ReloadConfirms, HostType
<1>27. CASE ReloadRenames(c)
  <2>1. CmdType'
    BY <1>1, <1>2, <1>27 DEF ReloadRenames, Stages
  <2>2. /\ proc' \in [Pids -> Process] /\ session' \in Ids /\ fresh' \in [Clients -> Ids]
    BY <1>0, <1>27, HungUpType, IdType DEF ReloadRenames, HostType
  <2>3. disturbed' \subseteq {"overlap", "reloads", "slow", "service", "hangup"}
    BY <1>0, <1>27 DEF ReloadRenames, PastType, Disturbing
  <2>. QED BY <1>0, <1>27, <2>1, <2>2, <2>3
       DEF ReloadRenames, HostType, PastType, pastVars, boundVars
<1>. QED
  BY <1>4, <1>5, <1>6, <1>7, <1>8, <1>9, <1>10, <1>12, <1>13, <1>14, <1>15, <1>16, <1>17, <1>19,
     <1>20, <1>21, <1>22, <1>23, <1>24, <1>25, <1>26, <1>27, <1>28 DEF Command

(* The steps of the daemon.  *)
LEMMA DaemonTypeStep ==
    ASSUME TypeOK, NEW p \in Pids, Daemon(p)
    PROVE  TypeOK'
<1>0. HostType /\ CmdType /\ PastType /\ proc[p] \in Process
  BY TypeParts DEF HostType
<1>. SUFFICES HostType' /\ CmdType' /\ PastType'
  BY DEF TypeOK, HostType, CmdType, PastType, Commands, Stages
<1>1. ASSUME NEW r \in Process PROVE [proc EXCEPT ![p] = r] \in [Pids -> Process]
  BY <1>0 DEF HostType
<1>2. ASSUME DaemonOnly PROVE /\ CmdType' /\ UNCHANGED <<session, fresh, installed>>
                              /\ UNCHANGED <<asked, doubled, disturbed, commands, timeouts>>
  BY <1>0, <1>2 DEF DaemonOnly, CmdType
<1>3. [proc EXCEPT ![p] = Ended(@)] \in [Pids -> Process]
  <2>1. Ended(proc[p]) \in Process
    BY <1>0, ProcessType
  <2>. QED BY <1>1, <2>1
<1>4. CASE AcquireLock(p)
  <2>1. proc' \in [Pids -> Process]
    <3>1. [proc[p] EXCEPT !.phase = "locked", !.inode = Opened] \in Process
      BY <1>0, OpenedType DEF Process
    <3>2. Ended(proc[p]) \in Process
      BY <1>0, ProcessType
    <3>3. proc' = [proc EXCEPT ![p] = IF Locked(Opened) THEN Ended(proc[p])
                                ELSE [proc[p] EXCEPT !.phase = "locked", !.inode = Opened]]
      BY <1>0, <1>4 DEF AcquireLock, HostType
    <3>. QED BY <1>1, <3>1, <3>2, <3>3
  <2>2. path' \in Inodes \cup {0} /\ identity' \in [Inodes -> Ids]
    BY <1>4, OpenedType, OpenedIdentityType DEF AcquireLock
  <2>. QED BY <1>0, <1>2, <1>4, <2>1, <2>2 DEF AcquireLock, HostType, PastType
<1>5. CASE WriteIdentity(p)
  <2>1. proc' \in [Pids -> Process]
    <3>1. [proc[p] EXCEPT !.phase = "loading"] \in Process
      BY <1>0 DEF Process
    <3>. QED BY <1>1, <1>5, <3>1 DEF WriteIdentity
  <2>2. identity' \in [Inodes -> Ids]
    <3>1. Id(p, proc[p].born) \in Ids
      BY <1>0, IdType DEF Process
    <3>. QED BY <1>0, <1>5, <3>1 DEF WriteIdentity, HostType
  <2>. QED BY <1>0, <1>2, <1>5, <2>1, <2>2 DEF WriteIdentity, HostType, PastType
<1>6. CASE Load(p)
  <2>1. proc' \in [Pids -> Process]
    <3>1. [proc[p] EXCEPT !.phase = "serving", !.known = disk] \in Process
      BY <1>0 DEF Process, PastType
    <3>2. proc' = [proc EXCEPT ![p] = [proc[p] EXCEPT !.phase = "serving", !.known = disk]]
      BY <1>0, <1>6 DEF Load, HostType
    <3>. QED BY <1>1, <3>1, <3>2
  <2>2. doubled' \in BOOLEAN
    BY <1>0, <1>6 DEF Load, PastType
  <2>. QED BY <1>0, <1>6, <2>1, <2>2 DEF Load, HostType, CmdType, PastType, hostVars, boundVars
<1>7. ASSUME NEW e \in Edits, Accept(p, e) PROVE HostType' /\ CmdType' /\ PastType'
  <2>1. proc' \in [Pids -> Process]
    <3>1. [proc[p] EXCEPT !.known = @ \cup {e}] \in Process
      BY <1>0 DEF Process
    <3>2. proc' = [proc EXCEPT ![p] = [proc[p] EXCEPT !.known = @ \cup {e}]]
      BY <1>0, <1>7 DEF Accept, HostType
    <3>. QED BY <1>1, <3>1, <3>2
  <2>. QED BY <1>0, <1>2, <1>7, <2>1 DEF Accept, HostType, PastType
<1>8. CASE Save(p)
  <2>1. disk' \in SUBSET Edits
    BY <1>0, <1>8 DEF Save, Process
  <2>. QED BY <1>0, <1>2, <1>8, <2>1 DEF Save, HostType, PastType
<1>9. CASE FinalSave(p)
  <2>1. proc' \in [Pids -> Process] /\ disk' \in SUBSET Edits
    <3>1. [proc[p] EXCEPT !.phase = "ending"] \in Process
      BY <1>0 DEF Process
    <3>. QED BY <1>0, <1>1, <1>9, <3>1 DEF FinalSave, Process
  <2>. QED BY <1>0, <1>2, <1>9, <2>1 DEF FinalSave, HostType, PastType
<1>10. CASE Exit(p)
  BY <1>0, <1>2, <1>3, <1>10 DEF Exit, HostType, PastType
<1>11. CASE Crash(p)
  <2>1. crashes' \in 0 .. MaxCrashes /\ revive' \in BOOLEAN
    BY <1>0, <1>11, LifecycleAssumption DEF Crash, HostType, PastType
  <2>. QED BY <1>0, <1>2, <1>3, <1>11, <2>1 DEF Crash, HostType, PastType
<1>12. CASE Revive(p)
  <2>1. proc' \in [Pids -> Process]
    BY <1>12, SpawnedType DEF Revive
  <2>. QED BY <1>0, <1>2, <1>12, <2>1 DEF Revive, HostType, PastType
<1>13. CASE Recycle(p)
  <2>1. proc' \in [Pids -> Process]
    <3>1. CASE /\ proc[p].born < MaxBorn
               /\ proc' = [proc EXCEPT ![p] = [NoProcess EXCEPT !.kind = "other",
                                                               !.born = proc[p].born + 1]]
      <4>1. proc[p].born + 1 \in 0 .. MaxBorn
        BY <1>0, <3>1, LifecycleAssumption DEF Process
      <4>. QED BY <1>0, <1>1, <3>1, <4>1, ProcessType
    <3>. QED BY <1>3, <1>13, <3>1 DEF Recycle
  <2>. QED BY <1>0, <1>2, <1>13, <2>1 DEF Recycle, HostType, PastType
<1>. QED
  BY <1>4, <1>5, <1>6, <1>7, <1>8, <1>9, <1>10, <1>11, <1>12, <1>13 DEF Daemon

LEMMA TypeStep == TypeOK /\ [Next]_vars => TypeOK'
<1>1. ASSUME TypeOK, UNCHANGED vars PROVE TypeOK'
  BY <1>1 DEF TypeOK, vars, hostVars, historyVars, pastVars, boundVars
<1>. QED BY <1>1, CommandTypeStep, DaemonTypeStep DEF Next

-----------------------------------------------------------------------------
(* What a step makes of a process.  *)

Stays(q) == /\ proc'[q].kind = proc[q].kind /\ proc'[q].host = proc[q].host
            /\ proc'[q].born = proc[q].born /\ proc'[q].inode = proc[q].inode
Begun(q) == /\ proc[q].kind = "none" /\ proc'[q].kind = "daemon"
            /\ proc'[q].born = proc[q].born + 1 /\ proc'[q].inode = 0
            /\ proc'[q].phase = "spawned" /\ proc'[q].why = "none"
Died(q) == /\ proc'[q].kind = "none" /\ proc'[q].born = proc[q].born
           /\ proc'[q].inode = 0 /\ proc'[q].host = "direct" /\ proc'[q].phase = "spawned"
Told(q) == /\ proc[q].kind = "daemon" /\ proc[q].phase = "serving"
           /\ Stays(q) /\ proc'[q].phase = "saving" /\ proc'[q].known = proc[q].known

(* A signal leaves a process as it is, has a daemon that serves save and end, or is the
   end of a process that does not listen.  *)
Hit(q) == \/ proc'[q] = proc[q]
          \/ Told(q)
          \/ Died(q) /\ ~Live(q)

Became(q) == \/ Hit(q)
             \/ Begun(q)
             \/ Died(q) /\ crashed'

LEMMA EndedIs ==
    ASSUME TypeOK, NEW q \in Pids, proc'[q] = Ended(proc[q])
    PROVE  Died(q)
<1>1. Ended(proc[q]) \in Process
  BY ProcessType DEF TypeOK
<1>. QED BY <1>1 DEF Ended, NoProcess, Died, Process

LEMMA SignalledIs ==
    ASSUME TypeOK, NEW q \in Pids, NEW w \in {"stop", "handoff"},
           proc'[q] = Signalled(proc[q], w)
    PROVE  Hit(q) /\ (proc'[q].why \in {proc[q].why, w, "none"})
<1>1. proc[q] \in Process
  BY DEF TypeOK
<1>2. CASE proc[q].kind = "daemon" /\ proc[q].phase \in {"saving", "ending"}
  BY <1>2 DEF Signalled, Hit
<1>3. CASE proc[q].kind = "daemon" /\ proc[q].phase = "serving"
  <2>1. proc'[q] = [proc[q] EXCEPT !.phase = "saving", !.why = w]
    BY <1>3 DEF Signalled
  <2>. QED BY <1>1, <1>3, <2>1 DEF Process, Hit, Told, Stays
<1>4. CASE ~(proc[q].kind = "daemon" /\ proc[q].phase \in {"serving", "saving", "ending"})
  <2>1. proc'[q] = Ended(proc[q])
    BY <1>4 DEF Signalled
  <2>2. proc'[q].why = "none"
    BY <2>1 DEF Ended, NoProcess
  <2>. QED BY <1>4, <2>1, <2>2, EndedIs DEF Hit, Live
<1>. QED BY <1>2, <1>3, <1>4

LEMMA OneSignalled ==
    ASSUME TypeOK, NEW x, NEW w \in {"stop", "handoff"},
           proc' = [proc EXCEPT ![x] = Signalled(@, w)]
    PROVE  \A q \in Pids : Hit(q) /\ (proc'[q].why \in {proc[q].why, w, "none"})
<1>. SUFFICES ASSUME NEW q \in Pids
              PROVE  Hit(q) /\ (proc'[q].why \in {proc[q].why, w, "none"})
  OBVIOUS
<1>1. CASE q = x
  <2>1. proc'[q] = Signalled(proc[q], w)
    BY <1>1 DEF TypeOK
  <2>. QED BY <2>1, SignalledIs
<1>2. CASE q # x
  <2>1. proc'[q] = proc[q]
    BY <1>2 DEF TypeOK
  <2>. QED BY <2>1 DEF Hit
<1>. QED BY <1>1, <1>2

LEMMA SessionHungUp ==
    ASSUME TypeOK, NEW id, proc' = HungUp(id)
    PROVE  /\ \A q \in Pids : Hit(q)
           /\ ~Runs(id) => proc' = proc
           /\ Runs(id) => proc' = [proc EXCEPT ![id.pid] = Signalled(@, "stop")]
<1>1. CASE Runs(id)
  <2>1. proc' = [proc EXCEPT ![id.pid] = Signalled(@, "stop")]
    BY <1>1 DEF HungUp
  <2>. QED BY <1>1, <2>1, OneSignalled
<1>2. CASE ~Runs(id)
  BY <1>2 DEF HungUp, Hit
<1>. QED BY <1>1, <1>2

LEMMA OneSpawned ==
    ASSUME TypeOK, NEW p \in Pids, CanSpawn(p), NEW h \in {"direct", "tmux", "systemd"},
           proc' = Spawned(p, h)
    PROVE  /\ Begun(p) /\ proc'[p].host = h /\ NewId(p) = IdOf(p)'
           /\ \A q \in Pids \ {p} : proc'[q] = proc[q]
<1>1. proc[p] \in Process /\ proc[p].born \in Nat
  BY DEF TypeOK, Process
<1>2. proc'[p] = [NoProcess EXCEPT !.kind = "daemon", !.host = h, !.born = proc[p].born + 1]
  BY DEF Spawned, TypeOK
<1>3. \A q \in Pids \ {p} : proc'[q] = proc[q]
  BY DEF Spawned, TypeOK
<1>. QED BY <1>1, <1>2, <1>3 DEF NoProcess, Begun, CanSpawn, NewId, IdOf, Id

LEMMA CommandProcesses ==
    ASSUME TypeOK, NEW c \in Clients, Command(c)
    PROVE  \A q \in Pids : Became(q)
<1>1. ASSUME UNCHANGED proc PROVE \A q \in Pids : Became(q)
  BY <1>1 DEF Became, Hit
<1>2. ASSUME NEW p \in Pids, CanSpawn(p), NEW h \in {"direct", "tmux", "systemd"},
             proc' = Spawned(p, h)
      PROVE  \A q \in Pids : Became(q)
  <2>1. Begun(p) /\ \A q \in Pids \ {p} : proc'[q] = proc[q]
    BY <1>2, OneSpawned
  <2>. QED BY <2>1 DEF Became, Hit
<1>3. ASSUME NEW op \in Ops, ServiceStarts(c, op) PROVE \A q \in Pids : Became(q)
  BY <1>1, <1>2, <1>3 DEF ServiceStarts
<1>4. ASSUME NEW op \in Ops, ServiceStops(c, op) PROVE \A q \in Pids : Became(q)
  <2>1. ASSUME NEW q \in Pids PROVE Hit(q)
    <3>1. proc'[q] = IF proc[q].kind = "daemon" /\ proc[q].host = "systemd"
                     THEN Signalled(proc[q], "stop") ELSE proc[q]
      BY <1>4 DEF ServiceStops
    <3>. QED BY <3>1, SignalledIs DEF Hit
  <2>. QED BY <2>1 DEF Became
<1>5. ASSUME NEW op \in Ops, RunsCommand(c, op) PROVE \A q \in Pids : Became(q)
  BY <1>1, <1>5 DEF RunsCommand
<1>6. CASE ServiceStopped(c) \/ UpAwaits(c) \/ ReloadWaits(c) \/ ReloadConfirms(c)
  BY <1>1, <1>6 DEF ServiceStopped, UpAwaits, ReloadWaits, ReloadConfirms
<1>7. CASE \/ ProbeLock(c) \/ ProbeReleases(c) \/ ProbeUnlinks(c) \/ Identify(c)
           \/ UpChecks(c) \/ DownVerifies(c) \/ ReloadFindsPane(c)
  BY <1>1, <1>7 DEF ProbeLock, ProbeReleases, ProbeUnlinks, Identify, UpChecks, DownVerifies,
                    ReloadFindsPane, Only
<1>8. CASE UpInTmux(c) \/ UpDirect(c) \/ ReloadReplaces(c)
  BY <1>1, <1>2, <1>8 DEF UpInTmux, UpDirect, ReloadReplaces
<1>9. CASE DownTerminates(c)
  BY <1>9, OneSignalled DEF DownTerminates, Became
<1>10. CASE DownWaits(c)
  <2>1. CASE proc' = [proc EXCEPT ![cmd[c].target.pid] = Ended(@)] /\ crashed'
    <3>1. \A q \in Pids : proc'[q] = proc[q] \/ proc'[q] = Ended(proc[q])
      BY <2>1 DEF TypeOK
    <3>. QED BY <2>1, <3>1, EndedIs DEF Became, Hit
  <2>. QED BY <1>1, <1>10, <2>1 DEF DownWaits
<1>11. CASE DownHangsUp(c)
  BY <1>11, SessionHungUp DEF DownHangsUp, Became
<1>12. CASE ReloadSignals(c) \/ ReloadHangsUp(c)
  BY <1>12, SessionHungUp, OneSignalled DEF ReloadSignals, ReloadHangsUp, Became
<1>13. CASE ReloadRenames(c)
  BY <1>1, <1>13, SessionHungUp DEF ReloadRenames, Became
<1>. QED BY <1>3, <1>4, <1>5, <1>6, <1>7, <1>8, <1>9, <1>10, <1>11, <1>12, <1>13 DEF Command

(* What a daemon makes of itself, and what else happens to a process.  *)
Works(p) == \/ AcquireLock(p) /\ ~Locked(Opened)
            \/ WriteIdentity(p) \/ Load(p)
            \/ \E e \in Edits : Accept(p, e)
            \/ Save(p) \/ FinalSave(p)

LEMMA DaemonProcesses ==
    ASSUME TypeOK, NEW p \in Pids, Daemon(p)
    PROVE  /\ \A q \in Pids \ {p} : proc'[q] = proc[q]
           /\ \/ Works(p)
              \/ (AcquireLock(p) \/ Exit(p) \/ Crash(p)) /\ proc[p].kind = "daemon" /\ Died(p)
              \/ Revive(p) /\ Begun(p) /\ proc'[p].host = "systemd"
              \/ /\ Recycle(p) /\ proc[p].kind = "none" /\ proc'[p].kind = "other"
                 /\ proc'[p].born = proc[p].born + 1 /\ proc'[p].inode = 0
                 /\ proc'[p].host = "direct" /\ proc'[p].phase = "spawned"
              \/ Recycle(p) /\ proc[p].kind = "other" /\ Died(p)
<1>1. proc \in [Pids -> Process] /\ proc[p] \in Process
  BY DEF TypeOK
<1>2. ASSUME proc' = [proc EXCEPT ![p] = Ended(@)]
      PROVE  Died(p) /\ \A q \in Pids \ {p} : proc'[q] = proc[q]
  <2>1. proc'[p] = Ended(proc[p]) /\ \A q \in Pids \ {p} : proc'[q] = proc[q]
    BY <1>1, <1>2
  <2>. QED BY <2>1, EndedIs
<1>3. CASE AcquireLock(p)
  <2>1. CASE Locked(Opened)
    <3>1. proc' = [proc EXCEPT ![p] = Ended(@)]
      BY <1>3, <2>1 DEF AcquireLock
    <3>. QED BY <1>2, <1>3, <3>1 DEF AcquireLock
  <2>2. CASE ~Locked(Opened)
    <3>1. \A q \in Pids \ {p} : proc'[q] = proc[q]
      BY <1>1, <1>3, <2>2 DEF AcquireLock
    <3>. QED BY <1>3, <2>2, <3>1 DEF Works
  <2>. QED BY <2>1, <2>2
<1>4. CASE WriteIdentity(p)
  BY <1>1, <1>4 DEF WriteIdentity, Works
<1>5. CASE Load(p)
  BY <1>1, <1>5 DEF Load, Works
<1>6. ASSUME NEW e \in Edits, Accept(p, e)
      PROVE  Works(p) /\ \A q \in Pids \ {p} : proc'[q] = proc[q]
  BY <1>1, <1>6 DEF Accept, Works
<1>7. CASE Save(p)
  BY <1>1, <1>7 DEF Save, Works
<1>8. CASE FinalSave(p)
  BY <1>1, <1>8 DEF FinalSave, Works
<1>9. CASE Exit(p)
  BY <1>2, <1>9 DEF Exit
<1>10. CASE Crash(p)
  BY <1>2, <1>10 DEF Crash
<1>11. CASE Revive(p)
  <2>1. Begun(p) /\ proc'[p].host = "systemd" /\ \A q \in Pids \ {p} : proc'[q] = proc[q]
    BY <1>11, OneSpawned DEF Revive
  <2>. QED BY <1>11, <2>1
<1>12. CASE Recycle(p)
  <2>1. CASE /\ proc[p].kind = "none"
             /\ proc' = [proc EXCEPT ![p] = [NoProcess EXCEPT !.kind = "other",
                                                             !.born = proc[p].born + 1]]
    <3>1. /\ proc'[p] = [NoProcess EXCEPT !.kind = "other", !.born = proc[p].born + 1]
          /\ \A q \in Pids \ {p} : proc'[q] = proc[q]
      BY <1>1, <2>1
    <3>2. /\ proc'[p].kind = "other" /\ proc'[p].born = proc[p].born + 1
          /\ proc'[p].inode = 0 /\ proc'[p].host = "direct" /\ proc'[p].phase = "spawned"
      BY <3>1 DEF NoProcess
    <3>. QED BY <1>12, <2>1, <3>1, <3>2
  <2>2. CASE proc[p].kind = "other" /\ proc' = [proc EXCEPT ![p] = Ended(@)]
    BY <1>2, <1>12, <2>2
  <2>. QED BY <1>12, <2>1, <2>2 DEF Recycle
<1>. QED BY <1>3, <1>4, <1>5, <1>6, <1>7, <1>8, <1>9, <1>10, <1>11, <1>12 DEF Daemon

(* Steps of the daemon at work: its phases, and what it has open.  *)
LEMMA WorksIs ==
    ASSUME TypeOK, NEW p \in Pids, Works(p)
    PROVE  /\ proc[p].kind = "daemon" /\ proc'[p].kind = "daemon"
           /\ proc'[p].host = proc[p].host /\ proc'[p].born = proc[p].born
           /\ proc'[p].why = proc[p].why
           /\ AcquireLock(p) /\ ~Locked(Opened) =>
                 /\ proc[p].host = "direct" /\ proc[p].phase = "spawned"
                 /\ proc'[p].phase = "locked" /\ proc'[p].inode = Opened
                 /\ proc'[p].known = proc[p].known
           /\ ~AcquireLock(p) => proc'[p].inode = proc[p].inode
           /\ WriteIdentity(p) => proc[p].phase = "locked" /\ proc'[p].phase = "loading"
           /\ Load(p) => /\ proc'[p].phase = "serving" /\ proc'[p].known = disk
                         /\ proc[p].phase = IF proc[p].host = "direct" THEN "loading"
                                                                       ELSE "spawned"
           /\ \A e \in Edits : Accept(p, e) =>
                 /\ Live(p) /\ proc'[p].phase = proc[p].phase
                 /\ proc'[p].known = proc[p].known \cup {e}
           /\ Save(p) => proc[p].phase = "serving" /\ proc'[p] = proc[p]
           /\ FinalSave(p) => /\ proc[p].phase = "saving" /\ proc'[p].phase = "ending"
                              /\ proc'[p].known = proc[p].known
<1>1. proc \in [Pids -> Process] /\ proc[p] \in Process
  BY DEF TypeOK
<1>2. AcquireLock(p) /\ ~Locked(Opened) =>
         proc'[p] = [proc[p] EXCEPT !.phase = "locked", !.inode = Opened]
  BY <1>1 DEF AcquireLock
<1>3. WriteIdentity(p) => proc'[p] = [proc[p] EXCEPT !.phase = "loading"]
  BY <1>1 DEF WriteIdentity
<1>4. Load(p) => proc'[p] = [proc[p] EXCEPT !.phase = "serving", !.known = disk]
  BY <1>1 DEF Load
<1>5. \A e \in Edits : Accept(p, e) => proc'[p] = [proc[p] EXCEPT !.known = @ \cup {e}]
  BY <1>1 DEF Accept
<1>6. Save(p) => proc'[p] = proc[p]
  BY DEF Save
<1>7. FinalSave(p) => proc'[p] = [proc[p] EXCEPT !.phase = "ending"]
  BY <1>1 DEF FinalSave
<1>8. AcquireLock(p) => proc[p].kind = "daemon" /\ proc[p].host = "direct"
                        /\ proc[p].phase = "spawned"
  BY DEF AcquireLock
<1>9. WriteIdentity(p) => proc[p].kind = "daemon" /\ proc[p].phase = "locked"
  BY DEF WriteIdentity
<1>10. Load(p) => /\ proc[p].kind = "daemon"
                  /\ proc[p].phase = IF proc[p].host = "direct" THEN "loading" ELSE "spawned"
  BY DEF Load
<1>11. \A e \in Edits : Accept(p, e) =>
          /\ proc[p].kind = "daemon" /\ proc[p].phase \in {"serving", "saving", "ending"}
          /\ Live(p)
  BY DEF Accept, Live
<1>12. Save(p) => proc[p].kind = "daemon" /\ proc[p].phase = "serving"
  BY DEF Save
<1>13. FinalSave(p) => proc[p].kind = "daemon" /\ proc[p].phase = "saving"
  BY DEF FinalSave
<1>14. ASSUME NEW e \in Edits, Accept(p, e)
       PROVE  /\ proc'[p].kind = "daemon" /\ proc'[p].host = proc[p].host
              /\ proc'[p].born = proc[p].born /\ proc'[p].why = proc[p].why
              /\ proc'[p].inode = proc[p].inode /\ proc'[p].phase = proc[p].phase
              /\ proc'[p].known = proc[p].known \cup {e}
  BY <1>1, <1>5, <1>11, <1>14 DEF Process
<1>15. CASE AcquireLock(p) /\ ~Locked(Opened)
  <2>1. /\ proc'[p].host = proc[p].host /\ proc'[p].born = proc[p].born
        /\ proc'[p].why = proc[p].why /\ proc'[p].kind = "daemon"
        /\ proc'[p].phase = "locked" /\ proc'[p].inode = Opened
        /\ proc'[p].known = proc[p].known
    BY <1>1, <1>2, <1>8, <1>15 DEF Process
  <2>. QED BY <1>8, <1>9, <1>10, <1>11, <1>12, <1>13, <1>15, <2>1
<1>16. CASE WriteIdentity(p)
  <2>1. /\ proc'[p].host = proc[p].host /\ proc'[p].born = proc[p].born
        /\ proc'[p].why = proc[p].why /\ proc'[p].kind = "daemon"
        /\ proc'[p].phase = "loading" /\ proc'[p].inode = proc[p].inode
    BY <1>1, <1>3, <1>9, <1>16 DEF Process
  <2>. QED BY <1>8, <1>9, <1>10, <1>11, <1>12, <1>13, <1>16, <2>1
<1>17. CASE Load(p)
  <2>1. /\ proc'[p].host = proc[p].host /\ proc'[p].born = proc[p].born
        /\ proc'[p].why = proc[p].why /\ proc'[p].kind = "daemon"
        /\ proc'[p].phase = "serving" /\ proc'[p].inode = proc[p].inode
        /\ proc'[p].known = disk
    BY <1>1, <1>4, <1>10, <1>17 DEF Process
  <2>2. ~WriteIdentity(p) \/ proc[p].phase = "locked"
    BY <1>9
  <2>. QED BY <1>8, <1>9, <1>10, <1>11, <1>12, <1>13, <1>17, <2>1
<1>18. CASE Save(p)
  BY <1>6, <1>8, <1>9, <1>10, <1>11, <1>12, <1>13, <1>14, <1>18
<1>19. CASE FinalSave(p)
  <2>1. /\ proc'[p].host = proc[p].host /\ proc'[p].born = proc[p].born
        /\ proc'[p].why = proc[p].why /\ proc'[p].kind = "daemon"
        /\ proc'[p].phase = "ending" /\ proc'[p].inode = proc[p].inode
        /\ proc'[p].known = proc[p].known
    BY <1>1, <1>7, <1>13, <1>19 DEF Process
  <2>2. ASSUME NEW e \in Edits PROVE ~Accept(p, e)
    BY <1>13, <1>14, <1>19, <2>1
  <2>. QED BY <1>8, <1>9, <1>10, <1>12, <1>13, <1>19, <2>1, <2>2
<1>20. ASSUME NEW e \in Edits, Accept(p, e)
       PROVE  ~AcquireLock(p) /\ ~WriteIdentity(p) /\ ~Load(p) /\ ~FinalSave(p)
  <2>1. ~FinalSave(p)
    <3>1. ASSUME FinalSave(p) PROVE proc'[p].phase = "ending" /\ proc[p].phase = "saving"
      BY <1>1, <1>7, <1>13, <3>1 DEF Process
    <3>. QED BY <1>14, <1>20, <3>1
  <2>. QED BY <1>8, <1>9, <1>10, <1>11, <1>20, <2>1
<1>21. CASE \E e \in Edits : Accept(p, e)
  BY <1>6, <1>11, <1>12, <1>14, <1>20, <1>21
<1>. QED BY <1>15, <1>16, <1>17, <1>18, <1>19, <1>21 DEF Works

-----------------------------------------------------------------------------
(* What a daemon has open.  *)
LEMMA ProcessesStep ==
    ASSUME TypeOK, ProcessesSound, Next
    PROVE  ProcessesSound'
<1>. DEFINE Open(r) == /\ r.kind # "daemon" => r.inode = 0
                       /\ r.host # "direct" => r.inode = 0
                       /\ r.phase = "spawned" => r.inode = 0
<1>1. \A q \in Pids : Open(proc[q])
  BY DEF ProcessesSound
<1>2. ASSUME NEW c \in Clients, Command(c), NEW q \in Pids PROVE Open(proc'[q])
  <2>1. Became(q)
    BY <1>2, CommandProcesses
  <2>. QED BY <1>1, <2>1 DEF Became, Hit, Told, Stays, Begun, Died
<1>3. ASSUME NEW p \in Pids, Daemon(p), NEW q \in Pids PROVE Open(proc'[q])
  <2>1. CASE q # p
    BY <1>1, <1>3, <2>1, DaemonProcesses
  <2>2. CASE Works(p)
    <3>1. CASE AcquireLock(p) /\ ~Locked(Opened)
      BY <1>1, <2>1, <2>2, <3>1, WorksIs
    <3>2. CASE WriteIdentity(p) \/ Load(p) \/ FinalSave(p) \/ Save(p)
      <4>1. ~AcquireLock(p)
        BY <3>2 DEF AcquireLock, WriteIdentity, Load, FinalSave, Save
      <4>. QED BY <1>1, <2>1, <2>2, <3>2, <4>1, WorksIs
    <3>3. ASSUME NEW e \in Edits, Accept(p, e) PROVE Open(proc'[p])
      <4>1. ~AcquireLock(p)
        BY <3>3 DEF AcquireLock, Accept
      <4>. QED BY <1>1, <2>2, <3>3, <4>1, WorksIs
    <3>. QED BY <2>1, <2>2, <3>1, <3>2, <3>3 DEF Works
  <2>. QED BY <1>1, <1>3, <2>1, <2>2, DaemonProcesses DEF Died, Begun
<1>. QED BY <1>2, <1>3 DEF Next, ProcessesSound

(* A process that lives on is the one it was, and its pid never goes back.  *)
LEMMA BornGrows ==
    ASSUME TypeOK, Next, NEW q \in Pids
    PROVE  /\ proc[q].born \in Nat /\ proc'[q].born \in Nat /\ proc[q].born <= proc'[q].born
           /\ proc'[q].kind # "none" /\ proc'[q].born = proc[q].born
              => proc'[q].kind = proc[q].kind /\ proc'[q].host = proc[q].host
<1>1. proc[q].born \in Nat
  BY DEF TypeOK, Process
<1>2. ASSUME Became(q) PROVE /\ proc'[q].born \in {proc[q].born, proc[q].born + 1}
                             /\ proc'[q].kind # "none" /\ proc'[q].born = proc[q].born
                                => proc'[q].kind = proc[q].kind /\ proc'[q].host = proc[q].host
  BY <1>1, <1>2 DEF Became, Hit, Told, Stays, Begun, Died
<1>3. ASSUME NEW p \in Pids, Daemon(p)
      PROVE /\ proc'[q].born \in {proc[q].born, proc[q].born + 1}
            /\ proc'[q].kind # "none" /\ proc'[q].born = proc[q].born
                => proc'[q].kind = proc[q].kind /\ proc'[q].host = proc[q].host
  <2>1. CASE q # p
    BY <1>3, <2>1, DaemonProcesses
  <2>2. CASE Works(p)
    BY <2>1, <2>2, WorksIs
  <2>. QED BY <1>1, <1>3, <2>1, <2>2, DaemonProcesses DEF Died, Begun
<1>. QED BY <1>1, <1>2, <1>3, CommandProcesses DEF Next

(* A file is written to by the daemon that has it open; a new one is empty.  *)
LEMMA IdentityStep ==
    ASSUME TypeOK, ProcessesSound, IdentitySound, Next
    PROVE  IdentitySound'
<1>. DEFINE Its(i, p, r) == /\ identity[i].born <= r.born
                            /\ identity[i].born = r.born /\ r.kind # "none"
                               => /\ r.kind = "daemon" /\ r.inode = i
                                  /\ r.phase \notin {"spawned", "locked"}
<1>0. \A i \in Inodes, p \in Pids : identity[i].pid = p => Its(i, p, proc[p])
  BY DEF IdentitySound, ProcessAlive
<1>1. \A i \in Inodes : identity[i].born \in Nat
  BY DEF TypeOK, Ids
<1>2. ASSUME NEW i \in Inodes, NEW q \in Pids, identity[i].pid = q, Became(q)
      PROVE  Its(i, q, proc'[q])
  <2>1. Its(i, q, proc[q]) /\ proc[q].born \in Nat /\ identity[i].born \in Nat
    BY <1>0, <1>1, <1>2 DEF TypeOK, Process
  <2>. HIDE DEF Its
  <2>2. CASE Begun(q) \/ Died(q)
    BY <2>1, <2>2 DEF Begun, Died, Its
  <2>3. CASE proc'[q] = proc[q]
    BY <2>1, <2>3
  <2>4. CASE Told(q)
    BY <2>1, <2>4 DEF Told, Stays, Its
  <2>. QED BY <1>2, <2>2, <2>3, <2>4 DEF Became, Hit
<1>3. ASSUME NEW p \in Pids, Daemon(p), ~WriteIdentity(p),
             NEW i \in Inodes, NEW q \in Pids, identity[i].pid = q
      PROVE  Its(i, q, proc'[q])
  <2>1. Its(i, q, proc[q]) /\ proc[q].born \in Nat /\ identity[i].born \in Nat
    BY <1>0, <1>1, <1>3 DEF TypeOK, Process
  <2>. HIDE DEF Its
  <2>2. CASE q # p
    BY <1>3, <2>1, <2>2, DaemonProcesses
  <2>3. CASE Works(p) /\ q = p
    <3>1. CASE AcquireLock(p)
      <4>1. ~WriteIdentity(p) /\ ~Load(p) /\ ~Save(p) /\ ~FinalSave(p)
            /\ \A e \in Edits : ~Accept(p, e)
        BY <3>1, Zenon DEF AcquireLock, WriteIdentity, Load, Save, FinalSave, Accept
      <4>2. proc[p].kind = "daemon" /\ proc[p].phase = "spawned" /\ proc'[p].born = proc[p].born
        BY <2>3, <3>1, WorksIs DEF AcquireLock
      <4>. QED BY <2>1, <2>3, <4>2 DEF Its
    <3>2. CASE ~AcquireLock(p)
      <4>1. proc'[p].inode = proc[p].inode /\ proc'[p].kind = "daemon" /\ proc[p].kind = "daemon"
            /\ proc'[p].born = proc[p].born
        BY <2>3, <3>2, WorksIs
      <4>2. proc'[p].phase \in {"serving", "saving", "ending"}
        BY <1>3, <2>3, <3>2, WorksIs DEF Works, Live
      <4>. QED BY <2>1, <2>3, <4>1, <4>2 DEF Its
    <3>. QED BY <3>1, <3>2
  <2>. QED BY <1>3, <2>1, <2>2, <2>3, DaemonProcesses DEF Died, Begun, Its
<1>4. ASSUME NEW i \in Inodes, NEW q \in Pids, OpenedIdentity[i].pid = q
      PROVE  OpenedIdentity[i] = identity[i]
  BY <1>4, IdType, LifecycleAssumption DEF OpenedIdentity, TypeOK
<1>5. ASSUME NEW c \in Clients, Command(c) PROVE IdentitySound'
  <2>1. identity' = identity \/ identity' = OpenedIdentity
    BY <1>5 DEF Command, ServiceStarts, ServiceStops, RunsCommand, Begin, ServiceStopped, Only,
       ProbeLock, ProbeReleases, ProbeUnlinks, Identify, UpChecks, UpInTmux, UpDirect, UpAwaits,
       DownVerifies, DownTerminates, DownWaits, DownHangsUp, ReloadFindsPane, ReloadHangsUp,
       ReloadSignals, ReloadWaits, ReloadReplaces, ReloadConfirms, ReloadRenames, hostVars
  <2>2. \A i \in Inodes, q \in Pids : identity'[i].pid = q => identity'[i] = identity[i]
    BY <1>4, <2>1
  <2>. QED BY <1>2, <1>5, <2>2, CommandProcesses DEF IdentitySound, ProcessAlive
<1>6. ASSUME NEW p \in Pids, Daemon(p), ~WriteIdentity(p) PROVE IdentitySound'
  <2>1. identity' = identity \/ identity' = OpenedIdentity
    BY <1>6 DEF Daemon, AcquireLock, Load, Accept, Save, FinalSave, Exit, Crash, Revive, Recycle,
                hostVars
  <2>2. \A i \in Inodes, q \in Pids : identity'[i].pid = q => identity'[i] = identity[i]
    BY <1>4, <2>1
  <2>. QED BY <1>3, <1>6, <2>2 DEF IdentitySound, ProcessAlive
<1>7. ASSUME NEW p \in Pids, WriteIdentity(p) PROVE IdentitySound'
  <2>. SUFFICES ASSUME NEW i \in Inodes, NEW q \in Pids, identity'[i].pid = q
                PROVE  /\ identity'[i].born <= proc'[q].born
                       /\ identity'[i].born = proc'[q].born /\ proc'[q].kind # "none"
                          => /\ proc'[q].kind = "daemon" /\ proc'[q].inode = i
                             /\ proc'[q].phase \notin {"spawned", "locked"}
    BY DEF IdentitySound, ProcessAlive
  <2>1. /\ proc[p].kind = "daemon" /\ proc[p].phase = "locked"
        /\ proc'[p] = [proc[p] EXCEPT !.phase = "loading"]
        /\ \A r \in Pids \ {p} : proc'[r] = proc[r]
    BY <1>7 DEF WriteIdentity, TypeOK
  <2>2. /\ proc'[p].born = proc[p].born /\ proc'[p].kind = "daemon"
        /\ proc'[p].inode = proc[p].inode /\ proc'[p].phase = "loading" /\ proc[p].born \in Nat
    BY <2>1 DEF TypeOK, Process
  <2>3. CASE i = proc[p].inode
    <3>1. identity'[i] = Id(p, proc[p].born)
      BY <1>7, <2>3 DEF WriteIdentity, TypeOK
    <3>. QED BY <2>2, <2>3, <3>1 DEF Id
  <2>4. CASE i # proc[p].inode
    <3>1. identity'[i] = identity[i]
      BY <1>7, <2>4 DEF WriteIdentity, TypeOK
    <3>2. Its(i, q, proc[q])
      BY <1>0, <3>1
    <3>. QED BY <2>1, <2>2, <2>4, <3>1, <3>2
  <2>. QED BY <2>3, <2>4
<1>. QED BY <1>5, <1>6, <1>7 DEF Next

(* The daemon of a session is one that was started.  *)
LEMMA SessionStep ==
    ASSUME TypeOK, SessionSound, Next
    PROVE  SessionSound'
<1>. DEFINE Past(id) == \A q \in Pids : id.pid = q => id.born <= proc[q].born
            Old(id) == id = NoSession \/ (id \in Ids /\ Past(id))
            New(id) == \E p \in Pids, h \in {"direct", "tmux", "systemd"} :
                          CanSpawn(p) /\ proc' = Spawned(p, h) /\ id = NewId(p)
<1>1. Old(session) /\ \A d \in Clients : Old(fresh[d])
  BY DEF SessionSound, TypeOK
<1>2. ASSUME NEW id, Old(id) \/ New(id), NEW q \in Pids, id.pid = q
      PROVE  id.born <= proc'[q].born
  <2>1. CASE New(id)
    <3>1. PICK p \in Pids, h \in {"direct", "tmux", "systemd"} :
             CanSpawn(p) /\ proc' = Spawned(p, h) /\ id = NewId(p)
      BY <2>1
    <3>2. NewId(p) = IdOf(p)'
      BY <3>1, OneSpawned
    <3>3. id.pid = p /\ id.born = proc'[p].born
      BY <3>1, <3>2 DEF IdOf, Id
    <3>4. proc'[p].born \in Nat
      BY BornGrows
    <3>. QED BY <1>2, <3>3, <3>4
  <2>2. CASE Old(id)
    <3>1. id # NoSession
      BY <1>2, IdType, LifecycleAssumption
    <3>2. id.born \in Nat /\ id.born <= proc[q].born
      BY <1>2, <2>2, <3>1 DEF Ids
    <3>. QED BY <3>2, BornGrows
  <2>. QED BY <1>2, <2>1, <2>2
<1>. HIDE DEF Old, New
<1>3. Old(NoSession)
  BY DEF Old
<1>4. ASSUME NEW p \in Pids, NEW h \in {"direct", "tmux", "systemd"}, CanSpawn(p),
             proc' = Spawned(p, h)
      PROVE  New(NewId(p))
  BY <1>4 DEF New
<1>5. ASSUME NEW c \in Clients, Command(c)
      PROVE  /\ Old(session') \/ New(session')
             /\ \A d \in Clients : Old(fresh'[d]) \/ New(fresh'[d])
  <2>1. ASSUME NEW id, Old(id) \/ New(id), fresh' = [fresh EXCEPT ![c] = id]
        PROVE  \A d \in Clients : Old(fresh'[d]) \/ New(fresh'[d])
    BY <1>1, <2>1 DEF TypeOK
  <2>2. CASE UNCHANGED <<session, fresh>>
    BY <1>1, <2>2
  <2>3. CASE UpInTmux(c)
    BY <1>1, <1>4, <2>3 DEF UpInTmux
  <2>4. CASE DownHangsUp(c) \/ ReloadHangsUp(c)
    BY <1>1, <1>3, <2>4 DEF DownHangsUp, ReloadHangsUp
  <2>5. CASE ReloadReplaces(c)
    <3>1. PICK p \in Pids : /\ CanSpawn(p) /\ proc' = Spawned(p, "tmux")
                            /\ fresh' = [fresh EXCEPT ![c] = NewId(p)]
      BY <2>5 DEF ReloadReplaces
    <3>. QED BY <1>1, <1>4, <2>1, <2>5, <3>1 DEF ReloadReplaces
  <2>6. CASE ReloadConfirms(c) \/ ReloadRenames(c)
    BY <1>1, <1>3, <2>1, <2>6 DEF ReloadConfirms, ReloadRenames
  <2>. QED BY <1>5, <2>2, <2>3, <2>4, <2>5, <2>6
       DEF Command, ServiceStarts, ServiceStops, RunsCommand, Begin, ServiceStopped, Only,
           ProbeLock, ProbeReleases, ProbeUnlinks, Identify, UpChecks, UpDirect, UpAwaits,
           DownVerifies, DownTerminates, DownWaits, ReloadFindsPane, ReloadSignals,
           ReloadWaits, hostVars
<1>6. ASSUME NEW p \in Pids, Daemon(p) PROVE UNCHANGED <<session, fresh>>
  BY <1>6 DEF Daemon, AcquireLock, WriteIdentity, Load, Accept, Save, FinalSave, Exit, Crash,
              Revive, Recycle, DaemonOnly, hostVars
<1>7. /\ Old(session') \/ New(session')
      /\ \A d \in Clients : Old(fresh'[d]) \/ New(fresh'[d])
  BY <1>1, <1>5, <1>6 DEF Next
<1>. QED BY <1>2, <1>7 DEF SessionSound

-----------------------------------------------------------------------------
(* What daemons know.  No command loads, accepts or saves anything.  *)
LEMMA CommandHistory ==
    ASSUME NEW c \in Clients, Command(c)
    PROVE  UNCHANGED <<disk, accepted, late, doubled, job, crashes>> /\ (crashed => crashed')
<1>. DEFINE Same == UNCHANGED <<disk, accepted, late, doubled, job, crashes>> /\ (crashed => crashed')
<1>1. ASSUME NEW op \in Ops, Begin(c, op) PROVE Same
  BY <1>1 DEF Begin
<1>2. ASSUME NEW v, Only(v) PROVE Same
  BY <1>2 DEF Only, historyVars, pastVars, boundVars
<1>3. ASSUME UNCHANGED <<disk, job, pastVars, crashes>> PROVE Same
  BY <1>3 DEF pastVars
<1>4. ASSUME UNCHANGED <<disk, job, historyVars, boundVars>> PROVE Same
  BY <1>4 DEF historyVars, pastVars, boundVars
<1>5. CASE DownWaits(c)
  BY <1>5 DEF DownWaits
<1>6. CASE \/ UpAwaits(c) \/ ReloadWaits(c) \/ DownHangsUp(c) \/ ReloadHangsUp(c)
           \/ ReloadRenames(c)
  BY <1>3, <1>6 DEF UpAwaits, ReloadWaits, DownHangsUp, ReloadHangsUp, ReloadRenames, boundVars
<1>7. CASE \/ ProbeLock(c) \/ ProbeReleases(c) \/ ProbeUnlinks(c) \/ Identify(c)
           \/ UpChecks(c) \/ DownVerifies(c) \/ ReloadFindsPane(c)
  BY <1>2, <1>7 DEF ProbeLock, ProbeReleases, ProbeUnlinks, Identify, UpChecks, DownVerifies,
                    ReloadFindsPane
<1>8. CASE \/ ServiceStopped(c) \/ UpInTmux(c) \/ UpDirect(c) \/ DownTerminates(c)
           \/ ReloadSignals(c) \/ ReloadReplaces(c) \/ ReloadConfirms(c)
  BY <1>4, <1>8 DEF ServiceStopped, UpInTmux, UpDirect, DownTerminates, ReloadSignals,
                    ReloadReplaces, ReloadConfirms
<1>. QED BY <1>1, <1>5, <1>6, <1>7, <1>8 DEF Command, ServiceStarts, ServiceStops, RunsCommand

LEMMA KnowledgeStep ==
    ASSUME TypeOK, KnowledgeSound, Next
    PROVE  KnowledgeSound'
<1>. SUFFICES ASSUME ~doubled', ~crashed' PROVE KnowledgeSound'
  BY DEF KnowledgeSound
<1>1. ASSUME NEW c \in Clients, Command(c) PROVE KnowledgeSound'
  <2>1. UNCHANGED <<disk, Promised, doubled>> /\ ~crashed
    BY <1>1, CommandHistory DEF Promised
  <2>2. ASSUME NEW q \in Pids
        PROVE  /\ Live(q)' <=> Live(q)
               /\ Live(q) => /\ proc'[q].known = proc[q].known
                             /\ proc'[q].phase = "ending" <=> proc[q].phase = "ending"
    <3>1. Hit(q) \/ Begun(q)
      BY <1>1, CommandProcesses DEF Became
    <3>2. CASE Begun(q)
      BY <3>2 DEF Begun, Live
    <3>3. CASE proc'[q] = proc[q]
      BY <3>3 DEF Live
    <3>4. CASE Told(q)
      BY <3>4 DEF Told, Stays, Live
    <3>5. CASE Died(q) /\ ~Live(q)
      BY <3>5 DEF Died, Live
    <3>. QED BY <3>1, <3>2, <3>3, <3>4, <3>5 DEF Hit
  <2>. QED BY <2>1, <2>2 DEF KnowledgeSound
<1>2. ASSUME NEW p \in Pids, Daemon(p) PROVE KnowledgeSound'
  <2>1. ~doubled /\ ~crashed
    <3>1. ASSUME DaemonOnly, UNCHANGED crashed PROVE ~doubled /\ ~crashed
      BY <3>1 DEF DaemonOnly
    <3>2. CASE Load(p)
      BY <3>2 DEF Load
    <3>3. ASSUME NEW e \in Edits, Accept(p, e) PROVE ~doubled /\ ~crashed
      BY <3>1, <3>3 DEF Accept
    <3>. QED BY <1>2, <3>1, <3>2, <3>3
         DEF Daemon, AcquireLock, WriteIdentity, Save, FinalSave, Exit, Crash, Revive, Recycle
  <2>2. /\ \A q, r \in Pids : Live(q) /\ Live(r) => q = r
        /\ (\A q \in Pids : ~Live(q)) => Promised \subseteq disk
        /\ \A q \in Pids : Live(q) => IF proc[q].phase = "ending"
                                       THEN Promised \subseteq disk
                                       ELSE Promised \subseteq proc[q].known
    BY <2>1 DEF KnowledgeSound
  <2>3. \A q \in Pids \ {p} : Live(q)' <=> Live(q)
    BY <1>2, DaemonProcesses DEF Live
  <2>4. \A q \in Pids \ {p} : proc'[q] = proc[q]
    BY <1>2, DaemonProcesses
  <2>5. CASE AcquireLock(p) \/ WriteIdentity(p) \/ Revive(p) \/ Recycle(p)
    <3>1. ~Live(p) /\ ~Live(p)'
      BY <1>2, <2>5, DaemonProcesses, WorksIs
         DEF Live, AcquireLock, WriteIdentity, Revive, CanSpawn, Recycle, Begun, Died, Works
    <3>2. UNCHANGED <<disk, Promised>>
      BY <2>5 DEF AcquireLock, WriteIdentity, Revive, Recycle, Promised
    <3>. QED BY <2>2, <2>3, <2>4, <3>1, <3>2 DEF KnowledgeSound
  <2>6. CASE Load(p)
    <3>1. \A q \in Pids : ~Live(q)
      BY <2>6 DEF Load
    <3>2. disk' = disk /\ Promised' = Promised /\ Promised \subseteq disk
      BY <2>2, <2>6, <3>1 DEF Load, Promised
    <3>3. proc'[p].phase = "serving" /\ proc'[p].known = disk
      BY <2>6, WorksIs DEF Works
    <3>. QED BY <2>3, <2>4, <3>1, <3>2, <3>3 DEF KnowledgeSound, Live
  <2>7. ASSUME NEW e \in Edits, Accept(p, e) PROVE KnowledgeSound'
    <3>1. Works(p)
      BY <2>7 DEF Works
    <3>2. /\ Live(p) /\ Live(p)' /\ proc'[p].phase = proc[p].phase
          /\ proc'[p].known = proc[p].known \cup {e}
      BY <2>7, <3>1, WorksIs DEF Live
    <3>3. /\ Promised' \subseteq Promised \cup {e} /\ disk' = disk
          /\ proc[p].phase = "ending" => Promised' \subseteq Promised
      BY <2>7 DEF Accept, Promised
    <3>4. /\ proc[p].phase = "ending" => Promised' \subseteq disk'
          /\ proc[p].phase # "ending" => Promised' \subseteq proc'[p].known
      BY <2>2, <3>2, <3>3
    <3>5. \A q \in Pids : Live(q)' => q = p
      BY <2>2, <2>3, <3>2
    <3>. QED BY <3>2, <3>4, <3>5 DEF KnowledgeSound
  <2>8. CASE Save(p)
    <3>1. /\ Live(p) /\ proc[p].phase = "serving" /\ disk' = proc[p].known
          /\ UNCHANGED <<proc, Promised>>
      BY <2>8 DEF Save, Live, Promised
    <3>. QED BY <2>2, <2>3, <3>1 DEF KnowledgeSound, Live
  <2>9. CASE FinalSave(p)
    <3>1. Works(p)
      BY <2>9 DEF Works
    <3>2. /\ Live(p) /\ Live(p)' /\ proc[p].phase = "saving" /\ proc'[p].phase = "ending"
      BY <2>9, <3>1, WorksIs DEF Live
    <3>3. disk' = proc[p].known /\ Promised' = Promised
      BY <2>9 DEF FinalSave, Promised
    <3>. QED BY <2>2, <2>3, <2>4, <3>2, <3>3 DEF KnowledgeSound
  <2>10. CASE Exit(p)
    <3>1. Live(p) /\ proc[p].phase = "ending" /\ UNCHANGED <<disk, Promised>>
      BY <2>10 DEF Exit, Live, Promised
    <3>2. proc' = [proc EXCEPT ![p] = Ended(@)]
      BY <2>10 DEF Exit
    <3>3. ~Live(p)'
      BY <3>2 DEF Ended, NoProcess, Live, TypeOK
    <3>. QED BY <2>2, <2>3, <3>1, <3>3 DEF KnowledgeSound
  <2>11. CASE Crash(p)
    BY <2>11 DEF Crash
  <2>. QED BY <1>2, <2>5, <2>6, <2>7, <2>8, <2>9, <2>10, <2>11 DEF Daemon
<1>. QED BY <1>1, <1>2 DEF Next

-----------------------------------------------------------------------------
(* A step of a command moves only itself, to a stage of its operation.  *)
Elsewhere(c) == \A d \in Clients \ {c} : cmd'[d] = cmd[d]
Right(r) == (r.at = "idle" => r = Idle) /\ (r.op = "none" => r = Idle) /\ Fits(r.op, r.at)

LEMMA Moves ==
    ASSUME TypeOK, StagesSound, NEW c \in Clients, NEW at \in Stages \ {"idle"},
           cmd[c].at # "idle", Fits(cmd[c].op, at),
           \/ Goto(c, at)
           \/ \E id : cmd' = [cmd EXCEPT ![c].at = at, ![c].target = id]
           \/ \E i : cmd' = [cmd EXCEPT ![c].at = at, ![c].inode = i]
           \/ \E id, o : cmd' = [cmd EXCEPT ![c].at = at, ![c].target = id, ![c].old = o]
    PROVE  Elsewhere(c) /\ Right(cmd'[c]) /\ cmd'[c].op = cmd[c].op /\ cmd'[c].at = at
<1>0. cmd \in [Clients -> Commands] /\ cmd[c] \in Commands
  BY CommandType
<1>1. Elsewhere(c)
  BY <1>0 DEF Elsewhere, Goto
<1>2. cmd'[c].op = cmd[c].op /\ cmd'[c].at = at
  <2>1. CASE Goto(c, at)
    <3>1. cmd'[c] = [cmd[c] EXCEPT !.at = at]
      BY <1>0, <2>1 DEF Goto
    <3>. QED BY <1>0, <3>1 DEF Commands
  <2>2. ASSUME NEW id, cmd' = [cmd EXCEPT ![c].at = at, ![c].target = id]
        PROVE  cmd'[c].op = cmd[c].op /\ cmd'[c].at = at
    <3>1. cmd'[c] = [cmd[c] EXCEPT !.at = at, !.target = id]
      BY <1>0, <2>2
    <3>. QED BY <1>0, <3>1 DEF Commands
  <2>3. ASSUME NEW i, cmd' = [cmd EXCEPT ![c].at = at, ![c].inode = i]
        PROVE  cmd'[c].op = cmd[c].op /\ cmd'[c].at = at
    <3>1. cmd'[c] = [cmd[c] EXCEPT !.at = at, !.inode = i]
      BY <1>0, <2>3
    <3>. QED BY <1>0, <3>1 DEF Commands
  <2>4. ASSUME NEW id, NEW o,
               cmd' = [cmd EXCEPT ![c].at = at, ![c].target = id, ![c].old = o]
        PROVE  cmd'[c].op = cmd[c].op /\ cmd'[c].at = at
    <3>1. cmd'[c] = [cmd[c] EXCEPT !.at = at, !.target = id, !.old = o]
      BY <1>0, <2>4
    <3>. QED BY <1>0, <3>1 DEF Commands
  <2>. QED BY <2>1, <2>2, <2>3, <2>4
<1>3. cmd[c].op # "none"
  <2>1. cmd[c].at # "idle" /\ (cmd[c].op = "none" => cmd[c] = Idle)
    BY DEF StagesSound
  <2>. QED BY ONLY <2>1 DEF Idle
<1>4. at # "idle" /\ Fits(cmd[c].op, at)
  OBVIOUS
<1>5. Right(cmd'[c])
  BY ONLY <1>2, <1>3, <1>4 DEF Right
<1>. QED BY ONLY <1>1, <1>2, <1>5

LEMMA Ends ==
    ASSUME TypeOK, NEW c \in Clients, Done(c)
    PROVE  Elsewhere(c) /\ Right(cmd'[c]) /\ cmd'[c] = Idle
BY CommandType DEF Done, Elsewhere, Right, Idle, Fits

LEMMA FindsNothing ==
    ASSUME TypeOK, StagesSound, NEW c \in Clients, NothingFound(c), cmd[c].at # "idle"
    PROVE  /\ Elsewhere(c) /\ Right(cmd'[c])
           /\ \/ cmd'[c] = Idle
              \/ /\ cmd'[c].op = cmd[c].op
                 /\ \/ cmd[c].op = "up" /\ cmd'[c].at = "check"
                    \/ cmd[c].op = "down" /\ cmd'[c].at = "hangup"
                    \/ cmd[c].op = "reload" /\ cmd'[c].at = "pane"
<1>1. \/ Done(c)
      \/ cmd[c].op = "up" /\ Goto(c, "check")
      \/ cmd[c].op = "down" /\ Goto(c, "hangup")
      \/ cmd[c].op = "reload" /\ Goto(c, "pane")
  BY DEF NothingFound, AfterProbe
<1>2. /\ {"check", "hangup", "pane"} \subseteq Stages \ {"idle"}
      /\ Fits("up", "check") /\ Fits("down", "hangup") /\ Fits("reload", "pane")
  BY DEF Stages, Fits
<1>. QED BY <1>1, <1>2, Ends, Moves

LEMMA StageStep ==
    ASSUME TypeOK, StagesSound, NEW c \in Clients, Command(c)
    PROVE  /\ Elsewhere(c) /\ Right(cmd'[c])
           /\ \/ cmd'[c].op \in {cmd[c].op, "none"}
              \/ \E op \in Ops : Begin(c, op) /\ cmd'[c].op = op
<1>. DEFINE Good == /\ Elsewhere(c) /\ Right(cmd'[c])
                    /\ \/ cmd'[c].op \in {cmd[c].op, "none"}
                       \/ \E op \in Ops : Begin(c, op) /\ cmd'[c].op = op
<1>0. cmd \in [Clients -> Commands] /\ cmd[c] \in Commands /\ Right(cmd[c])
  BY CommandType DEF StagesSound, Right
<1>1. ASSUME NEW at \in Stages \ {"idle"}, cmd[c].at # "idle", Fits(cmd[c].op, at),
             \/ Goto(c, at)
             \/ \E id : cmd' = [cmd EXCEPT ![c].at = at, ![c].target = id]
             \/ \E i : cmd' = [cmd EXCEPT ![c].at = at, ![c].inode = i]
             \/ \E id, o : cmd' = [cmd EXCEPT ![c].at = at, ![c].target = id, ![c].old = o]
      PROVE  Good
  BY <1>1, Moves
<1>2. Done(c) => Good
  BY Ends DEF Idle
<1>3. ASSUME NEW op \in Ops, ServiceStarts(c, op) PROVE Good
  BY <1>0, <1>3 DEF ServiceStarts, Elsewhere
<1>4. ASSUME NEW op \in Ops, ServiceStops(c, op) PROVE Good
  <2>1. /\ Elsewhere(c) /\ cmd'[c] = [cmd[c] EXCEPT !.op = op, !.at = "stopping"]
        /\ op \in {"down", "uninstall"}
    BY <1>0, <1>4 DEF ServiceStops, Elsewhere
  <2>2. cmd'[c].op = op /\ cmd'[c].at = "stopping"
    BY <1>0, <2>1 DEF Commands
  <2>. QED BY <1>4, <2>1, <2>2 DEF Right, Fits, ServiceStops
<1>5. ASSUME NEW op \in Ops, RunsCommand(c, op) PROVE Good
  <2>1. cmd'[c] = [Idle EXCEPT !.op = op, !.at = "probe"] /\ Elsewhere(c)
    BY <1>0, <1>5 DEF RunsCommand, Elsewhere
  <2>2. cmd'[c].op = op /\ cmd'[c].at = "probe"
    BY <2>1 DEF Idle
  <2>. QED BY <1>5, <2>1, <2>2 DEF RunsCommand, Right, Fits
<1>6. CASE \/ ServiceStopped(c) \/ UpInTmux(c) \/ UpAwaits(c) \/ DownWaits(c)
           \/ DownHangsUp(c)
  BY <1>2, <1>6 DEF ServiceStopped, UpInTmux, UpAwaits, DownWaits, DownHangsUp
<1>7. CASE ProbeLock(c)
  <2>1. {"release", "identify"} \subseteq Stages \ {"idle"} /\ cmd[c].at # "idle"
        /\ Fits(cmd[c].op, "release") /\ Fits(cmd[c].op, "identify")
    BY <1>7 DEF ProbeLock, Stages, Fits
  <2>2. \/ Goto(c, "identify")
        \/ \E i : cmd' = [cmd EXCEPT ![c].at = "release", ![c].inode = i]
    BY <1>7 DEF ProbeLock
  <2>. QED BY <1>1, <2>1, <2>2
<1>8. CASE ProbeReleases(c)
  <2>1. "unlink" \in Stages \ {"idle"} /\ cmd[c].at # "idle" /\ Fits(cmd[c].op, "unlink")
    BY <1>8 DEF ProbeReleases, Stages, Fits
  <2>2. \E i : cmd' = [cmd EXCEPT ![c].at = "unlink", ![c].inode = i]
    BY <1>8 DEF ProbeReleases
  <2>. QED BY <1>1, <2>1, <2>2
<1>9. CASE ProbeUnlinks(c)
  BY <1>9, FindsNothing DEF ProbeUnlinks, Idle
<1>10. CASE Identify(c)
  <2>1. "verify" \in Stages \ {"idle"} /\ cmd[c].at # "idle" /\ Fits("down", "verify")
    BY <1>10 DEF Identify, Stages, Fits
  <2>2. \/ NothingFound(c) \/ Done(c)
        \/ /\ cmd[c].op = "down"
           /\ \E id : cmd' = [cmd EXCEPT ![c].at = "verify", ![c].target = id]
    BY <1>10 DEF Identify
  <2>3. CASE NothingFound(c)
    BY <2>1, <2>3, FindsNothing DEF Idle
  <2>4. CASE cmd[c].op = "down" /\ \E id : cmd' = [cmd EXCEPT ![c].at = "verify", ![c].target = id]
    BY <1>1, <2>1, <2>4
  <2>. QED BY <1>2, <2>2, <2>3, <2>4
<1>11. CASE UpChecks(c)
  <2>1. "spawn" \in Stages \ {"idle"} /\ cmd[c].at # "idle" /\ Fits(cmd[c].op, "spawn")
    BY <1>11 DEF UpChecks, At, Stages, Fits
  <2>. QED BY <1>1, <1>2, <1>11, <2>1 DEF UpChecks
<1>12. CASE UpDirect(c)
  <2>1. "await" \in Stages \ {"idle"} /\ cmd[c].at # "idle" /\ Fits(cmd[c].op, "await")
    BY <1>12 DEF UpDirect, At, Stages, Fits
  <2>2. \E id : cmd' = [cmd EXCEPT ![c].at = "await", ![c].target = id]
    BY <1>12 DEF UpDirect
  <2>. QED BY <1>1, <2>1, <2>2
<1>13. CASE DownVerifies(c)
  <2>1. "term" \in Stages \ {"idle"} /\ cmd[c].at # "idle" /\ Fits(cmd[c].op, "term")
    BY <1>13 DEF DownVerifies, At, Stages, Fits
  <2>2. Done(c) \/ \E id : cmd' = [cmd EXCEPT ![c].at = "term", ![c].target = id]
    BY <1>13 DEF DownVerifies
  <2>. QED BY <1>1, <1>2, <2>1, <2>2
<1>14. CASE DownTerminates(c)
  <2>1. "wait" \in Stages \ {"idle"} /\ cmd[c].at # "idle" /\ Fits(cmd[c].op, "wait")
    BY <1>14 DEF DownTerminates, At, Stages, Fits
  <2>. QED BY <1>1, <1>14, <2>1 DEF DownTerminates
<1>15. CASE ReloadFindsPane(c)
  <2>1. \A at \in {"hup", "usr2"} :
           at \in Stages \ {"idle"} /\ cmd[c].at # "idle" /\ Fits(cmd[c].op, at)
    BY <1>15 DEF ReloadFindsPane, At, Stages, Fits
  <2>2. Done(c) \/ \E at \in {"hup", "usr2"} : \E id, o :
                      cmd' = [cmd EXCEPT ![c].at = at, ![c].target = id, ![c].old = o]
    BY <1>15 DEF ReloadFindsPane
  <2>. QED BY <1>1, <1>2, <2>1, <2>2
<1>16. CASE \/ ReloadSignals(c) \/ ReloadWaits(c) \/ ReloadReplaces(c) \/ ReloadConfirms(c)
            \/ ReloadRenames(c) \/ ReloadHangsUp(c)
  <2>1. cmd[c].at # "idle" /\ cmd[c].op = "reload"
    BY <1>0, <1>16 DEF ReloadSignals, ReloadWaits, ReloadReplaces, ReloadConfirms, ReloadRenames,
                       ReloadHangsUp, At, Right, Fits
  <2>2. \A at \in {"leave", "replace", "confirm", "rename", "retry"} :
           at \in Stages \ {"idle"} /\ Fits("reload", at)
    BY DEF Stages, Fits
  <2>3. Done(c) \/ \E at \in {"leave", "replace", "confirm", "rename", "retry"} : Goto(c, at)
    BY <1>16 DEF ReloadSignals, ReloadWaits, ReloadReplaces, ReloadConfirms, ReloadRenames,
                 ReloadHangsUp
  <2>. QED BY <1>1, <1>2, <2>1, <2>2, <2>3
<1>. QED
  BY <1>3, <1>4, <1>5, <1>6, <1>7, <1>8, <1>9, <1>10, <1>11, <1>12, <1>13, <1>14, <1>15, <1>16
     DEF Command

LEMMA DaemonCommands == ASSUME NEW p \in Pids, Daemon(p) PROVE cmd' = cmd
BY DEF Daemon, AcquireLock, WriteIdentity, Load, Accept, Save, FinalSave, Exit, Crash, Revive,
       Recycle, DaemonOnly

LEMMA StagesStep ==
    ASSUME TypeOK, StagesSound, Next
    PROVE  StagesSound'
<1>1. \A d \in Clients : Right(cmd[d])
  BY DEF StagesSound, Right
<1>2. \A d \in Clients : Right(cmd'[d])
  BY <1>1, StageStep, DaemonCommands DEF Next, Elsewhere
<1>. QED BY <1>2 DEF StagesSound, Right

-----------------------------------------------------------------------------
(* What is asked for, or disturbs, stays in the record.  *)
LEMMA HistoryGrows ==
    ASSUME Next
    PROVE  (asked => asked') /\ disturbed \subseteq disturbed'
<1>. DEFINE Grows == (asked => asked') /\ disturbed \subseteq disturbed'
<1>1. ASSUME NEW c, NEW op, Begin(c, op) PROVE Grows
  BY <1>1 DEF Begin
<1>2. ASSUME NEW v, Only(v) PROVE Grows
  BY <1>2 DEF Only, historyVars, pastVars
<1>3. ASSUME UNCHANGED historyVars PROVE Grows
  BY <1>3 DEF historyVars, pastVars
<1>4. ASSUME DaemonOnly PROVE Grows
  BY <1>4 DEF DaemonOnly
<1>5. ASSUME NEW c \in Clients, Command(c) PROVE Grows
  <2>1. CASE \/ DownWaits(c) \/ DownHangsUp(c) \/ UpAwaits(c) \/ ReloadWaits(c)
             \/ ReloadHangsUp(c) \/ ReloadRenames(c)
    BY <2>1 DEF DownWaits, DownHangsUp, UpAwaits, ReloadWaits, ReloadHangsUp, ReloadRenames,
                TimesOut, Disturbing, pastVars
  <2>2. CASE \/ ProbeLock(c) \/ ProbeReleases(c) \/ ProbeUnlinks(c) \/ Identify(c)
             \/ UpChecks(c) \/ DownVerifies(c) \/ ReloadFindsPane(c)
    BY <1>2, <2>2 DEF ProbeLock, ProbeReleases, ProbeUnlinks, Identify, UpChecks, DownVerifies,
                      ReloadFindsPane
  <2>3. CASE \/ ServiceStopped(c) \/ UpInTmux(c) \/ UpDirect(c) \/ DownTerminates(c)
             \/ ReloadSignals(c) \/ ReloadReplaces(c) \/ ReloadConfirms(c)
    BY <1>3, <2>3 DEF ServiceStopped, UpInTmux, UpDirect, DownTerminates, ReloadSignals,
                      ReloadReplaces, ReloadConfirms
  <2>. QED BY <1>1, <1>5, <2>1, <2>2, <2>3
       DEF Command, ServiceStarts, ServiceStops, RunsCommand
<1>6. ASSUME NEW p \in Pids, Daemon(p) PROVE Grows
  <2>1. CASE Load(p)
    BY <2>1 DEF Load
  <2>. QED BY <1>4, <1>6, <2>1 DEF Daemon, AcquireLock, WriteIdentity, Accept, Save, FinalSave,
                                   Exit, Crash, Revive, Recycle
<1>. QED BY <1>5, <1>6 DEF Next

(* Nobody is told to stop.  *)
LEMMA NobodyStopped ==
    ASSUME TypeOK, JobsSound, Next, ~asked', "hangup" \notin disturbed'
    PROVE  \A q \in Pids : proc'[q].kind = "daemon" => proc'[q].why # "stop"
<1>0. ~asked /\ "hangup" \notin disturbed
  BY HistoryGrows
<1>1. \A q \in Pids : proc[q].kind = "daemon" => proc[q].why # "stop"
  BY <1>0 DEF JobsSound, Daemons
<1>. DEFINE Good == \A q \in Pids : proc'[q].kind = "daemon" => proc'[q].why # "stop"
<1>2. ASSUME UNCHANGED proc PROVE Good
  BY <1>1, <1>2
<1>3. ASSUME NEW p \in Pids, CanSpawn(p), NEW h \in {"direct", "tmux", "systemd"},
             proc' = Spawned(p, h)
      PROVE  Good
  BY <1>1, <1>3, OneSpawned DEF Begun
<1>4. ASSUME NEW id, proc' = HungUp(id), disturbed' = Disturbing(id) PROVE Good
  <2>1. ~Runs(id)
    BY <1>4 DEF Disturbing
  <2>. QED BY <1>2, <1>4, <2>1 DEF HungUp
<1>5. ASSUME NEW c \in Clients, Command(c) PROVE Good
  <2>1. cmd[c].op \notin {"down", "uninstall"}
    BY <1>0 DEF JobsSound
  <2>2. CASE ReloadSignals(c)
    <3>1. proc' = [proc EXCEPT ![cmd[c].target.pid] = Signalled(@, "handoff")]
      BY <2>2 DEF ReloadSignals
    <3>. QED BY <1>1, <3>1, OneSignalled DEF Hit, Told, Stays, Died
  <2>3. CASE ReloadHangsUp(c) \/ ReloadRenames(c)
    BY <1>2, <1>4, <2>3 DEF ReloadHangsUp, ReloadRenames
  <2>4. CASE UpInTmux(c) \/ UpDirect(c) \/ ReloadReplaces(c)
    BY <1>2, <1>3, <2>4 DEF UpInTmux, UpDirect, ReloadReplaces
  <2>5. CASE ServiceStopped(c) \/ UpAwaits(c) \/ ReloadWaits(c) \/ ReloadConfirms(c)
    BY <1>2, <2>5 DEF ServiceStopped, UpAwaits, ReloadWaits, ReloadConfirms
  <2>6. CASE \/ ProbeLock(c) \/ ProbeReleases(c) \/ ProbeUnlinks(c) \/ Identify(c)
             \/ UpChecks(c) \/ ReloadFindsPane(c)
    BY <1>2, <2>6 DEF ProbeLock, ProbeReleases, ProbeUnlinks, Identify, UpChecks,
                      ReloadFindsPane, Only
  <2>7. ~DownVerifies(c) /\ ~DownTerminates(c) /\ ~DownWaits(c) /\ ~DownHangsUp(c)
    BY <2>1 DEF DownVerifies, DownTerminates, DownWaits, DownHangsUp, At
  <2>8. ASSUME NEW op \in Ops, ServiceStarts(c, op) \/ RunsCommand(c, op) PROVE Good
    BY <1>2, <1>3, <2>8 DEF ServiceStarts, RunsCommand
  <2>9. ASSUME NEW op \in Ops PROVE ~ServiceStops(c, op)
    BY DEF ServiceStops, Begin
  <2>. QED BY <1>5, <2>2, <2>3, <2>4, <2>5, <2>6, <2>7, <2>8, <2>9 DEF Command
<1>6. ASSUME NEW p \in Pids, Daemon(p) PROVE Good
  BY <1>1, <1>6, DaemonProcesses, WorksIs DEF Begun, Died
<1>. QED BY <1>5, <1>6 DEF Next

LEMMA JobsStep ==
    ASSUME TypeOK, StagesSound, JobsSound, Next
    PROVE  JobsSound'
<1>. SUFFICES ASSUME ~asked', "hangup" \notin disturbed'
              PROVE  JobsSound'
  BY DEF JobsSound
<1>0. ~asked /\ "hangup" \notin disturbed
  BY HistoryGrows
<1>1. /\ job = "running"
      /\ \A p \in Pids : proc[p].kind = "daemon" => proc[p].why # "stop"
      /\ \A d \in Clients : cmd[d].op \notin {"down", "uninstall"}
  BY <1>0 DEF JobsSound, Daemons
<1>2. job' = "running"
  <2>1. ASSUME NEW p \in Pids, Daemon(p) PROVE job' = job
    BY <1>1, <2>1 DEF Daemon, AcquireLock, WriteIdentity, Load, Accept, Save, FinalSave, Exit,
                      Crash, Revive, Recycle
  <2>. QED BY <1>1, <2>1, CommandHistory DEF Next
<1>3. \A d \in Clients : cmd'[d].op \notin {"down", "uninstall"}
  <2>1. ASSUME NEW c \in Clients, NEW op, Begin(c, op) PROVE op \notin {"down", "uninstall"}
    BY <2>1 DEF Begin
  <2>2. ASSUME NEW c \in Clients, Command(c), NEW d \in Clients
        PROVE  cmd'[d].op \notin {"down", "uninstall"}
    BY <1>1, <2>1, <2>2, StageStep DEF Elsewhere
  <2>. QED BY <1>1, <2>2, DaemonCommands DEF Next
<1>. QED BY <1>2, <1>3, NobodyStopped DEF JobsSound, Daemons

(* Where the step of a command leads.  *)
MovedTo(c, at, id) == /\ cmd'[c].op = cmd[c].op /\ cmd'[c].at = at /\ cmd'[c].target = id
Moved(c, at) == MovedTo(c, at, cmd[c].target)

LEMMA Landing ==
    ASSUME TypeOK, NEW c \in Clients, NEW at
    PROVE  /\ Done(c) => Elsewhere(c) /\ cmd'[c] = Idle
           /\ Goto(c, at) => Elsewhere(c) /\ Moved(c, at)
           /\ \A i : cmd' = [cmd EXCEPT ![c].at = at, ![c].inode = i]
                     => Elsewhere(c) /\ Moved(c, at)
           /\ \A id : cmd' = [cmd EXCEPT ![c].at = at, ![c].target = id]
                      => Elsewhere(c) /\ MovedTo(c, at, id)
           /\ \A id, o : cmd' = [cmd EXCEPT ![c].at = at, ![c].target = id, ![c].old = o]
                         => Elsewhere(c) /\ MovedTo(c, at, id)
<1>0. cmd \in [Clients -> Commands] /\ cmd[c] \in Commands
  BY CommandType
<1>1. Done(c) => Elsewhere(c) /\ cmd'[c] = Idle
  BY <1>0 DEF Done, Elsewhere
<1>2. ASSUME Goto(c, at) PROVE Elsewhere(c) /\ Moved(c, at)
  <2>1. Elsewhere(c) /\ cmd'[c] = [cmd[c] EXCEPT !.at = at]
    BY <1>0, <1>2 DEF Goto, Elsewhere
  <2>. QED BY <1>0, <2>1 DEF Commands, Moved, MovedTo
<1>3. ASSUME NEW i, cmd' = [cmd EXCEPT ![c].at = at, ![c].inode = i]
      PROVE  Elsewhere(c) /\ Moved(c, at)
  <2>1. Elsewhere(c) /\ cmd'[c] = [cmd[c] EXCEPT !.at = at, !.inode = i]
    BY <1>0, <1>3 DEF Elsewhere
  <2>. QED BY <1>0, <2>1 DEF Commands, Moved, MovedTo
<1>4. ASSUME NEW id, cmd' = [cmd EXCEPT ![c].at = at, ![c].target = id]
      PROVE  Elsewhere(c) /\ MovedTo(c, at, id)
  <2>1. Elsewhere(c) /\ cmd'[c] = [cmd[c] EXCEPT !.at = at, !.target = id]
    BY <1>0, <1>4 DEF Elsewhere
  <2>. QED BY <1>0, <2>1 DEF Commands, MovedTo
<1>5. ASSUME NEW id, NEW o,
             cmd' = [cmd EXCEPT ![c].at = at, ![c].target = id, ![c].old = o]
      PROVE  Elsewhere(c) /\ MovedTo(c, at, id)
  <2>1. Elsewhere(c) /\ cmd'[c] = [cmd[c] EXCEPT !.at = at, !.target = id, !.old = o]
    BY <1>0, <1>5 DEF Elsewhere
  <2>. QED BY <1>0, <2>1 DEF Commands, MovedTo
<1>. QED BY <1>1, <1>2, <1>3, <1>4, <1>5

-----------------------------------------------------------------------------
(* Calm.  What is known of daemons and files when one command is under way.  *)
CalmHost == /\ ~installed /\ ~revive
            /\ \A p \in Daemons : proc[p].host # "systemd"
            /\ \A p, q \in Daemons : p = q
Home == \A p \in Daemons : Settled(p)
CalmOf(c) == /\ CalmHost
             /\ \A d \in Clients \ {c} : cmd[d] = Idle
             /\ Launching(c) \/ Home
             /\ StageCalm(c)

LEMMA CalmHere ==
    ASSUME CalmSound, disturbed = {}, NEW c \in Clients,
           cmd[c] # Idle \/ \A d \in Clients : cmd[d] = Idle
    PROVE  CalmOf(c)
<1>1. \A d \in Clients : cmd[d] = Idle => ~Launching(d)
  BY DEF Launching, Idle
<1>2. \A d \in Clients \ {c} : cmd[d] = Idle
  BY DEF CalmSound
<1>. QED BY <1>1, <1>2 DEF CalmSound, CalmOf, CalmHost, Home

LEMMA CalmThere ==
    ASSUME NEW c \in Clients, CalmOf(c)'
    PROVE  CalmSound'
<1>1. ASSUME NEW d \in Clients, cmd'[d] = Idle PROVE StageCalm(d)' /\ ~Launching(d)'
  BY <1>1 DEF Idle, StageCalm, Launching
<1>. QED BY <1>1 DEF CalmSound, CalmOf, CalmHost, Home

(* A step that starts no daemon: those that are left are the ones there were.  *)
Fewer == \A q \in Pids : proc'[q].kind = "daemon" =>
            /\ proc[q].kind = "daemon" /\ Stays(q)
            /\ proc[q].host = "direct" /\ proc[q].phase = "spawned"
               => proc'[q].phase = "spawned"

LEMMA FewerHit == ASSUME \A q \in Pids : Hit(q) PROVE Fewer
BY DEF Hit, Told, Stays, Died, Fewer

LEMMA FewerIs ==
    ASSUME Fewer, CalmHost, ~installed', ~revive'
    PROVE  /\ CalmHost' /\ (NoDirect => NoDirect') /\ (Daemons = {} => Daemons' = {})
           /\ UNCHANGED <<path, identity, session>> /\ Home => Home'
           /\ \A p \in Daemons' : p \in Daemons /\ Stays(p) /\ IdOf(p)' = IdOf(p)
<1>1. \A p \in Daemons' : p \in Daemons /\ Stays(p) /\ IdOf(p)' = IdOf(p)
  BY DEF Fewer, Daemons, Stays, IdOf
<1>. QED BY <1>1 DEF CalmHost, NoDirect, Home, Settled, Stays

(* A daemon that is at its place is found there.  *)
LEMMA SettledIs ==
    ASSUME TypeOK, NEW p \in Daemons, Settled(p)
    PROVE  /\ proc[p].host = "direct" => Written = IdOf(p) /\ path # 0 /\ Locked(path)
           /\ proc[p].host = "tmux" => session = IdOf(p)
           /\ Runs(IdOf(p)) /\ Matches(IdOf(p)) /\ IdOf(p) # NoSession
           /\ IdOf(p).pid = p
<1>1. IdOf(p) # NoSession
  BY LifecycleAssumption DEF IdOf, NoSession, Id, Daemons
<1>. QED BY <1>1 DEF Settled, Written, Locked, Daemons, IdOf, Id, Runs, Matches, ProcessAlive

LEMMA CalmProbe ==
    ASSUME TypeOK, StagesSound, NEW c \in Clients, CalmOf(c), disturbed' = {},
           \/ ProbeLock(c) \/ ProbeReleases(c) \/ ProbeUnlinks(c) \/ Identify(c)
    PROVE  CalmOf(c)'
<1>0. /\ CalmHost /\ StageCalm(c)
      /\ \A d \in Clients \ {c} : cmd[d] = Idle
  BY DEF CalmOf
<1>1. /\ UNCHANGED <<proc, session, fresh, installed, revive>>
      /\ Fewer /\ CalmHost' /\ Daemons' = Daemons /\ ~Launching(c) /\ Home
      /\ \A p \in Pids : IdOf(p)' = IdOf(p)
  <2>1. UNCHANGED <<proc, session, fresh, installed, revive>>
    BY DEF ProbeLock, ProbeReleases, ProbeUnlinks, Identify, Only
  <2>2. ~Launching(c)
    BY DEF ProbeLock, ProbeReleases, ProbeUnlinks, Identify, Launching
  <2>3. Fewer
    BY <2>1 DEF Fewer, Stays
  <2>. QED BY <1>0, <2>1, <2>2, <2>3, FewerIs DEF CalmOf, CalmHost, Daemons, IdOf
<1>2. ASSUME Elsewhere(c) PROVE \A d \in Clients \ {c} : cmd'[d] = Idle
  BY <1>0, <1>2 DEF Elsewhere
<1>3. NoDirect' <=> NoDirect
  BY <1>1 DEF NoDirect
<1>4. ASSUME NoDirect, Home PROVE Home'
  BY <1>1, <1>4 DEF Home, NoDirect, Settled, Daemons, IdOf
<1>5. CASE ProbeLock(c)
  <2>1. Home'
    <3>1. CASE path # 0
      <4>1. UNCHANGED <<path, identity>>
        BY <1>5, <3>1, OpenedType DEF ProbeLock, OpenedIdentity
      <4>. QED BY <1>1, <4>1 DEF Home, Settled, Daemons, IdOf
    <3>2. CASE path = 0
      BY <1>1, <3>2 DEF Home, Settled, Daemons, IdOf
    <3>. QED BY <3>1, <3>2
  <2>2. CASE Locked(Opened)
    <3>1. Elsewhere(c) /\ Moved(c, "identify")
      BY <1>5, <2>2, Landing DEF ProbeLock
    <3>. QED BY <1>1, <1>2, <2>1, <3>1 DEF CalmOf, StageCalm, Moved, MovedTo
  <2>3. CASE ~Locked(Opened)
    <3>1. cmd' = [cmd EXCEPT ![c].at = "release", ![c].inode = Opened]
      BY <1>5, <2>3 DEF ProbeLock
    <3>2. Elsewhere(c) /\ Moved(c, "release")
      BY <3>1, Landing
    <3>3. NoDirect
      <4>1. ASSUME NEW p \in Daemons, proc[p].host = "direct" PROVE FALSE
        BY <1>1, <2>3, <4>1, SettledIs, OpenedType DEF Home
      <4>. QED BY <4>1 DEF NoDirect
    <3>. QED BY <1>1, <1>2, <1>3, <2>1, <3>2, <3>3 DEF CalmOf, StageCalm, Moved, MovedTo
  <2>. QED BY <2>2, <2>3
<1>6. CASE ProbeReleases(c)
  <2>1. cmd' = [cmd EXCEPT ![c].at = "unlink", ![c].inode = 0]
    BY <1>6 DEF ProbeReleases
  <2>2. Elsewhere(c) /\ Moved(c, "unlink")
    BY <2>1, Landing
  <2>3. NoDirect
    BY <1>0, <1>6 DEF StageCalm, ProbeReleases
  <2>. QED BY <1>1, <1>2, <1>3, <1>4, <2>2, <2>3 DEF CalmOf, StageCalm, Moved, MovedTo
<1>7. ASSUME NothingFound(c), cmd[c].at # "idle", NoDirect PROVE CalmOf(c)'
  <2>1. Elsewhere(c) /\ cmd'[c].at \in {"idle", "check", "hangup", "pane"}
    BY <1>7, FindsNothing DEF Idle
  <2>. QED BY <1>1, <1>2, <1>3, <1>4, <1>7, <2>1 DEF CalmOf, StageCalm
<1>8. CASE ProbeUnlinks(c)
  BY <1>0, <1>7, <1>8 DEF ProbeUnlinks, StageCalm
<1>9. CASE Identify(c)
  <2>0. UNCHANGED <<path, identity>> /\ Home'
    BY <1>1, <1>9 DEF Identify, Only, Home, Settled, Daemons, IdOf
  <2>1. CASE ~Matches(Written)
    <3>1. ASSUME NEW p \in Daemons, proc[p].host = "direct" PROVE FALSE
      BY <1>1, <2>1, <3>1, SettledIs DEF Home
    <3>. QED BY <1>7, <1>9, <2>1, <3>1 DEF Identify, NoDirect
  <2>2. CASE Done(c)
    <3>1. Elsewhere(c) /\ cmd'[c].at = "idle"
      BY <2>2, Ends DEF Idle
    <3>. QED BY <1>1, <1>2, <2>0, <3>1 DEF CalmOf, StageCalm
  <2>3. CASE cmd' = [cmd EXCEPT ![c].at = "verify", ![c].target = Written]
    <3>1. Elsewhere(c) /\ MovedTo(c, "verify", Written)
      BY <2>3, Landing
    <3>2. Written' = Written
      BY <2>0 DEF Written
    <3>. QED BY <1>1, <1>2, <2>0, <3>1, <3>2 DEF CalmOf, StageCalm, MovedTo
  <2>. QED BY <1>9, <2>1, <2>2, <2>3 DEF Identify
<1>. QED BY <1>5, <1>6, <1>8, <1>9

LEMMA CalmService ==
    ASSUME TypeOK, StagesSound, NEW c \in Clients, CalmSound, disturbed = {}, disturbed' = {},
           \/ \E op \in Ops : ServiceStarts(c, op) \/ ServiceStops(c, op) \/ RunsCommand(c, op)
           \/ ServiceStopped(c)
    PROVE  CalmOf(c)'
<1>1. CalmOf(c) /\ ~Launching(c)
  <2>1. ASSUME NEW op \in Ops, Begin(c, op) PROVE \A d \in Clients : cmd[d] = Idle
    BY <2>1 DEF Begin
  <2>2. CASE ServiceStopped(c)
    BY <2>2, CalmHere DEF ServiceStopped, Idle, Launching
  <2>3. CASE \A d \in Clients : cmd[d] = Idle
    <3>1. CalmOf(c)
      BY <2>3, CalmHere
    <3>. QED BY <2>3, <3>1 DEF Idle, Launching
  <2>. QED BY <2>1, <2>2, <2>3 DEF ServiceStarts, ServiceStops, RunsCommand
<1>2. /\ CalmHost /\ Home /\ \A d \in Clients \ {c} : cmd[d] = Idle
  BY <1>1 DEF CalmOf
<1>3. ASSUME Fewer, ~installed', ~revive', UNCHANGED <<path, identity, session>>, Elsewhere(c),
             cmd'[c].at \in {"idle", "probe", "stopping"}
      PROVE  CalmOf(c)'
  <2>1. CalmHost' /\ Home'
    BY <1>2, <1>3, FewerIs
  <2>. QED BY <1>2, <1>3, <2>1 DEF CalmOf, Elsewhere, StageCalm
<1>4. ASSUME UNCHANGED proc PROVE Fewer
  BY <1>4 DEF Fewer, Stays
<1>5. cmd \in [Clients -> Commands] /\ cmd[c] \in Commands
  BY CommandType
<1>6. ASSUME NEW op \in Ops PROVE ~ServiceStarts(c, op)
  BY <1>2 DEF ServiceStarts, Begin, CalmHost
<1>7. ASSUME NEW op \in Ops, ServiceStops(c, op) PROVE CalmOf(c)'
  <2>1. \A q \in Pids : proc'[q] = proc[q]
    BY <1>2, <1>7 DEF ServiceStops, CalmHost, Daemons
  <2>2. Fewer
    BY <2>1 DEF Fewer, Stays
  <2>3. cmd'[c] = [cmd[c] EXCEPT !.op = op, !.at = "stopping"] /\ Elsewhere(c)
    BY <1>5, <1>7 DEF ServiceStops, Elsewhere
  <2>4. cmd'[c].at = "stopping"
    BY <1>5, <2>3 DEF Commands
  <2>. QED BY <1>2, <1>3, <1>7, <2>2, <2>3, <2>4 DEF ServiceStops, Begin, CalmHost
<1>8. ASSUME NEW op \in Ops, RunsCommand(c, op) PROVE CalmOf(c)'
  <2>1. Elsewhere(c) /\ cmd'[c].at = "probe"
    <3>1. cmd'[c] = [Idle EXCEPT !.op = op, !.at = "probe"] /\ Elsewhere(c)
      BY <1>5, <1>8 DEF RunsCommand, Elsewhere
    <3>. QED BY <3>1 DEF Idle
  <2>. QED BY <1>2, <1>3, <1>4, <1>8, <2>1 DEF RunsCommand, Begin, CalmHost
<1>9. CASE ServiceStopped(c)
  <2>1. Elsewhere(c) /\ cmd'[c].at = "idle"
    BY <1>9, Ends DEF ServiceStopped, Idle
  <2>. QED BY <1>2, <1>3, <1>4, <1>9, <2>1 DEF ServiceStopped, CalmHost
<1>. QED BY <1>6, <1>7, <1>8, <1>9

(* Where no daemon is, the one that is started is the only one.  *)
LEMMA FirstDaemon ==
    ASSUME TypeOK, CalmHost, Daemons = {}, UNCHANGED <<installed, revive>>,
           NEW p \in Pids, CanSpawn(p), NEW h \in {"direct", "tmux"}, proc' = Spawned(p, h)
    PROVE  /\ CalmHost' /\ Daemons' = {p} /\ NewId(p) = IdOf(p)' /\ proc'[p].host = h
           /\ proc'[p].phase = "spawned"
<1>1. /\ Begun(p) /\ proc'[p].host = h /\ NewId(p) = IdOf(p)'
      /\ \A q \in Pids \ {p} : proc'[q] = proc[q]
  BY OneSpawned
<1>2. Daemons' = {p}
  BY <1>1 DEF Daemons, Begun
<1>. QED BY <1>1, <1>2 DEF CalmHost, Begun

LEMMA CalmUp ==
    ASSUME TypeOK, StagesSound, IdentitySound, NEW c \in Clients, CalmOf(c), disturbed' = {},
           \/ UpChecks(c) \/ UpInTmux(c) \/ UpDirect(c) \/ UpAwaits(c)
    PROVE  CalmOf(c)'
<1>0. /\ CalmHost /\ StageCalm(c)
      /\ \A d \in Clients \ {c} : cmd[d] = Idle
      /\ UNCHANGED <<installed, revive>> /\ ~installed' /\ ~revive'
  <2>1. UNCHANGED <<installed, revive>>
    BY DEF UpChecks, Only, UpInTmux, UpDirect, UpAwaits, hostVars
  <2>. QED BY <2>1 DEF CalmOf, CalmHost
<1>1. ASSUME Elsewhere(c) PROVE \A d \in Clients \ {c} : cmd'[d] = Idle
  BY <1>0, <1>1 DEF Elsewhere
<1>2. ASSUME UNCHANGED proc PROVE Fewer
  BY <1>2 DEF Fewer, Stays
<1>3. CASE UpChecks(c)
  <2>1. Home /\ NoDirect /\ UNCHANGED <<proc, path, identity, session>>
    BY <1>0, <1>3 DEF UpChecks, At, Only, CalmOf, Launching, StageCalm
  <2>2. CalmHost' /\ Home' /\ NoDirect'
    BY <1>0, <1>2, <2>1, FewerIs
  <2>3. Elsewhere(c) /\ (cmd'[c].at = "idle" \/ (cmd'[c].at = "spawn" /\ session = NoSession))
    <3>1. CASE session # NoSession
      BY <1>3, <3>1, Ends DEF UpChecks, Idle
    <3>2. CASE session = NoSession
      <4>1. Goto(c, "spawn")
        BY <1>3, <3>2 DEF UpChecks
      <4>. QED BY <3>2, <4>1, Landing DEF Moved, MovedTo
    <3>. QED BY <3>1, <3>2
  <2>. QED BY <1>1, <2>1, <2>2, <2>3 DEF CalmOf, StageCalm
<1>4. ASSUME At(c, "up", "spawn") PROVE Daemons = {} /\ session = NoSession
  <2>1. Home /\ NoDirect /\ session = NoSession
    BY <1>0, <1>4 DEF At, CalmOf, Launching, StageCalm
  <2>2. ASSUME NEW p \in Daemons PROVE FALSE
    BY <2>1, SettledIs DEF Home, NoDirect, Settled
  <2>. QED BY <2>1, <2>2
<1>5. CASE UpInTmux(c)
  <2>1. Daemons = {} /\ session = NoSession
    BY <1>4, <1>5 DEF UpInTmux
  <2>2. PICK p \in Pids : CanSpawn(p) /\ proc' = Spawned(p, "tmux") /\ session' = NewId(p)
    BY <1>5, <2>1 DEF UpInTmux
  <2>3. CalmHost' /\ Daemons' = {p} /\ session' = IdOf(p)' /\ proc'[p].host = "tmux"
    BY <1>0, <2>1, <2>2, FirstDaemon
  <2>4. Home'
    BY <2>3 DEF Home, Settled
  <2>5. Elsewhere(c) /\ cmd'[c].at = "idle"
    BY <1>5, Ends DEF UpInTmux, Idle
  <2>. QED BY <1>1, <2>3, <2>4, <2>5 DEF CalmOf, StageCalm
<1>6. CASE UpDirect(c)
  <2>1. Daemons = {}
    BY <1>4, <1>6 DEF UpDirect
  <2>2. PICK p \in Pids : /\ CanSpawn(p) /\ proc' = Spawned(p, "direct")
                          /\ cmd' = [cmd EXCEPT ![c].at = "await", ![c].target = NewId(p)]
    BY <1>6 DEF UpDirect
  <2>3. /\ CalmHost' /\ Daemons' = {p} /\ NewId(p) = IdOf(p)' /\ proc'[p].host = "direct"
        /\ proc'[p].phase = "spawned"
    BY <1>0, <2>1, <2>2, FirstDaemon
  <2>4. Elsewhere(c) /\ MovedTo(c, "await", NewId(p))
    BY <2>2, Landing
  <2>. QED BY <1>1, <2>3, <2>4 DEF CalmOf, StageCalm, Launching, MovedTo
<1>7. CASE UpAwaits(c)
  <2>0. UNCHANGED <<proc, path, identity, session>>
    BY <1>7 DEF UpAwaits, hostVars
  <2>1. \A p \in Daemons : /\ proc[p].host = "direct" /\ cmd[c].target = IdOf(p)
                           /\ \/ proc[p].phase = "spawned"
                              \/ path # 0 /\ proc[p].inode = path
    BY <1>0, <1>7 DEF StageCalm, UpAwaits, At
  <2>2. Home
    <3>1. CASE Written = cmd[c].target /\ Matches(Written)
      <4>. SUFFICES ASSUME NEW p \in Daemons PROVE Settled(p)
        BY DEF Home
      <4>1. Written = IdOf(p) /\ proc[p].host = "direct" /\ p \in Pids /\ proc[p].kind = "daemon"
        BY <2>1, <3>1 DEF Daemons
      <4>2. path # 0 /\ path \in Inodes /\ identity[path] = IdOf(p)
        BY <4>1, IdType, LifecycleAssumption DEF Written, IdOf, Id, TypeOK
      <4>3. proc[p].inode = path
        BY <4>1, <4>2 DEF IdentitySound, IdOf, Id, ProcessAlive
      <4>. QED BY <4>1, <4>2, <4>3 DEF Settled
    <3>2. CASE ~Runs(cmd[c].target)
      <4>1. ASSUME NEW p \in Daemons PROVE FALSE
        <5>1. Runs(IdOf(p))
          BY DEF Runs, IdOf, Id, Daemons
        <5>. QED BY <2>1, <3>2, <5>1
      <4>. QED BY <4>1 DEF Home
    <3>3. ~TimesOut
      BY DEF TimesOut
    <3>. QED BY <1>7, <3>1, <3>2, <3>3 DEF UpAwaits
  <2>3. CalmHost' /\ Home'
    BY <1>0, <1>2, <2>0, <2>2, FewerIs
  <2>4. Elsewhere(c) /\ cmd'[c].at = "idle"
    BY <1>7, Ends DEF UpAwaits, Idle
  <2>. QED BY <1>1, <2>3, <2>4 DEF CalmOf, StageCalm
<1>. QED BY <1>3, <1>5, <1>6, <1>7

LEMMA CalmDown ==
    ASSUME TypeOK, StagesSound, NEW c \in Clients, CalmOf(c), disturbed' = {},
           \/ DownVerifies(c) \/ DownTerminates(c) \/ DownWaits(c) \/ DownHangsUp(c)
    PROVE  CalmOf(c)'
<1>0. /\ CalmHost /\ StageCalm(c) /\ Home /\ ~installed' /\ ~revive'
      /\ \A d \in Clients \ {c} : cmd[d] = Idle
  BY DEF CalmOf, CalmHost, DownVerifies, Only, DownTerminates, DownWaits, DownHangsUp, hostVars,
         Launching, At
<1>1. ASSUME Elsewhere(c) PROVE \A d \in Clients \ {c} : cmd'[d] = Idle
  BY <1>0, <1>1 DEF Elsewhere
<1>2. ASSUME UNCHANGED proc PROVE Fewer
  BY <1>2 DEF Fewer, Stays
<1>3. ASSUME NoDirect', Fewer, UNCHANGED session PROVE Home'
  <2>1. \A p \in Daemons' : p \in Daemons /\ Stays(p) /\ IdOf(p)' = IdOf(p)
    BY <1>0, <1>3, FewerIs
  <2>. QED BY <1>0, <1>3, <2>1 DEF Home, Settled, NoDirect, Stays
<1>4. CASE DownVerifies(c)
  <2>0. UNCHANGED <<proc, identity, session>> /\ Fewer
    BY <1>2, <1>4 DEF DownVerifies, Only
  <2>1. CASE Written.pid = cmd[c].target.pid /\ Matches(Written)
    <3>1. cmd' = [cmd EXCEPT ![c].at = "term", ![c].target = Written] /\ UNCHANGED path
      BY <1>4, <2>1 DEF DownVerifies
    <3>2. Elsewhere(c) /\ MovedTo(c, "term", Written)
      BY <3>1, Landing
    <3>3. CalmHost' /\ Home'
      BY <1>0, <2>0, <3>1, FewerIs
    <3>4. Written' = Written
      BY <2>0, <3>1 DEF Written
    <3>. QED BY <1>1, <3>2, <3>3, <3>4 DEF CalmOf, StageCalm, MovedTo
  <2>2. CASE ~(Written.pid = cmd[c].target.pid /\ Matches(Written))
    <3>1. cmd[c].target = Written
      BY <1>0, <1>4 DEF StageCalm, DownVerifies, At
    <3>2. NoDirect
      BY <1>0, <2>2, <3>1, SettledIs DEF Home, NoDirect
    <3>3. CalmHost' /\ NoDirect'
      BY <1>0, <2>0, <3>2, FewerIs
    <3>4. Home'
      BY <1>3, <2>0, <3>3
    <3>5. Elsewhere(c) /\ cmd'[c].at = "idle"
      BY <1>4, <2>2, Ends DEF DownVerifies, Idle
    <3>. QED BY <1>1, <3>3, <3>4, <3>5 DEF CalmOf, StageCalm
  <2>. QED BY <2>1, <2>2
<1>5. CASE DownTerminates(c)
  <2>1. Fewer
    <3>1. proc' = [proc EXCEPT ![cmd[c].target.pid] = Signalled(@, "stop")]
      BY <1>5 DEF DownTerminates
    <3>. QED BY <3>1, OneSignalled, FewerHit
  <2>2. UNCHANGED <<path, identity, session>> /\ Written' = Written
    BY <1>5 DEF DownTerminates, hostVars, Written
  <2>3. CalmHost' /\ Home'
    BY <1>0, <2>1, <2>2, FewerIs
  <2>4. Elsewhere(c) /\ Moved(c, "wait") /\ cmd[c].target = Written
    BY <1>0, <1>5, Landing DEF DownTerminates, At, StageCalm
  <2>. QED BY <1>1, <2>2, <2>3, <2>4 DEF CalmOf, StageCalm, Moved, MovedTo
<1>6. CASE DownWaits(c)
  <2>1. ~TimesOut
    BY DEF TimesOut
  <2>2. /\ ~ProcessAlive(cmd[c].target.pid) /\ UNCHANGED <<proc, session>>
        /\ cmd[c].target = Written
    BY <1>0, <1>6, <2>1 DEF DownWaits, At, StageCalm
  <2>3. NoDirect
    BY <1>0, <2>2, SettledIs DEF Home, NoDirect, Matches
  <2>4. CalmHost' /\ NoDirect' /\ Fewer
    BY <1>0, <1>2, <2>2, <2>3, FewerIs
  <2>5. Home'
    BY <1>3, <2>2, <2>4
  <2>6. Elsewhere(c) /\ cmd'[c].at = "idle"
    BY <1>6, Ends DEF DownWaits, Idle
  <2>. QED BY <1>1, <2>4, <2>5, <2>6 DEF CalmOf, StageCalm
<1>7. CASE DownHangsUp(c)
  <2>1. ~Runs(session) /\ NoDirect
    BY <1>0, <1>7 DEF DownHangsUp, Disturbing, At, StageCalm
  <2>2. ASSUME NEW p \in Daemons PROVE FALSE
    BY <1>0, <2>1, SettledIs DEF Home, NoDirect, Settled
  <2>3. proc' = proc
    BY <1>7, <2>1 DEF DownHangsUp, HungUp
  <2>4. CalmHost' /\ Daemons' = {}
    BY <1>0, <1>2, <2>2, <2>3, FewerIs
  <2>5. Elsewhere(c) /\ cmd'[c].at = "idle"
    BY <1>7, Ends DEF DownHangsUp, Idle
  <2>. QED BY <1>1, <2>4, <2>5 DEF CalmOf, StageCalm, Home
<1>. QED BY <1>4, <1>5, <1>6, <1>7

LEMMA CalmReload ==
    ASSUME TypeOK, StagesSound, NEW c \in Clients, CalmOf(c), disturbed' = {},
           \/ ReloadFindsPane(c) \/ ReloadHangsUp(c) \/ ReloadSignals(c) \/ ReloadWaits(c)
           \/ ReloadReplaces(c) \/ ReloadConfirms(c) \/ ReloadRenames(c)
    PROVE  CalmOf(c)'
<1>0. /\ CalmHost /\ StageCalm(c)
      /\ UNCHANGED <<installed, revive>> /\ ~installed' /\ ~revive'
      /\ \A d \in Clients \ {c} : cmd[d] = Idle
  <2>1. UNCHANGED <<installed, revive>>
    BY DEF ReloadFindsPane, Only, ReloadHangsUp, ReloadSignals, ReloadWaits, ReloadReplaces,
           ReloadConfirms, ReloadRenames, hostVars
  <2>. QED BY <2>1 DEF CalmOf, CalmHost
<1>1. ASSUME Elsewhere(c) PROVE \A d \in Clients \ {c} : cmd'[d] = Idle
  BY <1>0, <1>1 DEF Elsewhere
<1>2. ASSUME UNCHANGED proc PROVE Fewer
  BY <1>2 DEF Fewer, Stays
(* The session of the daemon, if there is a daemon.  *)
<1>10. ASSUME Home, NoDirect, NEW p \in Daemons PROVE session = IdOf(p) /\ Runs(session)
  BY <1>10, SettledIs DEF Home, NoDirect, Settled
(* A session that is killed had no daemon in it.  *)
<1>11. ASSUME NEW id, proc' = HungUp(id), disturbed' = Disturbing(id)
       PROVE  ~Runs(id) /\ proc' = proc
  BY <1>11 DEF Disturbing, HungUp
<1>3. CASE ReloadFindsPane(c)
  <2>1. Home /\ NoDirect /\ UNCHANGED <<proc, path, identity, session>>
    BY <1>0, <1>3 DEF ReloadFindsPane, At, Only, CalmOf, Launching, StageCalm
  <2>2. CalmHost' /\ Home' /\ NoDirect'
    BY <1>0, <1>2, <2>1, FewerIs
  <2>3. CASE Runs(session)
    <3>1. cmd' = [cmd EXCEPT ![c].at = "hup", ![c].target = session, ![c].old = Daemons]
      BY <1>3, <2>3 DEF ReloadFindsPane
    <3>2. Elsewhere(c) /\ MovedTo(c, "hup", session)
      BY <3>1, Landing
    <3>. QED BY <1>1, <2>1, <2>2, <3>2 DEF CalmOf, StageCalm, MovedTo
  <2>4. CASE ~Runs(session)
    <3>1. Daemons = {}
      BY <1>10, <2>1, <2>4
    <3>2. Elsewhere(c) /\ cmd'[c].at = "idle"
      BY <1>3, <2>4, <3>1, Ends DEF ReloadFindsPane, Idle
    <3>. QED BY <1>1, <2>1, <2>2, <3>2 DEF CalmOf, StageCalm
  <2>. QED BY <2>3, <2>4
<1>4. CASE ReloadHangsUp(c)
  <2>1. Home /\ NoDirect /\ cmd[c].target = session
    BY <1>0, <1>4 DEF ReloadHangsUp, At, CalmOf, Launching, StageCalm
  <2>2. ~Runs(session) /\ proc' = proc
    BY <1>4, <1>11, <2>1 DEF ReloadHangsUp
  <2>3. Daemons = {}
    BY <1>10, <2>1, <2>2
  <2>4. CalmHost' /\ Daemons' = {}
    BY <1>0, <1>2, <2>2, <2>3, FewerIs
  <2>5. Elsewhere(c) /\ Moved(c, "replace")
    BY <1>4, Landing DEF ReloadHangsUp
  <2>. QED BY <1>1, <2>4, <2>5 DEF CalmOf, StageCalm, Moved, MovedTo, Home
<1>5. ~ReloadSignals(c) /\ ~ReloadWaits(c)
  BY <1>0 DEF ReloadSignals, ReloadWaits, At, StageCalm
<1>6. CASE ReloadReplaces(c)
  <2>1. Daemons = {}
    BY <1>0, <1>6 DEF ReloadReplaces, At, StageCalm
  <2>2. PICK p \in Pids : /\ CanSpawn(p) /\ proc' = Spawned(p, "tmux")
                          /\ fresh' = [fresh EXCEPT ![c] = NewId(p)]
    BY <1>6 DEF ReloadReplaces
  <2>3. /\ CalmHost' /\ Daemons' = {p} /\ NewId(p) = IdOf(p)' /\ proc'[p].host = "tmux"
    BY <1>0, <2>1, <2>2, FirstDaemon
  <2>4. fresh'[c] = NewId(p)
    BY <2>2 DEF TypeOK
  <2>5. Elsewhere(c) /\ Moved(c, "confirm")
    BY <1>6, Landing DEF ReloadReplaces
  <2>. QED BY <1>1, <2>3, <2>4, <2>5 DEF CalmOf, StageCalm, Launching, Moved, MovedTo
<1>7. ASSUME cmd[c].at \in {"confirm", "rename", "retry"}
      PROVE  \A p \in Daemons : proc[p].host = "tmux" /\ fresh[c] = IdOf(p)
  BY <1>0, <1>7 DEF StageCalm
<1>8. CASE ReloadConfirms(c)
  <2>1. \A p \in Daemons : proc[p].host = "tmux" /\ fresh[c] = IdOf(p)
    BY <1>7, <1>8 DEF ReloadConfirms, At
  <2>2. /\ CalmHost' /\ UNCHANGED <<proc, session>>
        /\ \A p \in Daemons' : p \in Daemons /\ Stays(p) /\ IdOf(p)' = IdOf(p)
    BY <1>0, <1>2, <1>8, FewerIs DEF ReloadConfirms
  <2>3. CASE Goto(c, "rename") /\ UNCHANGED fresh
    <3>1. Elsewhere(c) /\ Moved(c, "rename")
      BY <2>3, Landing
    <3>. QED BY <1>1, <2>1, <2>2, <2>3, <3>1
         DEF CalmOf, StageCalm, Launching, Moved, MovedTo, Stays
  <2>4. CASE ~Runs(fresh[c]) /\ Done(c)
    <3>1. ASSUME NEW p \in Daemons PROVE FALSE
      <4>1. Runs(IdOf(p))
        BY DEF Runs, IdOf, Id, Daemons
      <4>. QED BY <2>1, <2>4, <4>1
    <3>2. Daemons' = {}
      BY <2>2, <3>1
    <3>3. Elsewhere(c) /\ cmd'[c].at = "idle"
      BY <2>4, Ends DEF Idle
    <3>. QED BY <1>1, <2>2, <3>2, <3>3 DEF CalmOf, StageCalm, Home
  <2>. QED BY <1>8, <2>3, <2>4 DEF ReloadConfirms
<1>9. CASE ReloadRenames(c)
  <2>1. \A p \in Daemons : proc[p].host = "tmux" /\ fresh[c] = IdOf(p)
    BY <1>7, <1>9 DEF ReloadRenames
  <2>2. proc' = proc
    BY <1>9, <1>11 DEF ReloadRenames
  <2>3. /\ CalmHost'
        /\ \A p \in Daemons' : p \in Daemons /\ Stays(p) /\ IdOf(p)' = IdOf(p)
    BY <1>0, <1>2, <2>2, FewerIs
  <2>4. CASE session' = fresh[c] /\ Done(c)
    <3>1. Elsewhere(c) /\ cmd'[c].at = "idle"
      BY <2>4, Ends DEF Idle
    <3>2. Home'
      BY <2>1, <2>3, <2>4 DEF Home, Settled, Stays
    <3>. QED BY <1>1, <2>3, <3>1, <3>2 DEF CalmOf, StageCalm
  <2>5. CASE session' = NoSession /\ Goto(c, "retry") /\ UNCHANGED fresh
    <3>1. Elsewhere(c) /\ Moved(c, "retry")
      BY <2>5, Landing
    <3>. QED BY <1>1, <2>1, <2>3, <2>5, <3>1
         DEF CalmOf, StageCalm, Launching, Moved, MovedTo, Stays
  <2>6. ~(session # NoSession /\ cmd[c].at = "retry")
    BY <1>0 DEF StageCalm
  <2>. QED BY <1>9, <2>4, <2>5, <2>6 DEF ReloadRenames
<1>. QED BY <1>3, <1>4, <1>5, <1>6, <1>8, <1>9

(* The daemon's own steps.  One that has not written its identity yet is still being
   started.  *)
LEMMA CalmDaemon ==
    ASSUME TypeOK, ProcessesSound, IdentitySound, CalmSound, disturbed = {},
           NEW p \in Pids, Daemon(p)
    PROVE  CalmSound'
<1>0. /\ CalmHost /\ \A d \in Clients : StageCalm(d)
      /\ (\A d \in Clients : ~Launching(d)) => Home
  BY DEF CalmSound, CalmHost, Home
<1>1. UNCHANGED <<session, fresh, installed, cmd>>
  BY DEF Daemon, AcquireLock, WriteIdentity, Load, Accept, Save, FinalSave, Exit, Crash, Revive,
         Recycle, DaemonOnly, hostVars
<1>2. ~Revive(p)
  BY <1>0 DEF Revive, CalmHost
<1>3. ~installed' /\ ~revive'
  <2>1. CASE Crash(p)
    BY <1>0, <1>1, <2>1 DEF Crash, CalmHost, Daemons
  <2>2. CASE Load(p)
    BY <1>0, <1>1, <2>2 DEF Load, CalmHost, hostVars
  <2>. QED BY <1>0, <1>1, <1>2, <2>1, <2>2
       DEF Daemon, AcquireLock, WriteIdentity, Accept, Save, FinalSave, Exit, Recycle, CalmHost
<1>4. ASSUME Fewer, UNCHANGED <<path, identity>> PROVE CalmSound'
  <2>1. /\ CalmHost' /\ (NoDirect => NoDirect') /\ (Daemons = {} => Daemons' = {})
        /\ (Home => Home')
        /\ \A q \in Daemons' : q \in Daemons /\ Stays(q) /\ IdOf(q)' = IdOf(q)
    BY <1>0, <1>1, <1>3, <1>4, FewerIs
  <2>2. \A d \in Clients : Launching(d)' <=> Launching(d)
    BY <1>1 DEF Launching
  <2>3. ASSUME NEW d \in Clients PROVE StageCalm(d)'
    <3>1. Written' = Written
      BY <1>4 DEF Written
    <3>2. \A q \in Daemons' : proc[q].host = "direct" /\ proc[q].phase = "spawned"
                              => proc'[q].phase = "spawned"
      BY <1>4 DEF Fewer, Daemons
    <3>. QED BY <1>0, <1>1, <1>4, <2>1, <3>1, <3>2 DEF StageCalm, Stays
  <2>. QED BY <1>1, <2>1, <2>2, <2>3 DEF CalmSound, CalmHost, Home
<1>5. \A q \in Pids \ {p} : proc'[q] = proc[q]
  BY DaemonProcesses
<1>6. ASSUME proc'[p].kind = "daemon" => Works(p) /\ ~AcquireLock(p),
             UNCHANGED <<path, identity>>
      PROVE  CalmSound'
  <2>1. ASSUME proc'[p].kind = "daemon"
        PROVE  /\ proc[p].kind = "daemon" /\ Stays(p)
               /\ proc[p].host = "direct" /\ proc[p].phase = "spawned"
                  => proc'[p].phase = "spawned"
    <3>1. /\ proc[p].kind = "daemon" /\ Stays(p) /\ Works(p) /\ ~AcquireLock(p)
      BY <1>6, <2>1, WorksIs DEF Stays
    <3>. QED BY <3>1 DEF Works, WriteIdentity, Load, Accept, Live, Save, FinalSave
  <2>2. Fewer
    BY <1>5, <2>1 DEF Fewer, Stays
  <2>. QED BY <1>4, <1>6, <2>2
<1>7. ASSUME proc[p].kind = "daemon", proc[p].host = "direct", ~Settled(p),
             proc'[p].kind = "daemon", proc'[p].host = "direct", IdOf(p)' = IdOf(p),
             UNCHANGED revive, path' # 0, proc'[p].inode = path'
      PROVE  CalmSound'
  <2>1. PICK c \in Clients : Launching(c)
    BY <1>0, <1>7 DEF Home, Daemons
  <2>2. cmd[c].at = "await" /\ cmd[c].target = IdOf(p)
    BY <1>0, <1>7, <2>1 DEF StageCalm, Launching, Daemons
  <2>3. \A d \in Clients \ {c} : cmd[d] = Idle
    BY <2>2 DEF CalmSound, Idle
  <2>4. Daemons' = {p}
    BY <1>0, <1>5, <1>7 DEF CalmHost, Daemons
  <2>5. CalmHost'
    BY <1>1, <1>3, <1>7, <2>4 DEF CalmHost
  <2>6. StageCalm(c)' /\ Launching(c)'
    BY <1>1, <1>7, <2>2, <2>4 DEF StageCalm, Launching
  <2>7. CalmOf(c)'
    BY <1>1, <2>3, <2>5, <2>6 DEF CalmOf
  <2>. QED BY <2>7, CalmThere
<1>8. CASE AcquireLock(p)
  <2>0. proc[p].kind = "daemon" /\ proc[p].host = "direct" /\ proc[p].phase = "spawned"
    BY <1>8 DEF AcquireLock
  <2>1. CASE Locked(Opened)
    <3>1. UNCHANGED <<path, identity>>
      BY <1>8, <2>1, OpenedType DEF AcquireLock, OpenedIdentity
    <3>2. proc' = [proc EXCEPT ![p] = Ended(@)]
      BY <1>8, <2>1 DEF AcquireLock
    <3>3. Died(p)
      BY <3>2, EndedIs DEF TypeOK
    <3>. QED BY <1>6, <3>1, <3>3 DEF Died
  <2>2. CASE ~Locked(Opened)
    <3>1. AcquireLock(p) /\ ~Locked(Opened) /\ Works(p)
      BY <1>8, <2>2 DEF Works
    <3>2. /\ proc'[p].kind = "daemon" /\ proc'[p].host = "direct" /\ IdOf(p)' = IdOf(p)
          /\ proc'[p].inode = Opened
      BY <2>0, <3>1, WorksIs DEF IdOf
    <3>3. ~Settled(p)
      BY <2>0 DEF Settled, ProcessesSound
    <3>4. path' = Opened /\ Opened \in Inodes /\ UNCHANGED revive
      BY <1>8, OpenedType DEF AcquireLock
    <3>. QED BY <1>7, <2>0, <3>2, <3>3, <3>4 DEF Inodes
  <2>. QED BY <2>1, <2>2
<1>9. CASE WriteIdentity(p)
  <2>0. /\ proc[p].kind = "daemon" /\ proc[p].phase = "locked" /\ UNCHANGED <<path, revive>>
        /\ identity' = [identity EXCEPT ![proc[p].inode] = Id(p, proc[p].born)]
    BY <1>9 DEF WriteIdentity
  <2>1. /\ Works(p) /\ ~AcquireLock(p) /\ proc'[p].kind = "daemon" /\ IdOf(p)' = IdOf(p)
        /\ proc'[p].host = proc[p].host /\ proc'[p].inode = proc[p].inode
    <3>1. Works(p) /\ ~AcquireLock(p)
      BY <1>9, <2>0 DEF Works, AcquireLock
    <3>. QED BY <3>1, WorksIs DEF IdOf
  <2>2. CASE proc[p].host = "direct"
    <3>1. ~Settled(p)
      BY <2>0, <2>2 DEF Settled, IdentitySound, IdOf, Id, ProcessAlive, TypeOK
    <3>2. PICK c \in Clients : Launching(c)
      BY <1>0, <2>0, <3>1 DEF Home, Daemons
    <3>3. path # 0 /\ proc[p].inode = path
      BY <1>0, <2>0, <2>2, <3>2 DEF StageCalm, Launching, Daemons
    <3>. QED BY <1>7, <2>0, <2>1, <2>2, <3>1, <3>3
  <2>3. CASE proc[p].host # "direct"
    <3>1. proc[p].inode = 0
      BY <2>3 DEF ProcessesSound
    <3>2. identity' = identity
      BY <2>0, <3>1 DEF TypeOK, Inodes
    <3>. QED BY <1>6, <2>0, <2>1, <3>2
  <2>. QED BY <2>2, <2>3
<1>10. ASSUME ~AcquireLock(p), ~WriteIdentity(p) PROVE CalmSound'
  <2>1. UNCHANGED <<path, identity>>
    BY <1>2, <1>10 DEF Daemon, Load, Accept, Save, FinalSave, Exit, Crash, Recycle, hostVars
  <2>2. proc'[p].kind = "daemon" => Works(p) /\ ~AcquireLock(p)
    BY <1>2, <1>10, DaemonProcesses DEF Died
  <2>. QED BY <1>6, <2>1, <2>2
<1>. QED BY <1>8, <1>9, <1>10

-----------------------------------------------------------------------------
(* The invariants together.  *)
LEMMA CalmStep ==
    ASSUME Sound, CalmSound, Next
    PROVE  CalmSound'
<1>. SUFFICES ASSUME disturbed' = {} PROVE CalmSound'
  BY DEF CalmSound
<1>0. disturbed = {}
  BY HistoryGrows
<1>1. ASSUME NEW p \in Pids, Daemon(p) PROVE CalmSound'
  BY <1>0, <1>1, CalmDaemon DEF Sound
<1>2. ASSUME NEW c \in Clients, Command(c) PROVE CalmSound'
  <2>1. CASE \/ \E op \in Ops : ServiceStarts(c, op) \/ ServiceStops(c, op) \/ RunsCommand(c, op)
             \/ ServiceStopped(c)
    BY <1>0, <2>1, CalmService, CalmThere DEF Sound
  <2>2. ASSUME cmd[c] # Idle PROVE CalmOf(c)
    BY <1>0, <2>2, CalmHere
  <2>3. CASE ProbeLock(c) \/ ProbeReleases(c) \/ ProbeUnlinks(c) \/ Identify(c)
    <3>1. cmd[c] # Idle
      BY <2>3 DEF ProbeLock, ProbeReleases, ProbeUnlinks, Identify, Idle
    <3>. QED BY <2>2, <2>3, <3>1, CalmProbe, CalmThere DEF Sound
  <2>4. CASE UpChecks(c) \/ UpInTmux(c) \/ UpDirect(c) \/ UpAwaits(c)
    <3>1. cmd[c].at # "idle"
      BY <2>4 DEF UpChecks, UpInTmux, UpDirect, UpAwaits, At
    <3>2. cmd[c] # Idle
      BY <3>1 DEF Idle
    <3>. QED BY <2>2, <2>4, <3>2, CalmUp, CalmThere DEF Sound
  <2>5. CASE DownVerifies(c) \/ DownTerminates(c) \/ DownWaits(c) \/ DownHangsUp(c)
    <3>1. cmd[c] # Idle
      BY <2>5 DEF DownVerifies, DownTerminates, DownWaits, DownHangsUp, At, Idle
    <3>. QED BY <2>2, <2>5, <3>1, CalmDown, CalmThere DEF Sound
  <2>6. CASE \/ ReloadFindsPane(c) \/ ReloadHangsUp(c) \/ ReloadSignals(c) \/ ReloadWaits(c)
             \/ ReloadReplaces(c) \/ ReloadConfirms(c) \/ ReloadRenames(c)
    <3>1. cmd[c].at # "idle"
      BY <2>6 DEF ReloadFindsPane, ReloadHangsUp, ReloadSignals, ReloadWaits, ReloadReplaces,
                  ReloadConfirms, ReloadRenames, At
    <3>2. cmd[c] # Idle
      BY <3>1 DEF Idle
    <3>. QED BY <2>2, <2>6, <3>2, CalmReload, CalmThere DEF Sound
  <2>. QED BY <1>2, <2>1, <2>3, <2>4, <2>5, <2>6 DEF Command
<1>. QED BY <1>1, <1>2 DEF Next

(* Who loads the state beside a daemon that lives is not the only daemon.  *)
LEMMA AloneStep ==
    ASSUME CalmSound, AloneUnlessDisturbed, Next
    PROVE  AloneUnlessDisturbed'
<1>. SUFFICES ASSUME disturbed' = {}, doubled' PROVE FALSE
  BY DEF AloneUnlessDisturbed
<1>0. disturbed = {} /\ ~doubled
  BY HistoryGrows DEF AloneUnlessDisturbed
<1>1. ASSUME NEW c \in Clients, Command(c) PROVE FALSE
  BY <1>0, <1>1, CommandHistory
<1>2. ASSUME NEW p \in Pids, Load(p) PROVE FALSE
  <2>1. PICK q \in Pids : Live(q)
    BY <1>0, <1>2 DEF Load
  <2>2. p \in Daemons /\ q \in Daemons /\ ~Live(p)
    BY <1>2, <2>1 DEF Load, Live, Daemons
  <2>. QED BY <1>0, <2>1, <2>2 DEF CalmSound
<1>3. ASSUME NEW p \in Pids, Daemon(p), ~Load(p) PROVE FALSE
  BY <1>0, <1>3 DEF Daemon, AcquireLock, WriteIdentity, Accept, Save, FinalSave, Exit, Crash,
                    Revive, Recycle, DaemonOnly
<1>. QED BY <1>1, <1>2, <1>3 DEF Next

LEMMA InitSound == Init => IInv
<1>. SUFFICES ASSUME Init PROVE IInv
  OBVIOUS
<1>1. TypeOK
  BY TypeInit
<1>2. /\ \A p \in Pids : proc[p] = NoProcess
      /\ \A c \in Clients : cmd[c] = Idle /\ fresh[c] = NoSession
      /\ \A i \in Inodes : identity[i] = NoId
  BY DEF Init
<1>3. Daemons = {}
  BY <1>2 DEF Daemons, NoProcess
<1>4. StagesSound
  BY <1>2 DEF StagesSound, Idle, Fits
<1>5. ProcessesSound
  BY <1>2 DEF ProcessesSound, NoProcess
<1>6. IdentitySound /\ SessionSound
  BY <1>2, IdType, LifecycleAssumption DEF IdentitySound, SessionSound, Init
<1>7. KnowledgeSound
  BY <1>2 DEF KnowledgeSound, Promised, Live, NoProcess, Init
<1>8. JobsSound
  BY <1>2, <1>3 DEF JobsSound, Idle, Init
<1>9. CalmSound
  BY <1>2, <1>3 DEF CalmSound, StageCalm, Idle, Init
<1>. QED BY <1>1, <1>4, <1>5, <1>6, <1>7, <1>8, <1>9 DEF IInv, Sound, AloneUnlessDisturbed, Init

LEMMA SoundStep == Sound /\ [Next]_vars => Sound'
<1>1. ASSUME Sound, Next PROVE Sound'
  <2>1. TypeOK'
    BY <1>1, TypeStep DEF Sound
  <2>. QED BY <1>1, <2>1, StagesStep, ProcessesStep, IdentityStep, SessionStep, KnowledgeStep
       DEF Sound
<1>2. ASSUME Sound, UNCHANGED vars PROVE Sound'
  <2>1. TypeOK'
    BY <1>2, TypeStep DEF Sound
  <2>2. UNCHANGED <<proc, identity, session, fresh, cmd, disk, Promised, doubled, crashed>>
    BY <1>2 DEF vars, hostVars, historyVars, pastVars, Promised
  <2>3. StagesSound' /\ ProcessesSound'
    BY <1>2, <2>2 DEF Sound, StagesSound, ProcessesSound
  <2>4. IdentitySound' /\ SessionSound'
    BY <1>2, <2>2 DEF Sound, IdentitySound, SessionSound, ProcessAlive
  <2>5. KnowledgeSound'
    BY <1>2, <2>2 DEF Sound, KnowledgeSound, Live
  <2>. QED BY <2>1, <2>3, <2>4, <2>5 DEF Sound
<1>. QED BY <1>1, <1>2

LEMMA AlwaysSound == Spec => []Sound
<1>1. Init => Sound
  BY InitSound DEF IInv
<1>. QED BY <1>1, SoundStep, PTL DEF Spec

LEMMA InvariantStep == IInv /\ [Next]_vars => IInv'
<1>1. ASSUME IInv, Next PROVE IInv'
  <2>1. Sound'
    BY <1>1, SoundStep DEF IInv
  <2>. QED BY <1>1, <2>1, JobsStep, CalmStep, AloneStep DEF IInv, Sound
<1>2. ASSUME IInv, UNCHANGED vars PROVE IInv'
  <2>1. Sound'
    BY <1>2, SoundStep DEF IInv
  <2>2. UNCHANGED <<proc, path, identity, session, fresh, installed, revive, cmd, job, asked,
                    doubled, disturbed>>
    BY <1>2 DEF vars, hostVars, historyVars, pastVars
  <2>3. UNCHANGED <<Daemons, Written>> /\ \A p \in Pids : IdOf(p)' = IdOf(p)
    BY <2>2 DEF Daemons, IdOf, Written
  <2>4. JobsSound'
    BY <1>2, <2>2, <2>3 DEF IInv, JobsSound
  <2>5. /\ \A p \in Daemons : Settled(p)' <=> Settled(p)
        /\ \A c \in Clients : Launching(c)' <=> Launching(c)
    BY <2>2, <2>3 DEF Settled, Launching, Daemons
  <2>6. NoDirect' <=> NoDirect
    BY <2>2, <2>3 DEF NoDirect
  <2>7. \A c \in Clients : StageCalm(c) => StageCalm(c)'
    BY <2>2, <2>3, <2>6 DEF StageCalm, Daemons
  <2>8. CalmSound'
    BY <1>2, <2>2, <2>3, <2>5, <2>7 DEF IInv, CalmSound
  <2>. QED BY <1>2, <2>1, <2>2, <2>4, <2>8 DEF IInv, AloneUnlessDisturbed
<1>. QED BY <1>1, <1>2

LEMMA AlwaysInvariant == Spec => []IInv
BY InitSound, InvariantStep, PTL DEF Spec

-----------------------------------------------------------------------------
(* Processes, files, sessions and commands are what they can be, whatever overlaps,
   crashes and is given away.  *)
THEOREM TypeCorrect == Spec => []TypeOK
<1>1. Sound => TypeOK
  BY DEF Sound
<1>. QED BY <1>1, AlwaysSound, PTL

(* server.rs and reload.rs: the jobs are only terminated if somebody ran a command to
   stop the daemon, or its session was killed under it, however slow the daemon that is
   replaced is and whatever else runs or crashes.  *)
THEOREM JobsKept == Spec => []JobsOutliveHandOvers
<1>1. IInv => JobsOutliveHandOvers
  BY DEF IInv, Sound, JobsSound, JobsOutliveHandOvers
<1>. QED BY <1>1, AlwaysInvariant, PTL

(* commands/up.rs, down.rs, reload.rs and gflowd.lock: one command at a time, none of
   which gave up waiting or killed a session under its daemon, never makes two daemons
   live at a time, however often the daemon crashes and its pid is given away.  *)
THEOREM Alone == Spec => []AloneUnlessDisturbed
<1>1. IInv => AloneUnlessDisturbed
  BY DEF IInv
<1>. QED BY <1>1, AlwaysInvariant, PTL

LEMMA DownFinds ==
    ASSUME Sound, Next, NEW c \in Clients, At(c, "down", "verify"), cmd'[c].at = "term"
    PROVE  Runs(cmd'[c].target) /\ proc[cmd'[c].target.pid].inode = path
<1>0. TypeOK /\ StagesSound /\ IdentitySound
  BY DEF Sound
<1>1. cmd'[c].at # cmd[c].at
  BY DEF At
<1>2. Command(c)
  BY <1>0, <1>1, StageStep, DaemonCommands DEF Next, Elsewhere
<1>3. DownVerifies(c)
  <2>1. cmd[c].at = "verify" /\ cmd[c] # Idle
    BY DEF At, Idle
  <2>2. ASSUME NEW op \in Ops, Begin(c, op) PROVE FALSE
    BY <2>1, <2>2 DEF Begin
  <2>3. ~UpChecks(c) /\ ~UpInTmux(c) /\ ~UpDirect(c) /\ ~UpAwaits(c) /\ ~ServiceStopped(c)
    BY <2>1 DEF UpChecks, UpInTmux, UpDirect, UpAwaits, ServiceStopped, At
  <2>4. ~ProbeLock(c) /\ ~ProbeReleases(c) /\ ~ProbeUnlinks(c) /\ ~Identify(c)
    BY <2>1 DEF ProbeLock, ProbeReleases, ProbeUnlinks, Identify
  <2>5. ~DownTerminates(c) /\ ~DownWaits(c) /\ ~DownHangsUp(c)
    BY <2>1 DEF DownTerminates, DownWaits, DownHangsUp, At
  <2>6. /\ ~ReloadFindsPane(c) /\ ~ReloadHangsUp(c) /\ ~ReloadSignals(c) /\ ~ReloadWaits(c)
        /\ ~ReloadReplaces(c) /\ ~ReloadConfirms(c) /\ ~ReloadRenames(c)
    BY <2>1 DEF ReloadFindsPane, ReloadHangsUp, ReloadSignals, ReloadWaits, ReloadReplaces,
                ReloadConfirms, ReloadRenames, At
  <2>. QED BY <1>2, <2>2, <2>3, <2>4, <2>5, <2>6
       DEF Command, ServiceStarts, ServiceStops, RunsCommand
<1>4. /\ Written.pid = cmd[c].target.pid /\ Matches(Written)
      /\ cmd' = [cmd EXCEPT ![c].at = "term", ![c].target = Written]
  <2>1. ~Done(c)
    BY <1>0, Ends DEF Idle
  <2>. QED BY <1>3, <2>1 DEF DownVerifies
<1>5. cmd'[c].target = Written
  <2>1. MovedTo(c, "term", Written)
    BY <1>0, <1>4, Landing
  <2>. QED BY <2>1 DEF MovedTo
<1>6. path # 0 /\ path \in Inodes /\ Written = identity[path]
  BY <1>0, <1>4, IdType, LifecycleAssumption DEF Matches, Written, TypeOK
<1>. QED BY <1>0, <1>4, <1>5, <1>6 DEF IdentitySound, Matches, Runs

LEMMA LoadFinds ==
    ASSUME Sound, Next, NEW p \in Pids, proc[p].phase # "serving", proc'[p].phase = "serving",
           ~doubled', ~crashed
    PROVE  accepted \ late \subseteq proc'[p].known
<1>0. TypeOK /\ KnowledgeSound
  BY DEF Sound
<1>1. ~Became(p) \/ crashed'
  BY DEF Became, Hit, Told, Begun, Died
<1>2. PICK q \in Pids : Daemon(q)
  <2>1. ASSUME NEW c \in Clients, Command(c) PROVE FALSE
    BY <1>0, <2>1, CommandProcesses DEF Became, Hit, Told, Begun, Died
  <2>. QED BY <2>1 DEF Next
<1>3. q = p /\ Works(p)
  BY <1>0, <1>2, DaemonProcesses DEF Died, Begun
<1>4. Load(p)
  BY <1>0, <1>3, WorksIs DEF Works, WriteIdentity, Load, Save, FinalSave
<1>5. ~doubled /\ \A r \in Pids : ~Live(r)
  BY <1>4 DEF Load
<1>6. proc'[p].known = disk
  BY <1>0, <1>4 DEF Load, TypeOK, Process
<1>. QED BY <1>0, <1>5, <1>6 DEF KnowledgeSound, Promised

(* direct_daemon_pid, process_identity_matches and StateSaver: the process a down chooses
   to signal is the daemon that holds the lock, whatever else has the pids that files name;
   and a daemon that loads the state alone, where none was killed, knows all that was
   accepted before a stop.  *)
THEOREM StopAndStart == Spec => StopsAndStarts
<1>1. Sound /\ [Next]_vars =>
        [\A c \in Clients : At(c, "down", "verify") /\ cmd'[c].at = "term"
             => Runs(cmd'[c].target) /\ proc[cmd'[c].target.pid].inode = path]_vars
  BY DownFinds DEF At
<1>2. Sound /\ [Next]_vars =>
        [\A p \in Pids :
            proc[p].phase # "serving" /\ proc'[p].phase = "serving" /\ ~doubled' /\ ~crashed
            => accepted \ late \subseteq proc'[p].known]_vars
  BY LoadFinds
<1>. QED BY <1>1, <1>2, AlwaysSound, PTL DEF Spec, StopsAndStarts, SignalsTheDaemon,
                                             LoadsEverything
=============================================================================
