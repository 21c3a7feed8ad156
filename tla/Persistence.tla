---------------------------- MODULE Persistence -----------------------------
(***************************************************************************)
(* The state file of the daemon, its recovery journal and the background   *)
(* saver, over starts of old and new versions, crashes, graceful stops,    *)
(* failing writes and files that cannot be read.                           *)
(*                                                                         *)
(* The scheduler's table is the set of what users have put into it: jobs,  *)
(* reservations and quota overrides.  The journal carries the first two    *)
(* only.  A legacy state.json is read when there is no state.msgpack and   *)
(* is never written again.                                                 *)
(***************************************************************************)
EXTENDS Naturals, FiniteSets

CONSTANTS
    Jobs, Reservations, Quotas,  \* what users may put into the table
    Versions,                    \* the versions of the daemon that get started
    MaxStarts,                   \* bound on starts
    MaxFailures,                 \* bound on writes that fail
    MaxMishaps                   \* bound on what happens to the files meanwhile

ASSUME PersistenceAssumption ==
    /\ IsFiniteSet(Jobs \cup Reservations \cup Quotas)
    /\ Jobs \cap Quotas = {} /\ Jobs \cap Reservations = {} /\ Quotas \cap Reservations = {}
    /\ Versions \subseteq Nat /\ Versions # {}
    /\ {MaxStarts, MaxFailures, MaxMishaps} \subseteq Nat

VARIABLES
    phase,             \* the daemon: "down", "up", or "closing" after its last save
    version,           \* the version that runs
    items, table_version, next_job_id,   \* the persisted part of Scheduler
    dirty,
    state_writable, journal_writable, journal_applied,
    request,           \* a SaveRequest the saver has not read
    pending_save,
    saving,            \* where save_state_if_dirty is, under the write lock
    then,              \* what follows it: nothing, or the end of the saver
    state,             \* state.msgpack
    json,              \* state.json
    journal,           \* state.journal.jsonl
    blind,             \* jobs whose id is not an index into the job table (history)
    saved,             \* what the last save that succeeded wrote, and where (history)
    failed,            \* a write failed since (history)
    leftover,          \* a journal outlived the save that replaces it, or was lost (history)
    late,              \* what was accepted after the last save of a stop (history)
    good,              \* the last readable state file (history)
    starts, failures, mishaps

tableVars == <<items, table_version, next_job_id>>
modeVars == <<state_writable, journal_writable, journal_applied>>
saverVars == <<request, pending_save, saving, then>>
fileVars == <<state, json, journal>>
historyVars == <<blind, saved, failed, leftover, late, good>>
boundVars == <<starts, failures, mishaps>>
vars == <<phase, version, tableVars, dirty, modeVars, saverVars, fileVars, historyVars,
          boundVars>>

Items == Jobs \cup Reservations \cup Quotas

(* What serialization writes, and what it reads back.  *)
Tables == [items : SUBSET Items, version : Versions \cup {0}, next : {"low", "high"}]
Fresh == [items |-> {}, version |-> 0, next |-> "low"]
Missing == [is |-> "missing", table |-> Fresh]
Corrupt == [is |-> "corrupt", table |-> Fresh]
Written(t) == [is |-> "written", table |-> t]
Files == {Missing, Corrupt} \cup {Written(t) : t \in Tables}

Table == [items |-> items, version |-> table_version, next |-> next_job_id]

(* SchedulerSnapshot leaves out the quota overrides (and fair-share usage).  *)
Snapshot_rows(t) == [t EXCEPT !.items = @ \cap Jobs]   \* mutant: jobs only
Snapshot_ids(t) == [items |-> t.items \ Quotas, version |-> t.version]
    \* mutant: the next id is forgotten
Snapshot(t) == [t EXCEPT !.items = @ \ Quotas]

CanMutate == state_writable \/ journal_writable
Unlocked == saving = "no"

-----------------------------------------------------------------------------
TypeOK ==
    /\ phase \in {"down", "up", "closing"}
    /\ version \in Versions \cup {0}
    /\ Table \in Tables
    /\ {dirty, state_writable, journal_writable, journal_applied, request,
        pending_save, failed, leftover} \subseteq BOOLEAN
    /\ saving \in {"no", "write", "truncate", "clear"}
    /\ then \in {"continue", "exit"}
    /\ {state, json, journal, good} \subseteq Files
    /\ blind \subseteq Jobs
    /\ saved \in [file : {"state", "journal"}, items : SUBSET Items]
    /\ late \subseteq Items
    /\ starts \in 0 .. MaxStarts
    /\ failures \in 0 .. MaxFailures
    /\ mishaps \in 0 .. MaxMishaps

Init ==
    /\ phase = "down" /\ version = 0
    /\ items = {} /\ table_version = 0 /\ next_job_id = "low"
    /\ dirty = FALSE
    /\ state_writable = TRUE /\ journal_writable = FALSE /\ journal_applied = FALSE
    /\ request = FALSE /\ pending_save = FALSE /\ saving = "no" /\ then = "continue"
    /\ state \in {Missing} \cup {Written([Fresh EXCEPT !.version = v]) : v \in Versions}
    /\ json \in {Missing, Written(Fresh)}
    /\ journal = Missing
    /\ blind = {} /\ saved = [file |-> "state", items |-> {}] /\ failed = FALSE
    /\ leftover = FALSE /\ late = {} /\ good = state
    /\ starts = 0 /\ failures = 0 /\ mishaps = 0

-----------------------------------------------------------------------------
(* Starting: load_state, init_journal, set_state_saver.  *)

Loaded_json == IF json # Missing THEN json ELSE state  \* mutant: the legacy file first
Loaded == IF state # Missing THEN state ELSE json

(* migrate_state refuses what a newer version wrote.  *)
Readable(v) == Loaded.is = "missing" \/ (Loaded.is = "written" /\ Loaded.table.version <= v)

(* should_apply_journal: a journal that is not empty is taken.  Its time is only
   compared with that of the legacy state.json, which is older.  *)
AppliesJournal == journal.is = "written"

(* What a start of version v makes of the files.  Tables are migrated to v, but
   not those of the journal nor those v refuses to migrate; after a file that
   cannot be read, ids start high.  *)
Restored_state(v) ==
    IF Readable(v) THEN [Loaded.table EXCEPT !.version = v]
    ELSE [Fresh EXCEPT !.next = "high"]
    \* mutant: the journal is not looked at
Restored(v) ==
    IF AppliesJournal THEN journal.table
    ELSE IF Readable(v) THEN [Loaded.table EXCEPT !.version = v]
    ELSE IF Loaded.is = "written" THEN Loaded.table
    ELSE [Fresh EXCEPT !.version = v, !.next = "high"]

Kick_none == FALSE                      \* mutant: set_state_saver does not look
Kick == dirty'

Start(v, jw) ==
    /\ phase = "down"
    /\ starts < MaxStarts
    /\ starts' = starts + 1
    /\ phase' = "up"
    /\ version' = v
    /\ items' = Restored(v).items
    /\ table_version' = Restored(v).version
    /\ next_job_id' = Restored(v).next
    /\ state_writable' = Readable(v)
    /\ journal_applied' = AppliesJournal
    /\ journal_writable' = jw
    /\ dirty' = (AppliesJournal /\ Readable(v))
    /\ request' = Kick
    /\ pending_save' = FALSE
    /\ saving' = "no" /\ then' = "continue"
    /\ late' = {} /\ failed' = FALSE
    /\ UNCHANGED <<fileVars, blind, saved, leftover, good, failures, mishaps>>

-----------------------------------------------------------------------------
(* The requests that change the table.  *)

MarkDirty_quiet == dirty' = (CanMutate \/ dirty) /\ UNCHANGED request
    \* mutant: the saver is not told
MarkDirty == IF CanMutate THEN dirty' = TRUE /\ request' = TRUE
                          ELSE UNCHANGED <<dirty, request>>

Accept(i) ==
    /\ phase \in {"up", "closing"} /\ Unlocked
    /\ i \notin items
    /\ items' = items \cup {i}
    /\ MarkDirty
    /\ late' = IF phase = "closing" THEN late \cup {i} ELSE late
    /\ UNCHANGED <<phase, version, table_version, next_job_id, modeVars, pending_save,
                   saving, then, fileVars, saved, failed, leftover, good, boundVars>>

(* A job gets the next id, and is looked up at that index.  *)
SubmitJob(i) ==
    /\ CanMutate
    /\ Accept(i)
    /\ blind' = IF next_job_id = "high" THEN blind \cup {i} ELSE blind

SetQuota(i) == CanMutate /\ Accept(i) /\ UNCHANGED blind

(* The reservation handlers do not ask whether the daemon is read-only.  *)
Reserve(i) == Accept(i) /\ UNCHANGED blind

-----------------------------------------------------------------------------
(* The saver, and the pass that saves before it launches.  *)

SaverReads ==
    /\ phase = "up" /\ Unlocked
    /\ request
    /\ request' = FALSE
    /\ pending_save' = TRUE
    /\ UNCHANGED <<phase, version, tableVars, dirty, modeVars, saving, then, fileVars,
                   historyVars, boundVars>>

SaveIfDirty == saving' = IF dirty THEN "write" ELSE "no"

SaverTicks ==
    /\ phase = "up" /\ Unlocked
    /\ pending_save
    /\ pending_save' = FALSE
    /\ SaveIfDirty
    /\ UNCHANGED <<phase, version, tableVars, dirty, modeVars, request, then, fileVars,
                   historyVars, boundVars>>

PassSaves ==
    /\ phase = "up" /\ Unlocked
    /\ dirty
    /\ SaveIfDirty
    /\ UNCHANGED <<phase, version, tableVars, dirty, modeVars, request, pending_save, then,
                   fileVars, historyVars, boundVars>>

(* A signal to stop: the saver saves and ends.  The server goes on answering
   until it has, and then until the process is gone.  *)
Stop ==
    /\ phase = "up" /\ Unlocked
    /\ SaveIfDirty
    /\ IF dirty THEN then' = "exit" /\ UNCHANGED phase
                ELSE phase' = "closing" /\ UNCHANGED then
    /\ request' = FALSE /\ pending_save' = FALSE
    /\ UNCHANGED <<version, tableVars, dirty, modeVars, fileVars, historyVars, boundVars>>

Succeeds(f, t) ==
    /\ saved' = [file |-> f, items |-> t.items]
    /\ failed' = FALSE
    /\ UNCHANGED failures
Fails == failures < MaxFailures /\ failures' = failures + 1 /\ failed' = TRUE /\ UNCHANGED saved

(* serialization::save_state: a temporary file and a rename.  *)
WriteState ==
    /\ saving = "write"
    /\ state_writable
    /\ \/ /\ Succeeds("state", Table)
          /\ state' = Written(Table)
          /\ good' = state'
          /\ saving' = IF journal_applied THEN "truncate" ELSE "clear"
       \/ /\ Fails
          /\ saving' = "clear"
          /\ UNCHANGED <<state, good>>
    /\ UNCHANGED <<phase, version, tableVars, dirty, modeVars, request, pending_save, then,
                   json, journal, blind, leftover, late, starts, mishaps>>

Truncate ==
    /\ saving = "truncate"
    /\ \/ /\ journal' = Missing
          /\ journal_applied' = FALSE
          /\ leftover' = FALSE
          /\ UNCHANGED <<failed, failures, saved>>
       \/ /\ Fails
          /\ leftover' = TRUE
          /\ UNCHANGED <<journal, journal_applied>>
    /\ saving' = "clear"
    /\ UNCHANGED <<phase, version, tableVars, dirty, state_writable, journal_writable,
                   request, pending_save, then, state, json, blind, late, good,
                   starts, mishaps>>

(* append_journal_snapshot: nothing without a journal; otherwise it replaces the
   snapshot, or does not get to, or gives the journal up, with its file or
   without.  *)
WriteJournal ==
    /\ saving = "write"
    /\ ~state_writable
    /\ \/ /\ journal_writable
          /\ Succeeds("journal", Snapshot(Table))
          /\ journal' = Written(Snapshot(Table))
          /\ leftover' = FALSE
          /\ UNCHANGED journal_writable
       \/ /\ journal_writable
          /\ Fails
          /\ UNCHANGED <<journal, journal_writable, leftover>>
       \/ /\ journal_writable
          /\ Fails
          /\ journal_writable' = FALSE
          /\ journal' \in {journal, Missing}
          /\ leftover' = (leftover \/ journal' # journal)
       \/ /\ ~journal_writable
          /\ UNCHANGED <<journal, journal_writable, saved, failed, failures, leftover>>
    /\ saving' = "clear"
    /\ UNCHANGED <<phase, version, tableVars, dirty, state_writable, journal_applied, request,
                   pending_save, then, state, json, blind, late, good, starts, mishaps>>

(* The flag is cleared whether or not the write succeeded.  *)
ClearDirty ==
    /\ saving = "clear"
    /\ saving' = "no"
    /\ dirty' = (dirty /\ ~CanMutate)
    /\ then' = "continue"
    /\ phase' = IF then = "exit" THEN "closing" ELSE phase
    /\ UNCHANGED <<version, tableVars, modeVars, request, pending_save, fileVars,
                   historyVars, boundVars>>

Exit ==
    /\ phase = "closing" /\ Unlocked
    /\ phase' = "down"
    /\ UNCHANGED <<version, tableVars, dirty, modeVars, saverVars, fileVars, historyVars,
                   boundVars>>

Crash ==
    /\ phase \in {"up", "closing"}
    /\ starts < MaxStarts
    /\ phase' = "down"
    /\ saving' = "no" /\ then' = "continue"
    /\ leftover' = (leftover \/ saving = "truncate")
    /\ UNCHANGED <<version, tableVars, dirty, modeVars, request, pending_save, fileVars,
                   blind, saved, failed, late, good, boundVars>>

-----------------------------------------------------------------------------
(* What happens to the state file while no daemon runs: it becomes unreadable, or
   somebody puts the last readable one back.  *)
Corrupts ==
    /\ phase = "down"
    /\ mishaps < MaxMishaps
    /\ state.is = "written"
    /\ state' = Corrupt
    /\ mishaps' = mishaps + 1
    /\ UNCHANGED <<phase, version, tableVars, dirty, modeVars, saverVars, json, journal,
                   historyVars, starts, failures>>

PutBack ==
    /\ phase = "down"
    /\ state = Corrupt
    /\ good # Missing
    /\ state' = good
    /\ UNCHANGED <<phase, version, tableVars, dirty, modeVars, saverVars, json, journal,
                   historyVars, boundVars>>

Next ==
    \/ \E v \in Versions, jw \in BOOLEAN : Start(v, jw)
    \/ \E i \in Jobs : SubmitJob(i)
    \/ \E i \in Quotas : SetQuota(i)
    \/ \E i \in Reservations : Reserve(i)
    \/ SaverReads \/ SaverTicks \/ PassSaves \/ Stop
    \/ WriteState \/ Truncate \/ WriteJournal \/ ClearDirty
    \/ Exit \/ Crash \/ Corrupts \/ PutBack

Spec == Init /\ [][Next]_vars

(* The saver's task keeps running, and a save that has begun goes on.  *)
FairSpec ==
    /\ Spec
    /\ WF_vars(SaverReads) /\ WF_vars(SaverTicks)
    /\ WF_vars(WriteState) /\ WF_vars(Truncate) /\ WF_vars(WriteJournal)
    /\ WF_vars(ClearDirty)

-----------------------------------------------------------------------------
Serving == phase \in {"up", "closing"} /\ Unlocked

(* What a start of the same version would find is the table, but for what the
   journal leaves out.  *)
OnDisk == /\ Restored(version).items \ Quotas = items \ Quotas
          /\ state_writable => Restored(version).items = items

(* A table that is not marked as dirty is on disk: no request changes it without
   leaving the saver something to do, whatever file is in use, unless the last
   write failed.  After a stop has saved, what is not on disk came later.  *)
CleanMeansSaved ==
    Serving /\ CanMutate /\ ~failed /\ (~dirty \/ (phase = "closing" /\ late = {}))
        => OnDisk

(* The files, the flag and the table agree: what the daemon takes for saved is.  *)
CleanMeansOnDisk == TypeOK /\ CleanMeansSaved

(* A start finds what the last successful save wrote, in whichever file, after
   any sequence of stops, crashes, changes of version and stays in recovery mode;
   unless that file became unreadable, or the journal outlived the save that
   replaces it.  *)
NothingSavedIsLost ==
    [][phase = "down" /\ phase' = "up" /\ ~leftover
            /\ (state = Corrupt => saved.file = "journal")
        => items' = saved.items]_vars

(* Every change reaches the disk, without the help of a scheduling pass.  *)
EditsReachDisk ==
    (Serving /\ CanMutate /\ ~OnDisk) ~> (OnDisk \/ phase # "up" \/ failed)

(* "When the state file becomes readable again, gflowd loads the latest journal
   snapshot, rewrites the state file, and truncates the journal" (docs
   user-guide/configuration.md), without waiting for a change.  *)
JournalConsolidated ==
    (phase = "up" /\ state_writable /\ journal.is = "written")
        ~> (journal = Missing \/ phase # "up" \/ failed)

(* Whatever is to be written is written in the end, and in the right file.  *)
SavesComplete == EditsReachDisk /\ JournalConsolidated

(* Refuted.  prefers_newer_journal_snapshot_and_truncates_after_state_save
   (scheduler_runtime/tests.rs) has the journal win over the state file if it is
   newer.  Its age is only compared with that of a legacy state.json: a daemon
   that crashes before it truncates the journal has saved for nothing.  *)
NewestFileWins ==
    [][phase = "down" /\ phase' = "up" /\ state.is = "written"
        => items' = saved.items]_vars

(* Refuted.  The saver's task is there for "ensuring state is persisted regularly
   and on graceful shutdown" (state_saver.rs).  It ends before the server does: a
   job submitted in between is answered, and gone.  *)
StopSavesAll == [][phase = "closing" /\ phase' = "down" /\ CanMutate /\ ~failed => OnDisk]_vars

(* Refuted.  "If the journal file is not writable, gflowd falls back to read-only
   mode and mutating APIs return 503" (docs user-guide/configuration.md): those of
   the reservations do not ask.  *)
ReadOnlyMeansReadOnly == [][phase # "down" /\ ~CanMutate => items' = items]_vars

(* Refuted.  "Job should exist after submission" (scheduler_runtime/jobs.rs): ids
   that start at 2 000 000 000 are no indices into the job table.  *)
SubmittedJobsExist == blind = {}

(* Refuted.  "To recover, upgrade/downgrade to a version that can read/migrate
   your state, or restore from the backup file" (docs user-guide/configuration.md):
   a journal written meanwhile wins over the file that was put back.  *)
PuttingBackRestores ==
    [][phase = "down" /\ phase' = "up" /\ saved.file = "journal" /\ state = good
            /\ state.is = "written" /\ mishaps > 0
        => state.table.items \subseteq items']_vars
=============================================================================
