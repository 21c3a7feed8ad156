--------------------------- MODULE Records_proofs ---------------------------
(***************************************************************************)
(* Proofs about what the daemon has on record.  First its files, for every  *)
(* set of things users put into its table, every set of versions and any    *)
(* number of starts, failing writes and damaged files; then what it believes *)
(* of its GPUs, for every set of GPUs and of processes and any number of     *)
(* partial answers of NVML; last what it tells users of its table and of the *)
(* logs of jobs, for every set of users and all bounds.                     *)
(***************************************************************************)
EXTENDS Persistence, GpuSlots, Queries, FiniteSetTheorems, SequenceTheorems, TLAPS

(* Only a daemon that is up saves, and the saver ends with a save.  *)
SavesSound ==
    /\ saving # "no" => phase = "up"
    /\ then = "exit" => saving # "no"

(* A daemon that may write the state file has taken note of a journal that would win
   over it.  *)
JournalNoticed ==
    phase # "down" /\ state_writable /\ journal.is = "written" => journal_applied

(* In the middle of a save: the state file is written and the journal is not yet
   truncated; then everything is written, or something has failed.  *)
MidwaySound ==
    /\ saving = "truncate" => /\ state_writable /\ ~failed
                              /\ state = Written(Table)
                              /\ saved = [file |-> "state", items |-> items]
    /\ saving = "clear" /\ CanMutate /\ ~failed => OnDisk

(* The state file is the last readable one, or damaged, and the legacy file is as it was
   found.  *)
FilesSound ==
    /\ state \in {good, Corrupt} /\ good # Corrupt
    /\ json \in {Missing, Written(Fresh)}

(* What the last save wrote is in the file it went to, unless the journal is in the way
   or was given up.  *)
SavedSound ==
    ~leftover =>
        IF saved.file = "journal"
        THEN journal.is = "written" /\ journal.table.items = saved.items
        ELSE /\ saving # "truncate" => journal.is # "written"
             /\ good.table.items = saved.items

IInv == /\ TypeOK /\ SavesSound /\ JournalNoticed /\ MidwaySound /\ CleanMeansSaved
        /\ FilesSound /\ SavedSound

-----------------------------------------------------------------------------
(* Type correctness.  *)

(* What a file holds is a table.  *)
LEMMA FileType ==
    /\ Missing \in Files /\ Corrupt \in Files /\ Fresh \in Tables
    /\ \A f \in Files : f.table \in Tables /\ f.is \in {"missing", "corrupt", "written"}
    /\ \A t \in Tables : Written(t) \in Files /\ Written(t).is = "written"
                         /\ Written(t).table = t
<1>1. Fresh \in Tables
  BY DEF Fresh, Tables
<1>2. Missing \in Files /\ Corrupt \in Files
  BY DEF Files
<1>3. \A u \in Tables : Written(u) \in Files /\ Written(u).is = "written" /\ Written(u).table = u
  BY DEF Files, Written
<1>4. ASSUME NEW f \in Files
      PROVE  f.table \in Tables /\ f.is \in {"missing", "corrupt", "written"}
  <2>1. CASE f \in {Missing, Corrupt}
    BY <1>1, <2>1 DEF Missing, Corrupt
  <2>2. CASE \E u \in Tables : f = Written(u)
    BY <1>3, <2>2
  <2>. QED BY <2>1, <2>2 DEF Files
<1>. QED BY <1>1, <1>2, <1>3, <1>4

(* So is what a start makes of the files, and what is written to the journal.  *)
LEMMA RestoredType ==
    ASSUME TypeOK, NEW v \in Versions \cup {0}
    PROVE  Restored(v) \in Tables
<1>1. /\ journal.table \in Tables /\ Loaded.table \in Tables
  BY FileType DEF TypeOK, Loaded
<1>2. \A t \in Tables : [t EXCEPT !.version = v] \in Tables
  BY DEF Tables
<1>3. [Fresh EXCEPT !.version = v, !.next = "high"] \in Tables
  BY DEF Tables, Fresh
<1>. QED BY <1>1, <1>2, <1>3 DEF Restored

LEMMA SnapshotType ==
    ASSUME NEW t \in Tables
    PROVE  Snapshot(t) \in Tables /\ Snapshot(t).items = t.items \ Quotas
BY DEF Snapshot, Tables

(* The types hold at the start ...  *)
LEMMA TypeInit == Init => TypeOK
<1>. SUFFICES ASSUME Init PROVE TypeOK
  OBVIOUS
<1>1. \A v \in Versions : Written([Fresh EXCEPT !.version = v]) \in Files
  BY FileType DEF Fresh, Tables
<1>2. Missing \in Files /\ Written(Fresh) \in Files
  BY FileType
<1>3. state \in Files
  BY <1>1, <1>2 DEF Init
<1>4. {state, json, journal, good} \subseteq Files
  BY <1>2, <1>3 DEF Init
<1>5. Table \in Tables
  BY DEF Init, Table, Tables
<1>6. saved \in [file : {"state", "journal"}, items : SUBSET Items]
  BY DEF Init
<1>7. starts \in 0 .. MaxStarts /\ failures \in 0 .. MaxFailures /\ mishaps \in 0 .. MaxMishaps
  BY PersistenceAssumption DEF Init
<1>. QED BY <1>4, <1>5, <1>6, <1>7 DEF Init, TypeOK

(* ... and every step keeps them.  *)
LEMMA TypeStep ==
    ASSUME TypeOK, [Next]_vars
    PROVE  TypeOK'
<1>. USE DEF TypeOK, modeVars, saverVars, fileVars, historyVars, boundVars, tableVars
<1>1. ASSUME NEW v \in Versions, NEW jw \in BOOLEAN, Start(v, jw) PROVE TypeOK'
  <2>1. Restored(v) \in Tables
    BY RestoredType
  <2>2. Table' \in Tables
    BY <1>1, <2>1 DEF Start, Table, Tables
  <2>3. {Readable(v), AppliesJournal, AppliesJournal /\ Readable(v)} \subseteq BOOLEAN
    BY DEF Readable, AppliesJournal
  <2>4. starts' \in 0 .. MaxStarts
    BY <1>1, PersistenceAssumption DEF Start
  <2>. QED BY <1>1, <2>2, <2>3, <2>4 DEF Start, Kick
<1>2. ASSUME NEW i \in Items, Accept(i), blind' \subseteq Jobs PROVE TypeOK'
  <2>1. Table' \in Tables
    BY <1>2 DEF Accept, Table, Tables
  <2>2. {dirty', request'} \subseteq BOOLEAN /\ late' \subseteq Items
    BY <1>2 DEF Accept, MarkDirty
  <2>. QED BY <1>2, <2>1, <2>2 DEF Accept
<1>3. ASSUME NEW i \in Jobs, SubmitJob(i) PROVE TypeOK'
  BY <1>2, <1>3 DEF SubmitJob, Items
<1>4. ASSUME NEW i \in Quotas, SetQuota(i) PROVE TypeOK'
  BY <1>2, <1>4 DEF SetQuota, Items
<1>5. ASSUME NEW i \in Reservations, Reserve(i) PROVE TypeOK'
  BY <1>2, <1>5 DEF Reserve, Items
<1>6. CASE SaverReads
  BY <1>6 DEF SaverReads, Table
<1>7. CASE SaverTicks
  BY <1>7 DEF SaverTicks, SaveIfDirty, Table
<1>8. CASE PassSaves
  BY <1>8 DEF PassSaves, SaveIfDirty, Table
<1>9. CASE Stop
  BY <1>9 DEF Stop, SaveIfDirty, Table
<1>10. ASSUME Fails PROVE failures' \in 0 .. MaxFailures /\ failed' \in BOOLEAN
  BY <1>10, PersistenceAssumption DEF Fails
<1>11. ASSUME NEW f \in {"state", "journal"}, NEW t \in Tables, Succeeds(f, t)
       PROVE  /\ failures' \in 0 .. MaxFailures /\ failed' \in BOOLEAN
              /\ saved' \in [file : {"state", "journal"}, items : SUBSET Items]
  BY <1>11 DEF Succeeds, Tables
<1>12. CASE WriteState
  <2>1. Written(Table) \in Files
    BY FileType
  <2>2. /\ failures' \in 0 .. MaxFailures /\ failed' \in BOOLEAN
        /\ saved' \in [file : {"state", "journal"}, items : SUBSET Items]
        /\ {state', good'} \subseteq Files /\ saving' \in {"no", "write", "truncate", "clear"}
    BY <1>10, <1>11, <1>12, <2>1 DEF WriteState, Fails
  <2>. QED BY <1>12, <2>2 DEF WriteState, Table
<1>13. CASE Truncate
  <2>1. failures' \in 0 .. MaxFailures /\ saved' = saved
    BY <1>10, <1>13 DEF Truncate, Fails
  <2>4. journal' \in Files
    BY <1>13, FileType DEF Truncate
  <2>2. failed' \in BOOLEAN
    BY <1>10, <1>13 DEF Truncate
  <2>3. {leftover', journal_applied'} \subseteq BOOLEAN
    BY <1>13 DEF Truncate
  <2>. QED BY <1>13, <2>1, <2>2, <2>3, <2>4 DEF Truncate, Table
<1>14. CASE WriteJournal
  <2>1. Written(Snapshot(Table)) \in Files /\ Snapshot(Table) \in Tables
    BY FileType, SnapshotType
  <2>2. /\ failures' \in 0 .. MaxFailures
        /\ saved' \in [file : {"state", "journal"}, items : SUBSET Items]
        /\ failed' \in BOOLEAN
    BY <1>10, <1>11, <1>14, <2>1 DEF WriteJournal, Fails
  <2>3. {leftover', journal_writable'} \subseteq BOOLEAN
    BY <1>14 DEF WriteJournal
  <2>4. journal' \in Files
    BY <1>14, <2>1, FileType DEF WriteJournal
  <2>. QED BY <1>14, <2>2, <2>3, <2>4 DEF WriteJournal, Table
<1>15. CASE ClearDirty
  BY <1>15 DEF ClearDirty, Table
<1>16. CASE Exit
  BY <1>16 DEF Exit, Table
<1>17. CASE Crash
  BY <1>17 DEF Crash, Table
<1>18. CASE Corrupts
  BY <1>18, FileType, PersistenceAssumption DEF Corrupts, Table
<1>19. CASE PutBack
  BY <1>19 DEF PutBack, Table
<1>20. CASE UNCHANGED vars
  BY <1>20 DEF vars, Table
<1>. QED
  BY <1>1, <1>3, <1>4, <1>5, <1>6, <1>7, <1>8, <1>9, <1>12, <1>13, <1>14, <1>15, <1>16,
     <1>17, <1>18, <1>19, <1>20 DEF Next

-----------------------------------------------------------------------------
(* The rest of the invariant.  *)

(* Whether the table is on disk depends on the files, the table and the mode only.  *)
DiskVars == <<version, items, state, json, journal, state_writable>>

LEMMA OnDiskStays ==
    ASSUME UNCHANGED DiskVars
    PROVE  OnDisk' = OnDisk
BY DEF DiskVars, OnDisk, Restored, Readable, Loaded, AppliesJournal

(* A daemon starts with what is on disk.  *)
LEMMA StartsOnDisk ==
    ASSUME NEW v \in Versions, NEW jw \in BOOLEAN, Start(v, jw)
    PROVE  OnDisk'
<1>1. version' = v /\ Restored(v)' = Restored(v) /\ items' = Restored(v).items
  BY DEF Start, Restored, Readable, Loaded, AppliesJournal, fileVars
<1>. QED BY <1>1 DEF OnDisk

(* Who saves, and when.  *)
LEMMA SavesStep ==
    ASSUME TypeOK, SavesSound, [Next]_vars
    PROVE  SavesSound'
<1>. USE DEF SavesSound, Unlocked, saverVars, modeVars, SaveIfDirty
<1>1. CASE UNCHANGED <<phase, saving, then>>
  BY <1>1
<1>2. ASSUME NEW v \in Versions, NEW jw \in BOOLEAN, Start(v, jw) PROVE SavesSound'
  BY <1>2 DEF Start
<1>3. ASSUME NEW i, Accept(i) PROVE SavesSound'
  BY <1>1, <1>3 DEF Accept
<1>. QED
  BY <1>1, <1>2, <1>3
  DEF Next, SubmitJob, SetQuota, Reserve, SaverReads, SaverTicks, PassSaves, Stop, WriteState,
      Truncate, WriteJournal, ClearDirty, Exit, Crash, Corrupts, PutBack, vars

(* A journal is written in recovery mode only, and a start takes note of one.  *)
LEMMA JournalStep ==
    ASSUME TypeOK, SavesSound, JournalNoticed, [Next]_vars
    PROVE  JournalNoticed'
<1>. USE DEF JournalNoticed, SavesSound, Unlocked, fileVars, modeVars
<1>1. CASE UNCHANGED <<phase, fileVars, modeVars>>
  BY <1>1
<1>2. ASSUME NEW v \in Versions, NEW jw \in BOOLEAN, Start(v, jw) PROVE JournalNoticed'
  BY <1>2 DEF Start, AppliesJournal
<1>3. ASSUME NEW i, Accept(i) PROVE JournalNoticed'
  BY <1>3 DEF Accept
<1>4. CASE Truncate
  BY <1>4 DEF Truncate, Missing
<1>5. CASE Exit \/ Crash \/ Corrupts \/ PutBack
  BY <1>5 DEF Exit, Crash, Corrupts, PutBack
<1>6. CASE WriteJournal
  BY <1>6 DEF WriteJournal
<1>7. CASE SaverReads \/ SaverTicks \/ PassSaves
  BY <1>1, <1>7 DEF SaverReads, SaverTicks, PassSaves
<1>8. CASE Stop \/ WriteState \/ ClearDirty
  BY <1>8 DEF Stop, WriteState, ClearDirty
<1>. QED
  BY <1>1, <1>2, <1>3, <1>4, <1>5, <1>6, <1>7, <1>8 DEF Next, SubmitJob, SetQuota, Reserve, vars

(* A save that is half done, step by step.  *)
LEMMA MidwayStep ==
    ASSUME TypeOK, SavesSound, JournalNoticed, MidwaySound, [Next]_vars
    PROVE  MidwaySound'
<1>. USE DEF SavesSound, Unlocked
<1>1. CASE saving' \in {"no", "write"}
  BY <1>1 DEF MidwaySound
<1>2. CASE WriteState
  <2>1. saving = "write" /\ state_writable /\ phase = "up" /\ Table' = Table
        /\ items' = items /\ version' = version /\ state_writable' = state_writable
        /\ journal' = journal /\ json' = json
    BY <1>2 DEF WriteState, Table, tableVars, modeVars
  <2>2. CASE failed'
    BY <1>2, <2>2 DEF WriteState, MidwaySound, Succeeds
  <2>3. CASE ~failed'
    <3>1. /\ state' = Written(Table) /\ saved' = [file |-> "state", items |-> items]
          /\ saving' = IF journal_applied THEN "truncate" ELSE "clear"
      BY <1>2, <2>3 DEF WriteState, Succeeds, Fails, Table
    <3>2. CASE journal_applied
      BY <2>1, <2>3, <3>1, <3>2 DEF MidwaySound
    <3>3. CASE ~journal_applied
      <4>1. ~AppliesJournal' /\ Loaded' = Written(Table)
        BY <2>1, <3>1, <3>3 DEF JournalNoticed, AppliesJournal, Loaded, Missing, Written
      <4>2. Restored(version)'.items = items
        BY <2>1, <4>1 DEF Restored, Readable, Written, Table
      <4>. QED BY <2>1, <3>1, <3>3, <4>2 DEF MidwaySound, OnDisk
    <3>. QED BY <3>2, <3>3
  <2>. QED BY <2>2, <2>3
<1>3. CASE Truncate
  <2>1. /\ saving = "truncate" /\ saving' = "clear" /\ state_writable /\ ~failed
        /\ state' = Written(Table) /\ items' = items /\ Table' = Table
        /\ version' = version /\ state_writable' = state_writable
    BY <1>3 DEF Truncate, MidwaySound, Table, tableVars
  <2>2. CASE failed'
    BY <2>1, <2>2 DEF MidwaySound
  <2>3. CASE ~failed'
    <3>1. journal' = Missing
      BY <1>3, <2>3 DEF Truncate, Fails
    <3>2. ~AppliesJournal' /\ Loaded' = Written(Table)
      BY <2>1, <3>1 DEF AppliesJournal, Loaded, Missing, Written
    <3>3. Restored(version)'.items = items
      BY <2>1, <3>2 DEF Restored, Readable, Written, Table
    <3>. QED BY <2>1, <3>3 DEF MidwaySound, OnDisk
  <2>. QED BY <2>2, <2>3
<1>4. CASE WriteJournal
  <2>1. /\ saving' = "clear" /\ ~state_writable /\ ~state_writable' /\ items' = items
        /\ version' = version /\ Table' = Table
    BY <1>4 DEF WriteJournal, Table, tableVars
  <2>2. CASE failed' \/ ~CanMutate'
    BY <2>1, <2>2 DEF MidwaySound
  <2>3. CASE ~failed' /\ CanMutate'
    <3>1. journal' = Written(Snapshot(Table))
      BY <1>4, <2>1, <2>3 DEF WriteJournal, Fails, CanMutate
    <3>2. Table \in Tables
      BY DEF TypeOK
    <3>3. Restored(version)'.items = items \ Quotas
      BY <2>1, <3>1, <3>2, SnapshotType DEF Restored, AppliesJournal, Written, Table
    <3>. QED BY <2>1, <3>3 DEF MidwaySound, OnDisk
  <2>. QED BY <2>2, <2>3
<1>5. CASE UNCHANGED <<saving, DiskVars, CanMutate, failed, table_version, next_job_id, saved>>
  BY <1>5, OnDiskStays DEF MidwaySound, DiskVars, Table
<1>6. saving' \in {"no", "write"} \/ UNCHANGED vars
      \/ WriteState \/ Truncate \/ WriteJournal
  <2>1. ASSUME NEW i, Accept(i) PROVE saving' = "no"
    BY <2>1 DEF Accept
  <2>2. ASSUME SaverTicks \/ PassSaves \/ Stop \/ SaverReads PROVE saving' \in {"no", "write"}
    BY <2>2 DEF SaverTicks, PassSaves, Stop, SaverReads, SaveIfDirty
  <2>3. ASSUME ClearDirty \/ Exit \/ Crash \/ Corrupts \/ PutBack PROVE saving' = "no"
    BY <2>3 DEF ClearDirty, Exit, Crash, Corrupts, PutBack, saverVars
  <2>4. ASSUME NEW v \in Versions, NEW jw \in BOOLEAN, Start(v, jw) PROVE saving' = "no"
    BY <2>4 DEF Start
  <2>. QED BY <2>1, <2>2, <2>3, <2>4 DEF Next, SubmitJob, SetQuota, Reserve
<1>. QED
  BY <1>1, <1>2, <1>3, <1>4, <1>5, <1>6
  DEF vars, DiskVars, CanMutate, tableVars, modeVars, fileVars, historyVars, saverVars

(* What is not marked as dirty is on disk.  *)
LEMMA CleanStep ==
    ASSUME TypeOK, SavesSound, MidwaySound, CleanMeansSaved, [Next]_vars
    PROVE  CleanMeansSaved'
<1>. USE DEF Unlocked
<1>1. CASE ~Serving' \/ failed' \/ ~CanMutate'
  BY <1>1 DEF CleanMeansSaved
<1>2. ASSUME NEW v \in Versions, NEW jw \in BOOLEAN, Start(v, jw) PROVE CleanMeansSaved'
  BY <1>2, StartsOnDisk DEF CleanMeansSaved
<1>3. ASSUME NEW i, Accept(i) PROVE CleanMeansSaved'
  BY <1>3 DEF Accept, CleanMeansSaved, MarkDirty, CanMutate, modeVars
<1>4. CASE ClearDirty
  <2>1. /\ saving = "clear" /\ failed' = failed /\ CanMutate' = CanMutate
        /\ UNCHANGED DiskVars
    BY <1>4 DEF ClearDirty, CanMutate, tableVars, modeVars, fileVars, historyVars, DiskVars
  <2>. QED BY <1>1, <2>1, OnDiskStays DEF MidwaySound, CleanMeansSaved
<1>5. CASE Stop
  <2>1. /\ phase = "up" /\ Unlocked /\ failed' = failed /\ CanMutate' = CanMutate
        /\ dirty' = dirty /\ UNCHANGED DiskVars
        /\ dirty => saving' = "write"
    BY <1>5 DEF Stop, SaveIfDirty, CanMutate, tableVars, modeVars, fileVars, historyVars,
                DiskVars
  <2>. QED BY <2>1, OnDiskStays DEF CleanMeansSaved, Serving
<1>6. CASE UNCHANGED <<phase, DiskVars, CanMutate, failed, dirty, late, saving>>
  BY <1>6, OnDiskStays DEF CleanMeansSaved, Serving
<1>7. ASSUME SaverReads \/ SaverTicks \/ PassSaves \/ UNCHANGED vars PROVE CleanMeansSaved'
  <2>1. CASE saving' = "write"
    BY <1>1, <2>1 DEF Serving
  <2>2. CASE saving' # "write"
    <3>1. UNCHANGED <<phase, DiskVars, CanMutate, failed, dirty, late>>
      BY <1>7 DEF SaverReads, SaverTicks, PassSaves, vars, CanMutate, tableVars, modeVars,
                  fileVars, historyVars, DiskVars
    <3>2. saving' = saving
      BY <1>7, <2>2 DEF SaverReads, SaverTicks, PassSaves, SaveIfDirty, vars, saverVars
    <3>. QED BY <1>6, <3>1, <3>2
  <2>. QED BY <2>1, <2>2
<1>8. ASSUME WriteState \/ Truncate \/ WriteJournal PROVE ~Serving'
  BY <1>8 DEF WriteState, Truncate, WriteJournal, Serving
<1>9. ASSUME Exit \/ Crash \/ Corrupts \/ PutBack PROVE ~Serving'
  BY <1>9 DEF Exit, Crash, Corrupts, PutBack, Serving
<1>. QED
  BY <1>1, <1>2, <1>3, <1>4, <1>5, <1>7, <1>8, <1>9 DEF Next, SubmitJob, SetQuota, Reserve

(* The files.  *)
LEMMA FilesStep ==
    ASSUME TypeOK, FilesSound, [Next]_vars
    PROVE  FilesSound'
<1>1. CASE UNCHANGED <<state, json, good>>
  BY <1>1 DEF FilesSound
<1>2. CASE WriteState
  <2>1. Written(Table) # Corrupt
    BY DEF Written, Corrupt
  <2>. QED BY <1>2, <2>1 DEF WriteState, FilesSound
<1>3. CASE Corrupts
  BY <1>3 DEF Corrupts, FilesSound, historyVars
<1>4. CASE PutBack
  BY <1>4 DEF PutBack, FilesSound, historyVars
<1>5. WriteState \/ Corrupts \/ PutBack \/ UNCHANGED <<state, json, good>>
  BY DEF Next, Start, SubmitJob, SetQuota, Reserve, Accept, SaverReads, SaverTicks, PassSaves,
         Stop, Truncate, WriteJournal, ClearDirty, Exit, Crash, vars, fileVars, historyVars
<1>. QED BY <1>1, <1>2, <1>3, <1>4, <1>5

(* What the last save wrote is where it was written.  *)
LEMMA SavedStep ==
    ASSUME TypeOK, SavesSound, JournalNoticed, MidwaySound, FilesSound, SavedSound, [Next]_vars
    PROVE  SavedSound'
<1>1. CASE UNCHANGED <<leftover, saved, journal, good>>
           /\ (saving = "truncate" => saving' = "truncate")
  BY <1>1 DEF SavedSound
<1>2. CASE WriteState
  <2>1. /\ saving = "write" /\ phase = "up" /\ state_writable
        /\ leftover' = leftover /\ journal' = journal
    BY <1>2 DEF WriteState, SavesSound
  <2>2. CASE saved' = saved /\ good' = good
    BY <2>1, <2>2 DEF SavedSound
  <2>3. CASE saved' # saved \/ good' # good
    <3>1. /\ saved'.file = "state" /\ saved'.items = items
          /\ good' = Written(Table)
          /\ saving' = IF journal_applied THEN "truncate" ELSE "clear"
      BY <1>2, <2>3 DEF WriteState, Succeeds, Fails, Table
    <3>2. good'.table.items = items
      BY <3>1 DEF Written, Table
    <3>3. saving' # "truncate" => journal'.is # "written"
      BY <2>1, <3>1 DEF JournalNoticed
    <3>. QED BY <3>1, <3>2, <3>3 DEF SavedSound
  <2>. QED BY <2>2, <2>3
<1>3. CASE Truncate
  <2>1. CASE leftover'
    BY <2>1 DEF SavedSound
  <2>2. CASE ~leftover'
    <3>1. /\ saving = "truncate" /\ journal' = Missing /\ saved' = saved /\ good' = good
      BY <1>3, <2>2 DEF Truncate, Fails
    <3>2. saved = [file |-> "state", items |-> items] /\ state = Written(Table)
      BY <3>1 DEF MidwaySound
    <3>3. good.table.items = items
      BY <3>2 DEF FilesSound, Written, Corrupt, Table
    <3>. QED BY <3>1, <3>2, <3>3 DEF SavedSound, Missing
  <2>. QED BY <2>1, <2>2
<1>4. CASE WriteJournal
  <2>1. /\ saving = "write" /\ saving' = "clear" /\ good' = good
    BY <1>4 DEF WriteJournal
  <2>2. CASE leftover'
    BY <2>2 DEF SavedSound
  <2>3. CASE ~leftover' /\ journal' = Written(Snapshot(Table))
             /\ saved' = [file |-> "journal", items |-> Snapshot(Table).items]
    BY <2>1, <2>3 DEF SavedSound, Written
  <2>4. CASE ~leftover' /\ ~leftover /\ journal' = journal /\ saved' = saved
    BY <2>1, <2>4 DEF SavedSound
  <2>. QED BY <1>4, <2>2, <2>3, <2>4 DEF WriteJournal, Succeeds, Fails, TypeOK
<1>5. CASE Crash
  BY <1>5 DEF Crash, SavedSound, fileVars, historyVars
<1>6. ASSUME SaverReads \/ SaverTicks \/ PassSaves \/ Stop \/ ClearDirty \/ Exit \/ Corrupts
             \/ PutBack \/ UNCHANGED vars
      PROVE  SavedSound'
  <2>1. UNCHANGED <<leftover, saved, journal, good>>
    BY <1>6 DEF SaverReads, SaverTicks, PassSaves, Stop, ClearDirty, Exit, Corrupts, PutBack,
                vars, fileVars, historyVars
  <2>2. saving = "truncate" => saving' = "truncate"
    BY <1>6 DEF SaverReads, SaverTicks, PassSaves, Stop, ClearDirty, Exit, Corrupts, PutBack,
                vars, Unlocked, SavesSound, saverVars
  <2>. QED BY <1>1, <2>1, <2>2
<1>7. ASSUME NEW v \in Versions, NEW jw \in BOOLEAN, Start(v, jw) PROVE SavedSound'
  BY <1>1, <1>7 DEF Start, SavesSound, fileVars
<1>8. ASSUME NEW i, Accept(i) PROVE SavedSound'
  BY <1>1, <1>8 DEF Accept, fileVars
<1>. QED
  BY <1>2, <1>3, <1>4, <1>5, <1>6, <1>7, <1>8 DEF Next, SubmitJob, SetQuota, Reserve

-----------------------------------------------------------------------------
(* The theorems.  *)

(* The invariant holds at the start ...  *)
LEMMA InitIInv == Init => IInv
<1>. SUFFICES ASSUME Init PROVE IInv
  OBVIOUS
<1>1. SavesSound /\ JournalNoticed /\ MidwaySound /\ CleanMeansSaved
  BY DEF Init, SavesSound, JournalNoticed, MidwaySound, CleanMeansSaved, Serving
<1>2. FilesSound
  BY DEF Init, FilesSound, Missing, Corrupt, Written
<1>3. good.table.items = {}
  BY DEF Init, Missing, Written, Fresh
<1>4. SavedSound
  BY <1>3 DEF Init, SavedSound, Missing
<1>. QED BY <1>1, <1>2, <1>4, TypeInit DEF IInv

(* ... and every step keeps it ...  *)
LEMMA NextIInv ==
    ASSUME IInv, [Next]_vars
    PROVE  IInv'
BY TypeStep, SavesStep, JournalStep, MidwayStep, CleanStep, FilesStep, SavedStep DEF IInv

(* ... so it holds always.  *)
LEMMA Inductive == Spec => []IInv
<1>1. Init => IInv
  BY InitIInv
<1>2. IInv /\ [Next]_vars => IInv'
  BY NextIInv
<1>. QED BY <1>1, <1>2, PTL DEF Spec

(* A table that is not marked as dirty is what a start of the same version would find,
   but for the overrides the journal leaves out (state_saver.rs, persistence.rs): after
   any writes that fail, journals, changes of version and stops.  *)
THEOREM CleanIsOnDisk == Spec => []CleanMeansOnDisk
<1>1. IInv => CleanMeansOnDisk
  BY DEF IInv, CleanMeansOnDisk
<1>. QED BY <1>1, Inductive, PTL

(* A start finds what the last successful save wrote, in whichever file, unless that file
   became unreadable or the journal outlived the save that replaces it (load_state).  *)
THEOREM SavedIsFound == Spec => NothingSavedIsLost
<1>1. ASSUME IInv, [Next]_vars, phase = "down", phase' = "up", ~leftover,
             state = Corrupt => saved.file = "journal"
      PROVE  items' = saved.items
  <2>1. PICK v \in Versions, jw \in BOOLEAN : Start(v, jw)
    BY <1>1 DEF Next, SubmitJob, SetQuota, Reserve, Accept, SaverReads, SaverTicks, PassSaves,
                Stop, WriteState, Truncate, WriteJournal, ClearDirty, Exit, Crash, Corrupts,
                PutBack, vars, IInv, SavesSound
  <2>2. items' = Restored(v).items
    BY <2>1 DEF Start
  <2>3. CASE saved.file = "journal"
    BY <1>1, <2>2, <2>3 DEF IInv, SavedSound, Restored, AppliesJournal
  <2>4. CASE saved.file # "journal"
    <3>1. ~AppliesJournal /\ good.table.items = saved.items /\ state = good
      BY <1>1, <2>4 DEF IInv, SavesSound, SavedSound, FilesSound, AppliesJournal
    <3>2. CASE state.is = "written"
      <4>1. Loaded = state
        BY <3>2 DEF Loaded, Missing
      <4>2. state.table \in Tables
        BY <1>1, FileType DEF IInv, TypeOK
      <4>3. Restored(v).items = state.table.items
        BY <3>1, <3>2, <4>1, <4>2 DEF Restored, Tables
      <4>. QED BY <2>2, <3>1, <4>3
    <3>3. CASE state.is # "written"
      <4>1. state = Missing
        BY <1>1, <3>1, <3>3 DEF IInv, TypeOK, FilesSound, Files, Written
      <4>2. saved.items = {}
        BY <3>1, <4>1 DEF Missing, Fresh
      <4>3. Loaded.table = Fresh /\ Loaded.is # "corrupt"
        BY <1>1, <4>1 DEF IInv, FilesSound, Loaded, Missing, Written
      <4>4. Restored(v).items = {}
        BY <3>1, <4>3 DEF Restored, Fresh
      <4>. QED BY <2>2, <4>2, <4>4
    <3>. QED BY <3>2, <3>3
  <2>. QED BY <2>3, <2>4
<1>. QED BY <1>1, Inductive, PTL DEF Spec, NothingSavedIsLost

-----------------------------------------------------------------------------
(***************************************************************************)
(* The GPUs.  The invariant, in parts.                                      *)
(***************************************************************************)

(* A process of a GPU, and what a slot can say.  *)
Pairs == Gpus \X Here.pids
Uses == {"none", "exclusive", "shared"}
Whys == {"none", "unmanaged", "ignored", "nvml_query_failed"}
Slots == [available : BOOLEAN, reason : [why : Whys, pids : SUBSET Here.pids]]

GpuShapes ==
    /\ machine \in DOMAIN Machines
    /\ slots \in [Gpus -> Slots]
    /\ due \in BOOLEAN
    /\ spent \in [blind : Nat, restarts : Nat]
    /\ past \in [met : SUBSET Pairs, gone : SUBSET Pairs, excused : SUBSET Pairs,
                 offered : SUBSET Gpus, missed : SUBSET Gpus, under : [Gpus -> Uses]]
    /\ past.met \subseteq procs

(* Only a GPU of an exclusive job is said to be taken without a reason.  *)
Unexplained(slot) == ~slot.available /\ slot.reason.why = "none"
ReasonsGiven == \A g \in Gpus : Unexplained(slots[g]) => past.under[g] = "exclusive"

(* ginfo asks for the jobs with slots that were so when it asked for them.  *)
AskSound ==
    ask.op = "jobs" =>
        \A g \in Gpus : /\ ask.slots[g] \in Slots
                        /\ Unexplained(ask.slots[g]) => ask.under[g] = "exclusive"

(* A GPU that the monitor saw available and that is not is remembered as missed.  *)
LossesMissed == \A g \in Gpus : seen[g] = "yes" /\ ~Free(g) => g \in past.missed

(* StrangersSpared for a pass that would be made now.  *)
FreeOfStrangers ==
    \A g \in Gpus : Free(g) =>
        \/ past.under[g] = "shared"
        \/ \A e \in past.met : e[1] = g => e \in past.excused

GpuIInv == /\ GpuTypeOK /\ GpuShapes /\ OverridesLapse /\ BusyGpusShown /\ FreeGpuNoticed
           /\ ReasonsGiven /\ AskSound /\ LossesMissed /\ FreeOfStrangers

-----------------------------------------------------------------------------
(* What a step is, as far as the slots go.  *)

(* A look at the GPUs with the overrides of a list, those of processes that run added or
   any taken away.  *)
LookStep ==
    \E v \in Views : \E list \in SUBSET Pairs :
        /\ list \ ignored \subseteq procs
        /\ Refresh(v, held', list) /\ Remember(v)
        /\ UNCHANGED <<machine, procs, allowed, ask>>

(* A step that looks at no GPU.  *)
BlindStep ==
    /\ UNCHANGED <<machine, slots, ignored, spent>>
    /\ Remember(NoView)

(* The variables that neither kind of step decides keep their types.  *)
RestTyped ==
    /\ held' \in [Gpus -> Uses] /\ allowed' \subseteq Gpus
    /\ procs' \subseteq Pairs
    /\ seen' \in [Gpus -> {"never", "yes", "no"}] /\ due' \in BOOLEAN

(* The history a step leaves, part by part.  *)
LEMMA Remembered ==
    ASSUME NEW v, Remember(v)
    PROVE  /\ past'.met = {e \in procs' : e \in past.met \/ e[1] \in Listed(v)}
           /\ past'.gone = {e \in (past.gone \cup procs) \ procs' : e[1] \notin Listed(v)}
           /\ past'.excused =
                 {e \in past.excused \cup (ignored' \ ignored)
                           \cup ((procs' \ procs) \cap ignored \cap past.gone) :
                    e \in procs' /\ (e[1] \notin v.missing => e \in ignored')}
           /\ past'.under = [g \in Gpus |-> IF g \in v.missing THEN past.under[g] ELSE held'[g]]
           /\ past'.offered =
                 {g \in past.offered \cup (IF due /\ ~due' THEN Available ELSE {}) : Free(g)'}
           /\ past'.missed =
                 {g \in Gpus : seen'[g] # "no" /\
                    \/ g \in (past.missed \ (IF due /\ ~due' THEN Available ELSE {}))
                              \cup (allowed' \ allowed)
                    \/ seen[g] = "yes" /\ ~Free(g)'}
           /\ past' = [met |-> past'.met, gone |-> past'.gone, excused |-> past'.excused,
                       under |-> past'.under, offered |-> past'.offered, missed |-> past'.missed]
BY Zenon DEF Remember

(* What a look makes of a GPU.  *)
LEMMA LookedIs ==
    ASSUME GpuIInv, NEW g \in Gpus, NEW list \in SUBSET Pairs,
           NEW uses \in [Gpus -> Uses]
    PROVE  /\ Looked(g, uses, list) \in Slots
           /\ Unreadable(g, uses) \in Slots
           /\ Looked(g, uses, list).available
                 <=> uses[g] = "shared" \/ (uses[g] = "none" /\ On(g, procs) \subseteq On(g, list))
           /\ Unreadable(g, uses).available <=> uses[g] = "shared"
           /\ Unexplained(Looked(g, uses, list)) => uses[g] = "exclusive"
           /\ Unexplained(Unreadable(g, uses)) => uses[g] = "exclusive"
<1> DEFINE excused == On(g, procs) \cap On(g, list)
           others == On(g, procs) \ excused
           why == IF uses[g] # "none" \/ On(g, procs) = {} THEN Nothing
                  ELSE IF others # {} THEN [why |-> "unmanaged", pids |-> others]
                  ELSE [why |-> "ignored", pids |-> excused]
           free == uses[g] = "shared" \/ (uses[g] = "none" /\ others = {})
<1>1. Looked(g, uses, list) = [available |-> free, reason |-> why]
  BY Zenon DEF Looked, Excused
<1>2. uses[g] \in Uses
  OBVIOUS
<1>3. excused \in SUBSET Here.pids /\ others \in SUBSET Here.pids
  BY DEF On
<1>4. others = {} <=> On(g, procs) \subseteq On(g, list)
  OBVIOUS
<1> HIDE DEF excused, others
<1>6. why \in [why : Whys, pids : SUBSET Here.pids]
  BY <1>3 DEF Nothing, Whys
<1>7. why.why = "none" => uses[g] # "none" \/ On(g, procs) = {}
  BY DEF Nothing
<1>8. On(g, procs) = {} => others = {}
  BY DEF others
<1>. QED
  <2>1. Looked(g, uses, list).available = free /\ Looked(g, uses, list).reason = why
    BY <1>1
  <2>2. Looked(g, uses, list) \in Slots
    BY <1>1, <1>6 DEF Slots
  <2>3. Unexplained(Looked(g, uses, list)) => uses[g] = "exclusive"
    BY <2>1, <1>2, <1>7, <1>8 DEF Unexplained, Uses
  <2>4. /\ Unreadable(g, uses) \in Slots
        /\ Unreadable(g, uses).available <=> uses[g] = "shared"
        /\ Unexplained(Unreadable(g, uses)) => uses[g] = "exclusive"
    BY <1>2 DEF Unreadable, Slots, Nothing, Whys, Unexplained, Uses
  <2>. QED BY <2>1, <2>2, <2>3, <2>4, <1>4

-----------------------------------------------------------------------------
(* What a look leaves of the slots and of the overrides.  *)
LEMMA RefreshedIs ==
    ASSUME GpuIInv, NEW v \in Views, NEW list \in SUBSET Pairs, Refresh(v, held', list),
           RestTyped
    PROVE  /\ slots' \in [Gpus -> Slots]
           /\ ignored' = {e \in list : e[1] \in Listed(v) => e \in procs}
           /\ spent' \in [blind : Nat, restarts : Nat]
           /\ spent'.blind <= Here.blind /\ spent'.restarts = spent.restarts
           /\ spent' = [blind |-> 0, restarts |-> 0] => Listed(v) = Gpus /\ spent' = spent
           /\ \A g \in Gpus :
                 /\ g \in v.missing => slots'[g] = slots[g]
                 /\ g \notin v.missing /\ g \in v.unread => slots'[g] = Unreadable(g, held')
                 /\ g \in Listed(v) => slots'[g] = Looked(g, held', list)
<1>1. /\ spent' = [spent EXCEPT !.blind = @ + (IF Listed(v) = Gpus THEN 0 ELSE 1)]
      /\ spent'.blind <= Here.blind
      /\ slots' = [g \in Gpus |-> IF g \in v.missing THEN slots[g]
                                  ELSE IF g \in v.unread THEN Unreadable(g, held')
                                  ELSE Looked(g, held', list)]
      /\ ignored' = {e \in list : e[1] \in Listed(v) => e \in procs}
  BY DEF Refresh, Kept
<1>2. held' \in [Gpus -> Uses] /\ slots \in [Gpus -> Slots]
      /\ spent \in [blind : Nat, restarts : Nat]
  BY DEF RestTyped, GpuIInv, GpuShapes
<1>3. slots' \in [Gpus -> Slots]
  <2>1. \A g \in Gpus : Unreadable(g, held') \in Slots /\ Looked(g, held', list) \in Slots
    BY <1>2, LookedIs
  <2>. QED BY <1>1, <1>2, <2>1
<1>4. /\ spent' \in [blind : Nat, restarts : Nat] /\ spent'.restarts = spent.restarts
      /\ spent' = [blind |-> 0, restarts |-> 0] => Listed(v) = Gpus /\ spent' = spent
  <2>1. CASE Listed(v) = Gpus
    BY <1>1, <1>2, <2>1
  <2>2. CASE Listed(v) # Gpus
    BY <1>1, <1>2, <2>2
  <2>. QED BY <2>1, <2>2
<1>5. \A g \in Gpus : /\ g \in v.missing => slots'[g] = slots[g]
                      /\ g \notin v.missing /\ g \in v.unread => slots'[g] = Unreadable(g, held')
                      /\ g \in Listed(v) => slots'[g] = Looked(g, held', list)
  BY <1>1 DEF Listed
<1>. QED BY <1>1, <1>3, <1>4, <1>5

(* A history that is kept has its type.  *)
LEMMA HistoryTyped ==
    ASSUME GpuIInv, NEW v, Remember(v), RestTyped, UNCHANGED machine, ignored' \subseteq Pairs
    PROVE  /\ past' \in [met : SUBSET Pairs, gone : SUBSET Pairs, excused : SUBSET Pairs,
                         offered : SUBSET Gpus, missed : SUBSET Gpus, under : [Gpus -> Uses]]
           /\ past'.met \subseteq procs'
<1>1. /\ past.met \subseteq Pairs /\ past.gone \subseteq Pairs /\ past.excused \subseteq Pairs
      /\ past.offered \subseteq Gpus /\ past.under \in [Gpus -> Uses] /\ procs \subseteq Pairs
      /\ Available \subseteq Gpus
  BY DEF GpuIInv, GpuShapes, GpuTypeOK, Available, Pairs
<1>2. past'.met \subseteq Pairs /\ past'.met \subseteq procs' /\ past'.gone \subseteq Pairs
  BY <1>1, Remembered DEF RestTyped
<1>3. past'.excused \subseteq Pairs
  BY <1>1, Remembered DEF RestTyped
<1>4. past'.offered \subseteq Gpus /\ past'.missed \subseteq Gpus
  BY <1>1, Remembered
<1>5. past'.under \in [Gpus -> Uses]
  <2>1. past'.under = [g \in Gpus |-> IF g \in v.missing THEN past.under[g] ELSE held'[g]]
    BY Zenon, Remembered
  <2>. QED BY <1>1, <2>1 DEF RestTyped
<1>6. past' = [met |-> past'.met, gone |-> past'.gone, excused |-> past'.excused,
               under |-> past'.under, offered |-> past'.offered, missed |-> past'.missed]
  BY Zenon, Remembered
<1> HIDE DEF Pairs
<1>. QED
  <2>1. \A a, b, c, d, f, h :
           a \in SUBSET Pairs /\ b \in SUBSET Pairs /\ c \in SUBSET Pairs /\ d \in [Gpus -> Uses]
           /\ f \in SUBSET Gpus /\ h \in SUBSET Gpus
           => [met |-> a, gone |-> b, excused |-> c, under |-> d, offered |-> f, missed |-> h]
              \in [met : SUBSET Pairs, gone : SUBSET Pairs, excused : SUBSET Pairs,
                   offered : SUBSET Gpus, missed : SUBSET Gpus, under : [Gpus -> Uses]]
    OBVIOUS
  <2>. QED BY <1>2, <1>3, <1>4, <1>5, <1>6, <2>1

(* What one of the two kinds of step has to leave.  *)
SlotsKept ==
    /\ GpuTypeOK /\ GpuShapes /\ OverridesLapse /\ ReasonsGiven /\ FreeOfStrangers

(* A look keeps it.  *)
LEMMA LookKeeps ==
    ASSUME GpuIInv, LookStep, RestTyped
    PROVE  SlotsKept'
<1>1. PICK v \in Views, list \in SUBSET Pairs :
          /\ list \ ignored \subseteq procs
          /\ Refresh(v, held', list) /\ Remember(v)
          /\ UNCHANGED <<machine, procs, allowed, ask>>
  BY DEF LookStep
<1>2. Gpus' = Gpus /\ Here' = Here /\ Pairs' = Pairs /\ Slots' = Slots
  BY <1>1 DEF Gpus, Here, Pairs, Slots
<1>3. /\ GpuTypeOK /\ GpuShapes /\ OverridesLapse /\ ReasonsGiven /\ FreeOfStrangers
      /\ procs' = procs
  BY <1>1 DEF GpuIInv
<1>4. /\ slots' \in [Gpus -> Slots]
      /\ ignored' = {e \in list : e[1] \in Listed(v) => e \in procs}
      /\ spent' \in [blind : Nat, restarts : Nat]
      /\ spent'.blind <= Here.blind /\ spent'.restarts = spent.restarts
      /\ \A g \in Gpus :
            /\ g \in v.missing => slots'[g] = slots[g]
            /\ g \notin v.missing /\ g \in v.unread => slots'[g] = Unreadable(g, held')
            /\ g \in Listed(v) => slots'[g] = Looked(g, held', list)
  BY <1>1, RefreshedIs
<1>5. ignored' \subseteq Pairs
  BY <1>4
<1>6. GpuTypeOK'
  BY <1>2, <1>3, <1>4, <1>5 DEF GpuTypeOK, RestTyped, GpuShapes, Uses, Pairs
<1>7. GpuShapes'
  <2>1. machine' \in DOMAIN Machines
    BY <1>1, <1>3 DEF GpuShapes
  <2>2. /\ past' \in [met : SUBSET Pairs, gone : SUBSET Pairs, excused : SUBSET Pairs,
                      offered : SUBSET Gpus, missed : SUBSET Gpus, under : [Gpus -> Uses]]
        /\ past'.met \subseteq procs'
    BY <1>1, <1>5, HistoryTyped
  <2>. QED BY <1>2, <1>4, <2>1, <2>2 DEF GpuShapes, RestTyped
<1>8. \A e \in ignored' : e \in Pairs /\ e[1] \in Gpus
  BY <1>5 DEF Pairs
<1>9. v.missing \cap Listed(v) = {} /\ \A g \in Gpus : g \in v.missing \cup v.unread \cup Listed(v)
  BY DEF Listed
<1>10. \A e \in ignored' : e \in procs => e \in past'.excused
  BY <1>1, <1>3, <1>4, Remembered DEF OverridesLapse
<1>11. \A e \in ignored' : e \notin procs => e \in past'.gone
  BY <1>1, <1>3, <1>4, Remembered DEF OverridesLapse
<1>12. OverridesLapse'
  BY <1>3, <1>10, <1>11 DEF OverridesLapse
<1>13. \A g \in Gpus : /\ g \in v.missing => past'.under[g] = past.under[g]
                       /\ g \notin v.missing => past'.under[g] = held'[g]
  <2>1. past'.under = [g \in Gpus |-> IF g \in v.missing THEN past.under[g] ELSE held'[g]]
    BY <1>1, Zenon, Remembered
  <2>. QED BY <2>1
<1>14. held' \in [Gpus -> Uses]
  BY DEF RestTyped
<1>15. \A g \in Gpus :
          /\ Looked(g, held', list).available
                <=> held'[g] = "shared"
                    \/ (held'[g] = "none" /\ On(g, procs) \subseteq On(g, list))
          /\ Unreadable(g, held').available <=> held'[g] = "shared"
          /\ Unexplained(Looked(g, held', list)) => held'[g] = "exclusive"
          /\ Unexplained(Unreadable(g, held')) => held'[g] = "exclusive"
  BY <1>14, LookedIs
<1>16. /\ past'.met = {e \in procs' : e \in past.met \/ e[1] \in Listed(v)}
       /\ past'.excused =
             {e \in past.excused \cup (ignored' \ ignored)
                       \cup ((procs' \ procs) \cap ignored \cap past.gone) :
                e \in procs' /\ (e[1] \notin v.missing => e \in ignored')}
  BY <1>1, Zenon, Remembered
<1>17. ReasonsGiven'
  <2> SUFFICES ASSUME NEW g \in Gpus, Unexplained(slots[g])'
               PROVE  past'.under[g] = "exclusive"
    BY <1>2 DEF ReasonsGiven
  <2>1. CASE g \in v.missing
    BY <2>1, <1>3, <1>4, <1>13 DEF ReasonsGiven, Unexplained
  <2>2. CASE g \notin v.missing /\ g \in v.unread
    BY <2>2, <1>4, <1>13, <1>15 DEF Unexplained
  <2>3. CASE g \in Listed(v)
    BY <2>3, <1>4, <1>9, <1>13, <1>15 DEF Unexplained
  <2>. QED BY <1>9, <2>1, <2>2, <2>3
<1>18. FreeOfStrangers'
  <2> SUFFICES ASSUME NEW g \in Gpus, slots'[g].available, past'.under[g] # "shared",
                      NEW e \in past'.met, e[1] = g
               PROVE  e \in past'.excused
    BY <1>2 DEF FreeOfStrangers, Free
  <2>1. e \in procs /\ (e \in past.met \/ g \in Listed(v)) /\ e \in Pairs
    BY <1>3, <1>16 DEF GpuTypeOK, Pairs
  <2>2. CASE g \in v.missing
    <3>1. e \in past.met /\ e \in past.excused
      BY <2>1, <2>2, <1>3, <1>4, <1>9, <1>13 DEF FreeOfStrangers, Free
    <3>. QED BY <3>1, <2>1, <2>2, <1>3, <1>16
  <2>3. CASE g \notin v.missing /\ g \in v.unread
    BY <2>3, <1>4, <1>13, <1>15
  <2>4. CASE g \in Listed(v)
    <3>1. On(g, procs) \subseteq On(g, list)
      BY <2>4, <1>4, <1>9, <1>13, <1>15
    <3>2. e = <<g, e[2]>> /\ e[2] \in Here.pids
      BY <2>1 DEF Pairs
    <3>3. e \in list
      BY <2>1, <3>1, <3>2 DEF On
    <3>4. e \in ignored'
      BY <2>1, <3>3, <1>4
    <3>. QED BY <3>4, <2>1, <1>10
  <2>. QED BY <1>9, <2>2, <2>3, <2>4
<1>. QED BY <1>6, <1>7, <1>12, <1>17, <1>18 DEF SlotsKept

(* So does a step that looks at nothing: what was remembered of a process is forgotten
   only when the process is gone.  *)
LEMMA BlindKeeps ==
    ASSUME GpuIInv, BlindStep, RestTyped
    PROVE  SlotsKept'
<1>1. /\ UNCHANGED <<machine, slots, ignored, spent>> /\ Remember(NoView)
      /\ GpuTypeOK /\ GpuShapes /\ OverridesLapse /\ ReasonsGiven /\ FreeOfStrangers
  BY DEF GpuIInv, BlindStep
<1>2. Gpus' = Gpus /\ Here' = Here /\ Pairs' = Pairs /\ Slots' = Slots
  BY <1>1 DEF Gpus, Here, Pairs, Slots
<1>3. ignored \subseteq Pairs /\ \A e \in ignored : e[1] \in Gpus
  BY <1>1 DEF GpuTypeOK, Pairs
<1>4. NoView.missing = Gpus /\ Listed(NoView) = {}
  BY DEF NoView, Listed
<1>5. /\ past'.met = {e \in procs' : e \in past.met \/ e[1] \in Listed(NoView)}
      /\ past'.gone = {e \in (past.gone \cup procs) \ procs' : e[1] \notin Listed(NoView)}
      /\ past'.excused =
            {e \in past.excused \cup (ignored' \ ignored)
                      \cup ((procs' \ procs) \cap ignored \cap past.gone) :
               e \in procs' /\ (e[1] \notin NoView.missing => e \in ignored')}
      /\ past'.under =
            [g \in Gpus |-> IF g \in NoView.missing THEN past.under[g] ELSE held'[g]]
  BY <1>1, Zenon, Remembered
<1>6. \A g \in Gpus : past'.under[g] = past.under[g]
  BY <1>4, <1>5
<1>7. GpuTypeOK'
  BY <1>1, <1>2, <1>3 DEF GpuTypeOK, RestTyped, Uses, Pairs
<1>8. GpuShapes'
  <2>1. /\ past' \in [met : SUBSET Pairs, gone : SUBSET Pairs, excused : SUBSET Pairs,
                      offered : SUBSET Gpus, missed : SUBSET Gpus, under : [Gpus -> Uses]]
        /\ past'.met \subseteq procs'
    BY <1>1, <1>3, HistoryTyped
  <2>. QED BY <1>1, <1>2, <2>1 DEF GpuShapes, RestTyped
<1>9. OverridesLapse'
  BY <1>1, <1>3, <1>4, <1>5 DEF OverridesLapse
<1>10. ReasonsGiven'
  BY <1>1, <1>2, <1>6 DEF ReasonsGiven, Unexplained
<1>11. FreeOfStrangers'
  <2> SUFFICES ASSUME NEW g \in Gpus, slots'[g].available, past'.under[g] # "shared",
                      NEW e \in past'.met, e[1] = g
               PROVE  e \in past'.excused
    BY <1>2 DEF FreeOfStrangers, Free
  <2>1. e \in procs' /\ e \in past.met
    BY <1>4, <1>5
  <2>2. e \in past.excused
    BY <2>1, <1>1, <1>6 DEF FreeOfStrangers, Free
  <2>. QED BY <2>1, <2>2, <1>4, <1>5
<1>. QED BY <1>7, <1>8, <1>9, <1>10, <1>11 DEF SlotsKept

(* A GPU of an exclusive job is taken, as long as every look has been a whole one.  *)
ExclusiveTaken ==
    spent = [blind |-> 0, restarts |-> 0] =>
        \A g \in Gpus : held[g] = "exclusive" => ~Free(g)

(* It holds after a look, which sees the jobs.  *)
LEMMA LookTakes ==
    ASSUME GpuIInv, LookStep, RestTyped
    PROVE  ExclusiveTaken'
<1>1. PICK v \in Views, list \in SUBSET Pairs :
          Refresh(v, held', list) /\ UNCHANGED machine
  BY DEF LookStep
<1>2. Gpus' = Gpus /\ held' \in [Gpus -> Uses]
  BY <1>1 DEF Gpus, Here, RestTyped
<1>3. SUFFICES ASSUME spent' = [blind |-> 0, restarts |-> 0],
                      NEW g \in Gpus, held'[g] = "exclusive"
               PROVE  ~slots'[g].available
  BY <1>2 DEF ExclusiveTaken, Free
<1>4. slots'[g] = Looked(g, held', list)
  BY <1>1, <1>3, RefreshedIs
<1>5. Looked(g, held', list).available => held'[g] = "shared" \/ held'[g] = "none"
  BY <1>2, LookedIs
<1>. QED BY <1>3, <1>4, <1>5

(* It holds after any other step that gives no GPU out.  *)
LEMMA BlindTakes ==
    ASSUME GpuIInv, BlindStep, \A g \in Gpus : held'[g] \in {"none", held[g]}
    PROVE  ExclusiveTaken'
BY DEF GpuIInv, BusyGpusShown, BlindStep, ExclusiveTaken, Free, Gpus, Here

(* What the monitor has seen and what a pass was offered are remembered.  *)
LEMMA LossesKept ==
    ASSUME NEW v, Remember(v), UNCHANGED machine, seen' = seen
    PROVE  LossesMissed'
<1>1. past'.missed =
         {g \in Gpus : seen'[g] # "no" /\
            \/ g \in (past.missed \ (IF due /\ ~due' THEN Available ELSE {}))
                      \cup (allowed' \ allowed)
            \/ seen[g] = "yes" /\ ~Free(g)'}
  BY Zenon, Remembered
<1>2. Gpus' = Gpus
  BY DEF Gpus, Here
<1>. QED BY <1>1, <1>2 DEF LossesMissed

(* A step that is not a poll keeps FreeGpuNoticed, if it ends no job: what it makes
   available was missed by the monitor, newly allowed, or offered before.  *)
LEMMA NoticeKept ==
    ASSUME GpuIInv, NEW v, Remember(v), UNCHANGED machine, seen' = seen, allowed' \subseteq Gpus,
           \A g \in Gpus : held'[g] = "none" => held[g] = "none"
    PROVE  FreeGpuNoticed'
<1> DEFINE passed == IF due /\ ~due' THEN Available ELSE {}
<1>1. /\ past'.missed =
            {g \in Gpus : seen'[g] # "no" /\
               \/ g \in (past.missed \ passed) \cup (allowed' \ allowed)
               \/ seen[g] = "yes" /\ ~Free(g)'}
      /\ past'.offered = {g \in past.offered \cup passed : Free(g)'}
  BY Zenon, Remembered
<1>2. Available' = {g \in allowed' : Free(g)'}
  BY DEF Available
<1>3. SUFFICES ASSUME NEW g \in Gpus, g \in allowed', Free(g)', held'[g] = "none", ~due',
                      seen[g] = "yes"
               PROVE  g \in past'.offered \cup past'.missed
  BY <1>2 DEF FreeGpuNoticed
<1>4. FreeGpuNoticed /\ LossesMissed /\ held[g] = "none"
  BY <1>3 DEF GpuIInv
<1>5. CASE g \notin allowed
  BY <1>1, <1>3, <1>5
<1>6. CASE ~Free(g)
  BY <1>1, <1>3, <1>4, <1>6 DEF LossesMissed, Available
<1>7. CASE g \in Available
  BY <1>1, <1>3, <1>4, <1>7 DEF FreeGpuNoticed
<1>. QED BY <1>5, <1>6, <1>7 DEF Available

-----------------------------------------------------------------------------
(* The actions.  *)

(* What an action that leaves ginfo and the monitor alone has to show.  *)
LEMMA StepKeeps ==
    ASSUME GpuIInv, RestTyped, LookStep \/ BlindStep, UNCHANGED <<ask, seen>>,
           ExclusiveTaken',
           due' \/ \A g \in Gpus : held'[g] = "none" => held[g] = "none"
    PROVE  GpuIInv'
<1>1. PICK v : Remember(v) /\ UNCHANGED machine
  BY DEF LookStep, BlindStep
<1>2. SlotsKept'
  BY LookKeeps, BlindKeeps
<1>3. LossesMissed'
  BY <1>1, LossesKept
<1>4. FreeGpuNoticed'
  <2>1. CASE due'
    BY <2>1 DEF FreeGpuNoticed
  <2>2. CASE ~due'
    BY <2>2, <1>1, NoticeKept DEF RestTyped
  <2>. QED BY <2>1, <2>2
<1>5. Gpus' = Gpus /\ Slots' = Slots /\ BusyGpusShown /\ AskSound
  BY <1>1 DEF Gpus, Here, Slots, GpuIInv
<1>6. AskSound'
  BY <1>5 DEF AskSound, Unexplained
<1>7. BusyGpusShown'
  BY <1>5 DEF BusyGpusShown, ExclusiveTaken
<1>. QED BY <1>2, <1>3, <1>4, <1>6, <1>7 DEF GpuIInv, SlotsKept

(* Constants: how jobs use a GPU.  *)
LEMMA ModesAre ==
    ASSUME GpuIInv
    PROVE  Here.modes \subseteq {"exclusive", "shared"}
BY MachinesAssumption DEF GpuIInv, GpuShapes, Here, Machine

(* A poll that changes what the monitor has seen asks for a pass.  *)
LEMMA PollKeeps ==
    ASSUME GpuIInv, Poll
    PROVE  GpuIInv'
<1>1. PICK v \in Views :
          /\ Refresh(v, held, ignored)
          /\ seen' = [g \in Gpus |-> IF Free(g)' THEN "yes" ELSE "no"]
          /\ due' = (due \/ Changed)
          /\ UNCHANGED <<machine, held, procs, allowed, ask>>
          /\ Remember(v)
  BY DEF Poll
<1>2. GpuTypeOK /\ GpuShapes /\ ignored \subseteq Pairs /\ due' \in BOOLEAN
  BY <1>1 DEF GpuIInv, GpuTypeOK, GpuShapes, Pairs, Changed
<1>3. RestTyped
  BY <1>1, <1>2 DEF RestTyped, GpuTypeOK, Uses, Pairs
<1>4. LookStep
  BY <1>1, <1>2 DEF LookStep
<1>5. SlotsKept' /\ ExclusiveTaken'
  BY <1>3, <1>4, LookKeeps, LookTakes
<1>6. Gpus' = Gpus /\ Slots' = Slots
  BY <1>1 DEF Gpus, Here, Slots
<1>7. LossesMissed'
  BY <1>1, <1>6 DEF LossesMissed, Free
<1>8. FreeGpuNoticed'
  <2>1. CASE due'
    BY <2>1 DEF FreeGpuNoticed
  <2>2. CASE ~due'
    <3>1. seen' = seen
      BY <1>1, <2>2 DEF Changed
    <3>. QED BY <3>1, <1>1, <1>2, NoticeKept DEF GpuTypeOK
  <2>. QED BY <2>1, <2>2
<1>9. AskSound' /\ BusyGpusShown'
  BY <1>1, <1>5, <1>6 DEF GpuIInv, AskSound, BusyGpusShown, ExclusiveTaken, Unexplained
<1>. QED BY <1>5, <1>7, <1>8, <1>9 DEF GpuIInv, SlotsKept

(* A pass that starts jobs looks at the GPUs, one that starts none does not.  *)
LEMMA PassKeeps ==
    ASSUME GpuIInv, Pass
    PROVE  GpuIInv'
<1>1. PICK started \in UNION {[G -> Here.modes] : G \in SUBSET Available},
           v \in Views \cup {NoView} :
          /\ held' = [g \in Gpus |-> IF g \in DOMAIN started THEN started[g] ELSE held[g]]
          /\ v = NoView <=> DOMAIN started = {}
          /\ IF v = NoView THEN UNCHANGED <<slots, ignored, spent>>
                           ELSE Refresh(v, held', ignored)
          /\ Remember(v)
  BY DEF Pass
<1>2. /\ due /\ due' = FALSE
      /\ UNCHANGED <<machine, procs, allowed, seen, ask>>
  BY DEF Pass
<1>3. GpuTypeOK /\ GpuShapes /\ ignored \subseteq Pairs
  BY DEF GpuIInv, GpuTypeOK, Pairs
<1>4. \A g \in DOMAIN started : started[g] \in {"exclusive", "shared"}
  <2>1. PICK G \in SUBSET Available : started \in [G -> Here.modes]
    OBVIOUS
  <2>. QED BY <2>1, ModesAre
<1>5. RestTyped
  BY <1>1, <1>2, <1>3, <1>4 DEF RestTyped, GpuTypeOK, Uses, Pairs
<1>6. \A g \in Gpus : held'[g] = "none" => held[g] = "none"
  BY <1>1, <1>4
<1>7. CASE v = NoView
  <2>1. BlindStep
    BY <1>1, <1>2, <1>7 DEF BlindStep
  <2>2. \A g \in Gpus : held'[g] = held[g]
    BY <1>1, <1>7
  <2>3. ExclusiveTaken'
    BY <2>1, <2>2, BlindTakes
  <2>. QED BY <1>2, <1>5, <1>6, <2>1, <2>3, StepKeeps
<1>8. CASE v # NoView
  <2>1. LookStep
    BY <1>1, <1>2, <1>3, <1>8 DEF LookStep
  <2>2. ExclusiveTaken'
    BY <1>5, <2>1, LookTakes
  <2>. QED BY <1>2, <1>5, <1>6, <2>1, <2>2, StepKeeps
<1>. QED BY <1>7, <1>8

(* Steps that look at no GPU and that ginfo has no part in.  *)
LEMMA QuietKeeps ==
    ASSUME GpuIInv, BlindStep, UNCHANGED <<ask, seen>>,
           procs' \subseteq Pairs, allowed' \subseteq Gpus, due' \in BOOLEAN,
           held' = held \/ (due' /\ \E g \in Gpus : held' = [held EXCEPT ![g] = "none"])
    PROVE  GpuIInv'
<1>1. held \in [Gpus -> Uses] /\ seen \in [Gpus -> {"never", "yes", "no"}]
  BY DEF GpuIInv, GpuTypeOK, Uses
<1>2. held' \in [Gpus -> Uses] /\ \A g \in Gpus : held'[g] \in {"none", held[g]}
  BY <1>1 DEF Uses
<1>3. RestTyped
  BY <1>1, <1>2 DEF RestTyped
<1>4. ExclusiveTaken'
  BY <1>2, BlindTakes
<1>. QED BY <1>3, <1>4, StepKeeps

(* A process is named for an override only while it runs.  *)
LEMMA OverrideKeeps ==
    ASSUME GpuIInv, NEW g \in Gpus, NEW p \in Here.pids, Ignore(g, p) \/ Unignore(g, p)
    PROVE  GpuIInv'
<1>1. GpuTypeOK /\ GpuShapes /\ ignored \subseteq Pairs /\ <<g, p>> \in Pairs
  BY DEF GpuIInv, GpuTypeOK, Pairs
<1>2. PICK v \in Views, list \in SUBSET Pairs :
          /\ list \ ignored \subseteq procs
          /\ Refresh(v, held, list) /\ Remember(v)
          /\ due' \in BOOLEAN
          /\ UNCHANGED <<machine, held, procs, allowed, seen, ask>>
  <2>1. CASE Ignore(g, p)
    <3>1. PICK v \in Views :
              /\ Refresh(v, held, ignored \cup {<<g, p>>}) /\ Remember(v) /\ Told(g)
              /\ UNCHANGED <<machine, held, procs, allowed, seen, ask>>
      BY <2>1 DEF Ignore, IgnoreProcess
    <3>2. /\ ignored \cup {<<g, p>>} \in SUBSET Pairs
          /\ (ignored \cup {<<g, p>>}) \ ignored \subseteq procs
      BY <1>1, <2>1 DEF Ignore, Current
    <3>3. due' \in BOOLEAN
      BY <3>1, <1>1 DEF Told, GpuShapes
    <3>. QED BY <3>1, <3>2, <3>3
  <2>2. CASE Unignore(g, p)
    <3>1. PICK v \in Views :
              /\ Refresh(v, held, ignored \ {<<g, p>>}) /\ Remember(v)
              /\ Told(g) \/ due' = due
              /\ UNCHANGED <<machine, held, procs, allowed, seen, ask>>
      BY <2>2 DEF Unignore, UnignoreProcess
    <3>2. /\ ignored \ {<<g, p>>} \in SUBSET Pairs
          /\ (ignored \ {<<g, p>>}) \ ignored \subseteq procs
      BY <1>1
    <3>3. due' \in BOOLEAN
      BY <3>1, <1>1 DEF Told, GpuShapes
    <3>. QED BY <3>1, <3>2, <3>3
  <2>. QED BY <2>1, <2>2
<1>3. RestTyped
  BY <1>1, <1>2 DEF RestTyped, GpuTypeOK, Uses, Pairs
<1>4. LookStep
  BY <1>2 DEF LookStep
<1>5. ExclusiveTaken'
  BY <1>3, <1>4, LookTakes
<1>. QED BY <1>2, <1>3, <1>4, <1>5, StepKeeps

(* A new daemon believes nothing and remembers nothing.  *)
LEMMA NewDaemonKeeps ==
    ASSUME GpuIInv, NewDaemon
    PROVE  GpuIInv'
<1>1. /\ spent.restarts < Here.restarts
      /\ spent' = [spent EXCEPT !.restarts = @ + 1]
      /\ slots' = NewSlots /\ ignored' = {}
      /\ seen' = [g \in Gpus |-> "never"]
      /\ due' = TRUE /\ ask' = [op |-> "none"]
      /\ past' = [past EXCEPT !.met = {}, !.gone = {}, !.excused = {}, !.offered = {},
                              !.missed = {}, !.under = [g \in Gpus |-> "none"]]
      /\ UNCHANGED <<machine, held, procs, allowed>>
  BY DEF NewDaemon
<1>2. Gpus' = Gpus /\ Here' = Here /\ Pairs' = Pairs /\ Slots' = Slots
  BY <1>1 DEF Gpus, Here, Pairs, Slots
<1>3. GpuTypeOK /\ GpuShapes /\ Here.restarts \in Nat
  BY MachinesAssumption DEF GpuIInv, GpuShapes, Here, Machine
<1>4. slots' \in [Gpus -> Slots] /\ \A g \in Gpus : slots'[g].available
  BY <1>1 DEF NewSlots, Slots, Nothing, Whys
<1>5. /\ spent' \in [blind : Nat, restarts : Nat] /\ spent'.blind = spent.blind
      /\ spent'.restarts = spent.restarts + 1
  BY <1>1, <1>3 DEF GpuShapes
<1>6. /\ past' \in [met : SUBSET Pairs, gone : SUBSET Pairs, excused : SUBSET Pairs,
                    offered : SUBSET Gpus, missed : SUBSET Gpus, under : [Gpus -> Uses]]
      /\ past'.met = {}
  BY <1>1, <1>3 DEF GpuShapes, Uses
<1>7. GpuTypeOK'
  BY <1>1, <1>2, <1>3, <1>5 DEF GpuTypeOK, GpuShapes
<1>8. GpuShapes'
  BY <1>1, <1>2, <1>3, <1>4, <1>5, <1>6 DEF GpuShapes
<1>9. OverridesLapse' /\ FreeGpuNoticed'
  BY <1>1 DEF OverridesLapse, FreeGpuNoticed
<1>10. BusyGpusShown' /\ AskSound'
  BY <1>1, <1>3, <1>5 DEF BusyGpusShown, AskSound, GpuShapes
<1>11. ReasonsGiven' /\ LossesMissed' /\ FreeOfStrangers'
  BY <1>2, <1>4, <1>6 DEF ReasonsGiven, LossesMissed, FreeOfStrangers, Unexplained, Free
<1>. QED BY <1>7, <1>8, <1>9, <1>10, <1>11 DEF GpuIInv

(* ginfo's two requests and what it shows.  *)
LEMMA AskKeeps ==
    ASSUME GpuIInv, AskSlots \/ AskJobs \/ InfoShown
    PROVE  GpuIInv'
<1>1. /\ UNCHANGED <<machine, held, procs, slots, ignored, allowed, seen, due, spent>>
      /\ Remember(NoView)
  BY DEF AskSlots, AskJobs, InfoShown
<1>2. BlindStep /\ RestTyped
  BY <1>1 DEF BlindStep, RestTyped, GpuIInv, GpuTypeOK, GpuShapes, Uses, Pairs
<1>3. SlotsKept' /\ ExclusiveTaken'
  <2>1. \A g \in Gpus : held'[g] \in {"none", held[g]}
    BY <1>1
  <2>. QED BY <1>2, <2>1, BlindKeeps, BlindTakes
<1>4. LossesMissed' /\ FreeGpuNoticed'
  <2>1. allowed' \subseteq Gpus
    BY <1>2 DEF RestTyped
  <2>. QED BY <1>1, <2>1, LossesKept, NoticeKept
<1>5. Gpus' = Gpus /\ Slots' = Slots
  BY <1>1 DEF Gpus, Here, Slots
<1>6. SUFFICES AskSound' /\ BusyGpusShown'
  BY <1>3, <1>4 DEF GpuIInv, SlotsKept
<1>7. CASE AskSlots
  <2>1. ask' = [op |-> "jobs", slots |-> slots, under |-> past.under]
    BY <1>7 DEF AskSlots
  <2>2. AskSound'
    BY <2>1, <1>5 DEF AskSound, GpuIInv, GpuShapes, ReasonsGiven, Unexplained
  <2>. QED BY <2>1, <2>2, <1>3 DEF BusyGpusShown, ExclusiveTaken
<1>8. CASE AskJobs
  <2>1. /\ ask.op = "jobs"
        /\ ask' = [op |-> "shown", under |-> ask.under,
                   rows |-> [g \in Gpus |-> Row(ask.slots[g], held[g])]]
    BY <1>8 DEF AskJobs
  <2>2. ASSUME NEW g \in Gpus, ask'.rows[g] = "unknown"
        PROVE  ask'.under[g] = "exclusive"
    <3>1. Row(ask.slots[g], held[g]) = "unknown"
      BY <2>1, <2>2
    <3>2. ask.slots[g] \in Slots /\ (Unexplained(ask.slots[g]) => ask.under[g] = "exclusive")
      BY <2>1 DEF GpuIInv, AskSound
    <3>3. Unexplained(ask.slots[g])
      BY <3>1, <3>2 DEF Row, Unexplained, Slots, Whys
    <3>. QED BY <2>1, <3>2, <3>3
  <2>. QED BY <2>1, <2>2, <1>3, <1>5 DEF BusyGpusShown, ExclusiveTaken, AskSound
<1>9. CASE InfoShown
  BY <1>3, <1>9 DEF InfoShown, AskSound, BusyGpusShown, ExclusiveTaken
<1>. QED BY <1>7, <1>8, <1>9

-----------------------------------------------------------------------------
(* The invariant.  *)

LEMMA GpuStart ==
    ASSUME GpuInit
    PROVE  GpuIInv
<1>1. /\ machine \in DOMAIN Machines /\ Here \in Machine
      /\ Here.blind \in Nat /\ Here.restarts \in Nat
  BY MachinesAssumption DEF GpuInit, Here, Machine
<1>2. slots \in [Gpus -> Slots] /\ \A g \in Gpus : slots[g].available
  BY DEF GpuInit, NewSlots, Slots, Nothing, Whys
<1>3. /\ past = [met |-> {}, gone |-> {}, excused |-> {}, offered |-> {}, missed |-> {},
                 under |-> [g \in Gpus |-> "none"]]
      /\ spent = [blind |-> 0, restarts |-> 0] /\ held = [g \in Gpus |-> "none"]
      /\ seen = [g \in Gpus |-> "never"] /\ ask = [op |-> "none"]
  BY DEF GpuInit
<1>4. /\ past \in [met : SUBSET Pairs, gone : SUBSET Pairs, excused : SUBSET Pairs,
                   offered : SUBSET Gpus, missed : SUBSET Gpus, under : [Gpus -> Uses]]
      /\ past.met = {}
  BY <1>3 DEF Uses
<1>5. GpuTypeOK
  BY <1>1, <1>3 DEF GpuInit, GpuTypeOK
<1>6. GpuShapes
  BY <1>1, <1>2, <1>3, <1>4 DEF GpuInit, GpuShapes
<1>7. OverridesLapse /\ BusyGpusShown /\ FreeGpuNoticed /\ AskSound
  BY <1>3 DEF GpuInit, OverridesLapse, BusyGpusShown, FreeGpuNoticed, AskSound
<1>8. ReasonsGiven /\ LossesMissed /\ FreeOfStrangers
  BY <1>2, <1>4 DEF ReasonsGiven, LossesMissed, FreeOfStrangers, Unexplained, Free
<1>. QED BY <1>5, <1>6, <1>7, <1>8 DEF GpuIInv

(* Every step keeps the invariant.  *)
LEMMA GpuStep ==
    ASSUME GpuIInv, [GpuNext]_gpuVars
    PROVE  GpuIInv'
<1>1. GpuTypeOK /\ GpuShapes
  BY DEF GpuIInv
<1>2. procs \subseteq Pairs /\ allowed \subseteq Gpus /\ due \in BOOLEAN
  BY <1>1 DEF GpuTypeOK, GpuShapes, Pairs
<1>3. CASE Wake
  <2>1. BlindStep
    BY <1>3 DEF Wake, BlindStep
  <2>. QED BY <1>2, <1>3, <2>1, QuietKeeps DEF Wake
<1>4. ASSUME NEW S \in Here.restrictions, SetAllowed(S)
      PROVE  GpuIInv'
  <2>1. BlindStep
    BY <1>4 DEF SetAllowed, BlindStep
  <2>. QED BY <1>2, <1>4, <2>1, QuietKeeps DEF SetAllowed
<1>5. ASSUME NEW g \in Gpus, End(g)
      PROVE  GpuIInv'
  <2>1. BlindStep
    BY <1>5 DEF End, BlindStep
  <2>. QED BY <1>2, <1>5, <2>1, QuietKeeps DEF End
<1>6. ASSUME NEW g \in Gpus, NEW p \in Here.pids, Begin(g, p) \/ Vanish(g, p)
      PROVE  GpuIInv'
  <2>1. BlindStep
    BY <1>6 DEF Begin, Vanish, BlindStep
  <2>2. procs' \subseteq Pairs
    BY <1>2, <1>6 DEF Begin, Vanish, Pairs
  <2>. QED BY <1>2, <1>6, <2>1, <2>2, QuietKeeps DEF Begin, Vanish
<1>7. CASE UNCHANGED gpuVars
  BY <1>7 DEF gpuVars, GpuIInv, GpuTypeOK, GpuShapes, OverridesLapse, BusyGpusShown,
              FreeGpuNoticed, ReasonsGiven, AskSound, LossesMissed, FreeOfStrangers,
              Available, Free, Gpus, Here, Pairs, Slots, Unexplained
<1>. QED
  BY <1>3, <1>4, <1>5, <1>6, <1>7, PollKeeps, PassKeeps, NewDaemonKeeps, AskKeeps,
     OverrideKeeps DEF GpuNext

(* Only a pass gives a GPU out, and only one that is available.  *)
LEMMA OnlyPassesGive ==
    ASSUME GpuIInv, [GpuNext]_gpuVars, NEW g \in Gpus, held[g] = "none", held'[g] # "none"
    PROVE  Free(g)
<1>1. CASE Pass
  <2>1. PICK started \in UNION {[G -> Here.modes] : G \in SUBSET Available} :
            held' = [h \in Gpus |-> IF h \in DOMAIN started THEN started[h] ELSE held[h]]
    BY <1>1 DEF Pass
  <2>2. PICK G \in SUBSET Available : started \in [G -> Here.modes]
    OBVIOUS
  <2>. QED BY <2>1, <2>2 DEF Available
<1>2. CASE \E h \in Gpus : End(h)
  BY <1>2 DEF End, GpuIInv, GpuTypeOK
<1>3. held' = held \/ Pass \/ \E h \in Gpus : End(h)
  BY DEF GpuNext, gpuVars, Poll, Wake, NewDaemon, AskSlots, AskJobs, InfoShown, SetAllowed,
         Begin, Vanish, Ignore, Unignore
<1>. QED BY <1>1, <1>2, <1>3

(* The step that gives a GPU out meets StrangersSpared.  *)
LEMMA StrangersAreSpared ==
    ASSUME GpuIInv, [GpuNext]_gpuVars
    PROVE  StrangersSpared
<1>1. SUFFICES ASSUME NEW g \in Gpus, held[g] = "none", held'[g] # "none",
                      past.under[g] # "shared",
                      NEW e \in procs \cap past.met, e[1] = g
               PROVE  e \in past.excused
  BY DEF StrangersSpared
<1>2. Free(g)
  BY <1>1, OnlyPassesGive
<1>. QED BY <1>1, <1>2 DEF GpuIInv, FreeOfStrangers

(* On every machine: an override is for the process that was named, a GPU of an exclusive
   job is not given out again and is shown with a reason, a GPU that could be given to a
   job is noticed, and no job gets one with a process of others that a look has found.  *)
THEOREM SlotsAreTrustworthy == GpuSpec => SlotsTrustworthy
<1>1. GpuInit => GpuIInv
  BY GpuStart
<1>2. GpuIInv /\ [GpuNext]_gpuVars => GpuIInv'
  BY GpuStep
<1>3. GpuIInv => (GpuTypeOK /\ OverridesLapse /\ BusyGpusShown) /\ FreeGpuNoticed
  BY DEF GpuIInv
<1>4. GpuIInv /\ [GpuNext]_gpuVars => [StrangersSpared]_gpuVars
  BY StrangersAreSpared
<1>. QED BY <1>1, <1>2, <1>3, <1>4, PTL DEF GpuSpec, SlotsTrustworthy

(***************************************************************************)
(* What users see of the queue.  The invariant, in parts.                   *)
(***************************************************************************)

(* An index has the ids of the jobs of its key, in order and nothing else.  *)
IndexesSound ==
    /\ byUser = [u \in Users |-> Ascending({j \in Ids : jobs[j].user = u})]
    /\ byState = [s \in States |-> Ascending({j \in Ids : jobs[j].state = s})]

(* The order of a listing, and the jobs that one who has read those of G is past.  *)
Before(order, x, y) == IF order = "asc" THEN x < y ELSE x > y
InOrder(order, s) == \A i, k \in DOMAIN s : i < k => Before(order, s[i], s[k])
Behind(order, M, G) == {j \in M : \E p \in G : j = p \/ Before(order, j, p)}
BehindPager == Behind(pager.order, Matching(View(pager.view)), ToSet(pager.got))

PagerTypeOK ==
    pager \in [op : {"paging", "done"}, view : {"active", "waiting", "all"},
               order : {"asc", "desc"}, offset : Nat, got : Seq(Nat),
               left : BOOLEAN, joined : BOOLEAN, all : SUBSET Nat]

(* Unless a job left where the agent had read, it is past as many jobs as its offset
   says and has read those of them that matched all along; unless one joined there, it
   is past no more than that.  *)
PagingSound ==
    pager.op = "paging" =>
        /\ pager.all \subseteq Matching(View(pager.view))
        /\ pager.left \/ /\ pager.offset <= Cardinality(BehindPager)
                         /\ pager.all \cap BehindPager \subseteq ToSet(pager.got)
        /\ pager.joined \/ Cardinality(BehindPager) <= pager.offset
PagerSound ==
    pager = NoPager \/ /\ PagerTypeOK
                       /\ PagingSound
                       /\ pager.joined \/ InOrder(pager.order, pager.got)
                       /\ PagesComplete

(* A request for a tail: the size was that of a log that has only grown since, and a
   read that skips bytes begins within the log and not at its first.  *)
Seeking == tail \in [op : {"seek"}, size : 0 .. Len(log)]
Reading ==
    /\ tail \in [op : {"read"}, size : Nat, mid : BOOLEAN, from : 1 .. Len(log) + 1]
    /\ IF tail.mid THEN tail.from \in 2 .. Len(log) ELSE tail.from = 1
Showing ==
    /\ tail \in [op : {"told"}, size : Nat, bytes : Nat, first : Nat, last : 0 .. Len(log),
                 truncated : BOOLEAN]
    /\ tail.first \in 1 .. tail.last + 1
    /\ TailSound
LogTailSound == tail = NoTail \/ Seeking \/ Reading \/ Showing

QueryIInv == QueryTypeOK /\ IndexesSound /\ PagerSound /\ LogTailSound

(***************************************************************************)
(* Numbers in order.                                                        *)
(***************************************************************************)

(* The numbers of a set up to one of them.  *)
UpTo(S, x) == {y \in S : y <= x}

(* Larger numbers have larger ranks.  *)
LEMMA RankGrows ==
    ASSUME NEW S, S \subseteq Nat, IsFiniteSet(S)
    PROVE  /\ \A x \in S : /\ IsFiniteSet(UpTo(S, x)) /\ x \in UpTo(S, x)
                           /\ Cardinality(UpTo(S, x)) \in 1 .. Cardinality(S)
           /\ \A x, y \in S : x < y => Cardinality(UpTo(S, x)) < Cardinality(UpTo(S, y))
<1>1. Cardinality(S) \in Nat /\ \A x \in S : x \in Nat
  BY FS_CardinalityType
<1>2. \A x \in S : /\ IsFiniteSet(UpTo(S, x)) /\ x \in UpTo(S, x)
                   /\ Cardinality(UpTo(S, x)) \in 1 .. Cardinality(S)
  <2>. TAKE x \in S
  <2>1. UpTo(S, x) \subseteq S /\ x \in UpTo(S, x)
    BY <1>1 DEF UpTo
  <2>2. IsFiniteSet(UpTo(S, x)) /\ Cardinality(UpTo(S, x)) <= Cardinality(S)
    BY <2>1, FS_Subset
  <2>3. Cardinality(UpTo(S, x)) \in Nat /\ Cardinality(UpTo(S, x)) # 0
    BY <2>1, <2>2, FS_CardinalityType, FS_EmptySet
  <2>. QED BY <1>1, <2>1, <2>2, <2>3
<1>3. ASSUME NEW x \in S, NEW y \in S, x < y
      PROVE  Cardinality(UpTo(S, x)) < Cardinality(UpTo(S, y))
  <2>1. x \in Nat /\ y \in Nat /\ \A z \in S : z \in Nat
    BY <1>1
  <2>2. \A z \in S : z <= x => z <= y
    BY <1>3, <2>1
  <2>3. UpTo(S, x) \subseteq UpTo(S, y)
    BY <2>2, Zenon DEF UpTo
  <2>4. y \in UpTo(S, y) /\ y \notin UpTo(S, x)
    BY <1>3, <2>1 DEF UpTo
  <2>5. /\ Cardinality(UpTo(S, x)) <= Cardinality(UpTo(S, y))
        /\ Cardinality(UpTo(S, x)) # Cardinality(UpTo(S, y))
    BY <1>2, <2>3, <2>4, FS_Subset
  <2>6. Cardinality(UpTo(S, x)) \in Nat /\ Cardinality(UpTo(S, y)) \in Nat
    BY <1>1, <1>2
  <2>. QED BY <2>5, <2>6
<1>. QED BY <1>2, <1>3

(* A rank has one number.  *)
LEMMA RankIsOne ==
    ASSUME NEW S, S \subseteq Nat, IsFiniteSet(S), NEW x \in S, NEW y \in S,
           Cardinality(UpTo(S, x)) = Cardinality(UpTo(S, y))
    PROVE  x = y
<1>1. x \in Nat /\ y \in Nat
  OBVIOUS
<1>2. /\ Cardinality(UpTo(S, x)) \in Nat /\ Cardinality(UpTo(S, y)) \in Nat
      /\ x < y => Cardinality(UpTo(S, x)) < Cardinality(UpTo(S, y))
      /\ y < x => Cardinality(UpTo(S, y)) < Cardinality(UpTo(S, x))
  BY RankGrows, FS_CardinalityType
<1>. QED BY <1>1, <1>2

(* Every rank has a number, by the pigeonhole principle.  *)
LEMMA NthIs ==
    ASSUME NEW S, S \subseteq Nat, IsFiniteSet(S), NEW n \in 1 .. Cardinality(S)
    PROVE  Nth(S, n) \in S /\ Cardinality(UpTo(S, Nth(S, n))) = n
<1> DEFINE c == Cardinality(S)
           T == (1 .. c) \ {n}
           f == [x \in S |-> Cardinality(UpTo(S, x))]
<1>1. c \in Nat
  BY FS_CardinalityType
<1>2. IsFiniteSet(T) /\ Cardinality(T) < c
  <2>1. IsFiniteSet(1 .. c) /\ Cardinality(1 .. c) = c
    <3>1. 1 \in Int /\ c \in Int
      BY <1>1
    <3>2. /\ IsFiniteSet(1 .. c)
          /\ Cardinality(1 .. c) = IF 1 > c THEN 0 ELSE c - 1 + 1
      BY ONLY <3>1, FS_Interval
    <3>. QED BY <1>1, <3>2
  <2>2. n \in 1 .. c
    OBVIOUS
  <2> HIDE DEF c
  <2>3. IsFiniteSet(T) /\ Cardinality(T) = Cardinality(1 .. c) - 1
    BY <2>1, <2>2, FS_RemoveElement
  <2>. QED BY <1>1, <2>1, <2>3
<1>3. \E x \in S : Cardinality(UpTo(S, x)) = n
  <2> SUFFICES ASSUME \A x \in S : Cardinality(UpTo(S, x)) # n
               PROVE  FALSE
    OBVIOUS
  <2>1. f \in [S -> T]
    BY RankGrows
  <2>2. PICK g \in [S -> T] : \A x \in S : g[x] = Cardinality(UpTo(S, x))
    <3> HIDE DEF T
    <3>. QED BY <2>1
  <2>3. IsFiniteSet(T) /\ Cardinality(T) < Cardinality(S)
    BY <1>2
  <2> HIDE DEF T, f, c
  <2>4. \E x, y \in S : x # y /\ g[x] = g[y]
    BY ONLY <2>3, IsFiniteSet(S), g \in [S -> T], FS_PigeonHole
  <2>. QED BY <2>2, <2>4, RankIsOne
<1>. QED BY <1>3 DEF Nth, UpTo

(* The sequences of numbers that go up.  *)
Rising(s) == s \in Seq(Nat) /\ \A i, k \in DOMAIN s : i < k => s[i] < s[k]

LEMMA AscendingIs ==
    ASSUME NEW S, S \subseteq Nat, IsFiniteSet(S)
    PROVE  /\ Rising(Ascending(S)) /\ Ascending(S) \in Seq(S)
           /\ Len(Ascending(S)) = Cardinality(S) /\ ToSet(Ascending(S)) = S
           /\ \A n \in 1 .. Cardinality(S) :
                 /\ Ascending(S)[n] = Nth(S, n) /\ Nth(S, n) \in S
                 /\ Cardinality(UpTo(S, Nth(S, n))) = n
<1> DEFINE c == Cardinality(S)
           a == Ascending(S)
<1>0. \A x \in S : x \in Nat
  OBVIOUS
<1>1. c \in Nat
  BY FS_CardinalityType
<1>2. \A n \in 1 .. c : Nth(S, n) \in S /\ Cardinality(UpTo(S, Nth(S, n))) = n
  BY NthIs
<1>3. a = [n \in 1 .. c |-> Nth(S, n)]
  BY DEF Ascending
<1> HIDE DEF a, c
<1>4. a \in Seq(S) /\ Len(a) = c /\ DOMAIN a = 1 .. c /\ \A n \in 1 .. c : a[n] = Nth(S, n)
  BY <1>1, <1>2, <1>3
<1>5. ASSUME NEW i \in 1 .. c, NEW k \in 1 .. c, i < k
      PROVE  a[i] < a[k]
  <2>1. /\ a[i] \in S /\ a[k] \in S
        /\ Cardinality(UpTo(S, a[i])) = i /\ Cardinality(UpTo(S, a[k])) = k
    BY <1>2, <1>4
  <2>2. a[k] < a[i] => Cardinality(UpTo(S, a[k])) < Cardinality(UpTo(S, a[i]))
    BY <2>1, RankGrows
  <2>3. a[i] \in Nat /\ a[k] \in Nat /\ i \in Nat /\ k \in Nat
    <3>1. a[i] \in Nat /\ a[k] \in Nat
      BY ONLY <1>0, <2>1, Zenon
    <3>2. i \in Nat /\ k \in Nat
      BY ONLY <1>1, i \in 1 .. c, k \in 1 .. c
    <3>. QED BY <3>1, <3>2
  <2>4. ~(a[k] < a[i])
    BY <1>5, <2>1, <2>2, <2>3
  <2>5. a[i] # a[k]
    BY <1>5, <2>1, <2>3
  <2>. QED BY <2>3, <2>4, <2>5
<1>6. ASSUME NEW x \in S
      PROVE  \E n \in 1 .. c : a[n] = x
  <2>1. Cardinality(UpTo(S, x)) \in 1 .. c
    BY RankGrows DEF c
  <2>2. a[Cardinality(UpTo(S, x))] = x
    BY <1>2, <1>4, <2>1, RankIsOne
  <2>. QED BY <2>1, <2>2
<1>7. ToSet(a) = S
  <2>1. \A n \in DOMAIN a : a[n] \in S
    BY <1>2, <1>4
  <2>2. \A x \in S : \E n \in DOMAIN a : a[n] = x
    BY <1>4, <1>6
  <2>. QED BY ONLY <2>1, <2>2, Zenon DEF ToSet
<1>8. Rising(a)
  <2>1. a \in Seq(Nat)
    <3>1. \A n \in 1 .. c : Nth(S, n) \in Nat
      BY ONLY <1>0, <1>2, Zenon
    <3>. QED BY ONLY <1>1, <1>3, <3>1
  <2>. QED BY <1>4, <1>5, <2>1 DEF Rising
<1>. QED BY <1>2, <1>4, <1>7, <1>8 DEF a, c

(* A sequence that goes up is the only one of its numbers.  *)
LEMMA RisingIs ==
    ASSUME NEW s, Rising(s)
    PROVE  /\ s = Ascending(ToSet(s)) /\ ToSet(s) \subseteq Nat
           /\ IsFiniteSet(ToSet(s)) /\ Len(s) = Cardinality(ToSet(s))
           /\ \A n \in 1 .. Len(s) : Cardinality(UpTo(ToSet(s), s[n])) = n
<1> DEFINE S == ToSet(s)
           c == Len(s)
<1>1. /\ s \in Seq(Nat) /\ c \in Nat /\ DOMAIN s = 1 .. c
      /\ \A n \in 1 .. c : s[n] \in Nat /\ s[n] \in S
      /\ \A i, k \in 1 .. c : i < k => s[i] < s[k]
  BY DEF Rising, ToSet
<1>2. S \subseteq Nat /\ \A x \in S : \E n \in 1 .. c : x = s[n]
  BY <1>1 DEF ToSet
<1>3. \A i, k \in 1 .. c : s[i] <= s[k] <=> i <= k
  <2> TAKE i \in 1 .. c, k \in 1 .. c
  <2>1. s[i] \in Nat /\ s[k] \in Nat /\ (i < k => s[i] < s[k]) /\ (k < i => s[k] < s[i])
    BY <1>1
  <2>2. i \in Nat /\ k \in Nat
    BY <1>1
  <2>3. CASE i = k
    BY <2>1, <2>2, <2>3
  <2>4. CASE i < k
    BY <2>1, <2>2, <2>4
  <2>5. CASE k < i
    BY <2>1, <2>2, <2>5
  <2>. QED BY <2>2, <2>3, <2>4, <2>5
<1> HIDE DEF S, c
(* The numbers up to the n-th are n.  *)
<1>4. ASSUME NEW n \in 0 .. c
      PROVE  LET T == {s[i] : i \in 1 .. n}
             IN  IsFiniteSet(T) /\ Cardinality(T) = n
  <2> DEFINE T == {s[i] : i \in 1 .. n}
             g == [i \in 1 .. n |-> s[i]]
  <2>1. n \in Nat /\ \A i \in 1 .. n : i \in 1 .. c
    BY <1>1
  <2>2. g \in [1 .. n -> T] /\ \A x \in T : \E i \in 1 .. n : g[i] = x
    OBVIOUS
  <2>3. \A i, k \in 1 .. n : g[i] = g[k] => i = k
    <3> TAKE i \in 1 .. n, k \in 1 .. n
    <3>1. g[i] = s[i] /\ g[k] = s[k] /\ i \in 1 .. c /\ k \in 1 .. c
      BY <2>1
    <3>2. s[i] \in Nat /\ s[k] \in Nat /\ i \in Nat /\ k \in Nat
      BY <3>1, <1>1
    <3>. QED BY <1>3, <3>1, <3>2
  <2>4. DOMAIN g = 1 .. n
    OBVIOUS
  <2> HIDE DEF T, g
  <2>5. g \in Bijection(1 .. n, T)
    BY <2>2, <2>3, <2>4 DEF Bijection, Injection, Surjection, IsInjective
  <2>6. IsFiniteSet(T) /\ Cardinality(T) = n
    <3>1. ExistsBijection(1 .. n, T)
      BY <2>5 DEF ExistsBijection
    <3>2. Cardinality(T) = n
      BY ONLY <2>1, <3>1, FS_CountingElements
    <3>3. \E k \in Nat : ExistsBijection(1 .. k, T)
      BY <2>1, <3>1
    <3>. QED BY ONLY <3>2, <3>3, FS_NatBijection
  <2>. QED BY <2>6 DEF T
<1>5. S = {s[i] : i \in 1 .. c}
  BY <1>1, <1>2
<1>6. IsFiniteSet(S) /\ Cardinality(S) = c
  <2>1. c \in 0 .. c
    BY <1>1
  <2>. QED BY <1>4, <1>5, <2>1
<1>7. ASSUME NEW n \in 1 .. c
      PROVE  Cardinality(UpTo(S, s[n])) = n
  <2>1. n \in 0 .. c /\ n \in Nat
    BY <1>1
  <2>2. UpTo(S, s[n]) = {s[i] : i \in 1 .. n}
    <3>1. \A i \in 1 .. c : i <= n <=> i \in 1 .. n
      BY <1>1
    <3>2. \A i \in 1 .. n : i \in 1 .. c
      BY <1>1
    <3>3. \A x \in S : x <= s[n] => \E i \in 1 .. n : x = s[i]
      BY <1>2, <1>3, <3>1
    <3>4. \A i \in 1 .. n : s[i] \in S /\ s[i] <= s[n]
      BY <1>1, <1>3, <3>1, <3>2
    <3>. QED BY ONLY <3>3, <3>4, Zenon DEF UpTo
  <2>. QED BY <1>4, <2>1, <2>2
<1>8. ASSUME NEW n \in 1 .. c
      PROVE  s[n] = Nth(S, n)
  <2>1. s[n] \in S /\ Cardinality(UpTo(S, s[n])) = n
    BY <1>1, <1>7
  <2>2. Nth(S, n) \in S /\ Cardinality(UpTo(S, Nth(S, n))) = n
    BY <1>2, <1>6, NthIs
  <2>3. S \subseteq Nat /\ IsFiniteSet(S)
    BY <1>2, <1>6
  <2>4. Cardinality(UpTo(S, s[n])) = Cardinality(UpTo(S, Nth(S, n)))
    BY <2>1, <2>2
  <2> DEFINE y == Nth(S, n)
             z == s[n]
  <2>5. y \in S /\ z \in S /\ Cardinality(UpTo(S, y)) = Cardinality(UpTo(S, z))
    BY <2>1, <2>2, <2>4
  <2> HIDE DEF y, z
  <2>6. y = z
    BY ONLY <2>3, <2>5, RankIsOne
  <2>. QED BY <2>6 DEF y, z
<1>9. s = Ascending(S)
  <2>1. s = [n \in 1 .. c |-> s[n]]
    BY <1>1
  <2>. QED BY <1>6, <1>8, <2>1 DEF Ascending
<1>. QED BY <1>2, <1>6, <1>7, <1>9 DEF S, c

(***************************************************************************)
(* Sequences that go up.                                                    *)
(***************************************************************************)

(* Two that have the same numbers are the same.  *)
LEMMA RisingEqual ==
    ASSUME NEW s, NEW S, Rising(s), ToSet(s) = S
    PROVE  s = Ascending(S)
BY RisingIs

(* The ids from the first to the last are in order.  *)
LEMMA CountingRises ==
    ASSUME NEW n \in Nat
    PROVE  [i \in 1 .. n |-> i] = Ascending(1 .. n)
<1> DEFINE s == [i \in 1 .. n |-> i]
<1>1. s \in Seq(Nat) /\ DOMAIN s = 1 .. n /\ \A i \in 1 .. n : s[i] = i
  OBVIOUS
<1> HIDE DEF s
<1>2. Rising(s)
  BY <1>1 DEF Rising
<1>3. ToSet(s) = 1 .. n
  BY <1>1 DEF ToSet
<1>4. s = Ascending(1 .. n)
  BY <1>2, <1>3, RisingEqual
<1>. QED BY <1>4 DEF s

(* What is selected of a sequence that goes up goes up.  *)
LEMMA SelectedRises ==
    ASSUME NEW s, NEW T, Rising(s)
    PROVE  /\ Rising(Selected(s, T)) /\ ToSet(Selected(s, T)) = ToSet(s) \cap T
           /\ Selected(s, T) = Ascending(ToSet(s) \cap T)
<1> DEFINE I == {i \in DOMAIN s : s[i] \in T}
           at == Ascending(I)
           r == Selected(s, T)
<1>1. /\ s \in Seq(Nat) /\ Len(s) \in Nat /\ DOMAIN s = 1 .. Len(s)
      /\ \A i, k \in DOMAIN s : i < k => s[i] < s[k]
  BY DEF Rising
<1>2. I \subseteq 1 .. Len(s) /\ I \subseteq Nat /\ IsFiniteSet(I)
  <2>1. I \subseteq 1 .. Len(s) /\ I \subseteq Nat
    BY <1>1
  <2>2. IsFiniteSet(1 .. Len(s))
    <3>1. 1 \in Int /\ Len(s) \in Int
      BY <1>1
    <3>. QED BY ONLY <3>1, FS_Interval
  <2> HIDE DEF I
  <2>. QED BY <2>1, <2>2, FS_Subset
<1>3. Rising(at) /\ ToSet(at) = I
  <2> HIDE DEF I
  <2>. QED BY <1>2, AscendingIs
<1>4. r = [k \in 1 .. Len(at) |-> s[at[k]]]
  BY DEF Selected
<1> HIDE DEF at, r
<1>5. at \in Seq(Nat) /\ Len(at) \in Nat /\ DOMAIN at = 1 .. Len(at)
  BY <1>3 DEF Rising
<1>6. \A k \in 1 .. Len(at) : at[k] \in I
  BY <1>3, <1>5 DEF ToSet
<1>7. \A i \in I : \E k \in 1 .. Len(at) : at[k] = i
  BY <1>3, <1>5 DEF ToSet
<1>8. /\ DOMAIN r = 1 .. Len(at) /\ r \in Seq(Nat)
      /\ \A k \in 1 .. Len(at) : r[k] = s[at[k]] /\ at[k] \in DOMAIN s /\ r[k] \in T
  <2>1. \A k \in 1 .. Len(at) : at[k] \in DOMAIN s /\ s[at[k]] \in T /\ s[at[k]] \in Nat
    BY <1>1, <1>6
  <2>. QED BY <1>4, <1>5, <2>1
<1>9. Rising(r)
  <2>1. ASSUME NEW i \in 1 .. Len(at), NEW k \in 1 .. Len(at), i < k
        PROVE  r[i] < r[k]
    <3>1. at[i] < at[k]
      BY <1>3, <1>5, <2>1 DEF Rising
    <3>. QED BY <1>1, <1>8, <3>1
  <2>. QED BY <1>8, <2>1 DEF Rising
<1>10. ToSet(r) = ToSet(s) \cap T
  <2>1. \A k \in DOMAIN r : r[k] \in ToSet(s) /\ r[k] \in T
    BY <1>8 DEF ToSet
  <2>2. \A x \in ToSet(s) : x \in T => \E k \in DOMAIN r : r[k] = x
    <3> TAKE x \in ToSet(s)
    <3> HAVE x \in T
    <3>1. PICK i \in DOMAIN s : s[i] = x
      BY DEF ToSet
    <3>2. i \in I
      BY <3>1
    <3>3. PICK k \in 1 .. Len(at) : at[k] = i
      BY <1>7, <3>2
    <3>. QED BY <1>8, <3>1, <3>3
  <2>. QED BY ONLY <2>1, <2>2, Zenon DEF ToSet
<1>11. r = Ascending(ToSet(s) \cap T)
  BY <1>9, <1>10, RisingEqual
<1>. QED BY <1>9, <1>10, <1>11 DEF r

(* A larger number goes last.  *)
LEMMA AppendRises ==
    ASSUME NEW S, S \subseteq Nat, IsFiniteSet(S), NEW n \in Nat, \A x \in S : x < n
    PROVE  Append(Ascending(S), n) = Ascending(S \cup {n})
<1> DEFINE a == Ascending(S)
           b == Append(a, n)
<1>1. Rising(a) /\ ToSet(a) = S
  BY AscendingIs
<1> HIDE DEF a
<1>2. a \in Seq(Nat) /\ Len(a) \in Nat /\ DOMAIN a = 1 .. Len(a)
  BY <1>1 DEF Rising
<1>3. \A i \in DOMAIN a : a[i] \in S
  BY <1>1 DEF ToSet
<1>4. /\ b \in Seq(Nat) /\ DOMAIN b = 1 .. Len(a) + 1
      /\ \A i \in DOMAIN b : b[i] = IF i = Len(a) + 1 THEN n ELSE a[i]
  BY <1>2
<1> HIDE DEF b
<1>5. Rising(b)
  <2>1. ASSUME NEW i \in DOMAIN b, NEW k \in DOMAIN b, i < k
        PROVE  b[i] < b[k]
    <3>1. i \in DOMAIN a /\ b[i] = a[i]
      BY <1>2, <1>4, <2>1
    <3>2. CASE k = Len(a) + 1
      BY <1>3, <1>4, <3>1, <3>2
    <3>3. CASE k # Len(a) + 1
      <4>1. k \in DOMAIN a /\ b[k] = a[k]
        BY <1>2, <1>4, <3>3
      <4>. QED BY <1>1, <2>1, <3>1, <4>1 DEF Rising
    <3>. QED BY <3>2, <3>3
  <2>. QED BY <1>4, <2>1 DEF Rising
<1>6. ToSet(b) = S \cup {n}
  <2>1. \A i \in DOMAIN b : b[i] \in S \cup {n}
    BY <1>2, <1>3, <1>4
  <2>2. \A x \in S : \E i \in DOMAIN b : b[i] = x
    <3> TAKE x \in S
    <3>1. PICK i \in DOMAIN a : a[i] = x
      BY <1>1 DEF ToSet
    <3>2. i \in DOMAIN b /\ i # Len(a) + 1
      BY <1>2, <1>4
    <3>. QED BY <1>4, <3>1, <3>2
  <2>3. \E i \in DOMAIN b : b[i] = n
    <3>1. Len(a) + 1 \in DOMAIN b
      BY <1>2, <1>4
    <3>. QED BY <1>4, <3>1
  <2>. QED BY ONLY <2>1, <2>2, <2>3, Zenon DEF ToSet
<1>7. b = Ascending(S \cup {n})
  BY <1>5, <1>6, RisingEqual
<1>. QED BY <1>7 DEF a, b

(* Positions that begin at the first and have no gap are counted by the last.  *)
LEMMA InitialIs ==
    ASSUME NEW n \in Nat, NEW D, D \subseteq 1 .. n,
           \A i \in D : \A k \in 1 .. i : k \in D
    PROVE  IsFiniteSet(D) /\ Cardinality(D) \in 0 .. n /\ D = 1 .. Cardinality(D)
<1>1. /\ IsFiniteSet(1 .. n) /\ Cardinality(1 .. n) = n
  <2>1. 1 \in Int /\ n \in Int
    OBVIOUS
  <2>2. IsFiniteSet(1 .. n) /\ Cardinality(1 .. n) = IF 1 > n THEN 0 ELSE n - 1 + 1
    BY ONLY <2>1, FS_Interval
  <2>. QED BY <2>2
<1>2. IsFiniteSet(D) /\ Cardinality(D) <= n /\ Cardinality(D) \in Nat
  <2>1. IsFiniteSet(D) /\ Cardinality(D) <= Cardinality(1 .. n)
    BY <1>1, FS_Subset
  <2>. QED BY <1>1, <2>1, FS_CardinalityType
<1>3. D \subseteq Nat /\ \A x \in D : x \in Nat
  OBVIOUS
<1>4. ASSUME NEW i \in D
      PROVE  Cardinality(UpTo(D, i)) = i
  <2>1. UpTo(D, i) = 1 .. i
    <3>1. \A k \in UpTo(D, i) : k \in 1 .. i
      BY DEF UpTo
    <3>2. \A k \in 1 .. i : k \in UpTo(D, i)
      BY DEF UpTo
    <3>. QED BY ONLY <3>1, <3>2, Zenon
  <2>2. 1 \in Int /\ i \in Int /\ i >= 1
    OBVIOUS
  <2>3. Cardinality(1 .. i) = IF 1 > i THEN 0 ELSE i - 1 + 1
    BY ONLY <2>2, FS_Interval
  <2>. QED BY <2>1, <2>2, <2>3
<1>5. \A i \in D : i \in 1 .. Cardinality(D)
  <2> TAKE i \in D
  <2>1. Cardinality(UpTo(D, i)) \in 1 .. Cardinality(D)
    BY <1>2, <1>3, RankGrows
  <2>. QED BY <1>4, <2>1
<1>6. \A i \in 1 .. Cardinality(D) : i \in D
  <2> TAKE i \in 1 .. Cardinality(D)
  <2>1. Nth(D, i) \in D /\ Cardinality(UpTo(D, Nth(D, i))) = i
    BY <1>2, <1>3, NthIs
  <2>. QED BY <1>4, <2>1
<1>7. D = 1 .. Cardinality(D)
  BY ONLY <1>5, <1>6, Zenon
<1>8. Cardinality(D) \in 0 .. n
  BY <1>2
<1>. QED BY <1>2, <1>7, <1>8

(* The positions of some of the numbers of a sequence are as many as these.  *)
LEMMA PositionsAreAsMany ==
    ASSUME NEW s, s \in Seq(Nat), \A i, k \in DOMAIN s : s[i] = s[k] => i = k,
           NEW T, T \subseteq ToSet(s)
    PROVE  LET P == {i \in DOMAIN s : s[i] \in T}
           IN  /\ IsFiniteSet(P) /\ IsFiniteSet(T) /\ Cardinality(P) = Cardinality(T)
               /\ Cardinality(T) \in 0 .. Len(s)
<1> DEFINE P == {i \in DOMAIN s : s[i] \in T}
           f == [i \in P |-> s[i]]
<1>1. Len(s) \in Nat /\ DOMAIN s = 1 .. Len(s)
  OBVIOUS
<1>2. IsFiniteSet(P) /\ Cardinality(P) \in 0 .. Len(s)
  <2>1. 1 \in Int /\ Len(s) \in Int
    BY <1>1
  <2>2. /\ IsFiniteSet(1 .. Len(s))
        /\ Cardinality(1 .. Len(s)) = IF 1 > Len(s) THEN 0 ELSE Len(s) - 1 + 1
    BY ONLY <2>1, FS_Interval
  <2>3. P \subseteq 1 .. Len(s)
    BY <1>1
  <2> HIDE DEF P
  <2>4. IsFiniteSet(P) /\ Cardinality(P) <= Cardinality(1 .. Len(s))
    BY <2>2, <2>3, FS_Subset
  <2>. QED BY <1>1, <2>2, <2>4, FS_CardinalityType
<1>3. /\ f \in [P -> T] /\ \A i, k \in P : f[i] = f[k] => i = k
  OBVIOUS
<1>4. \A x \in T : \E i \in P : f[i] = x
  BY DEF ToSet
<1>5. DOMAIN f = P
  OBVIOUS
<1> HIDE DEF f, P
<1>6. f \in Bijection(P, T)
  BY <1>3, <1>4, <1>5 DEF Bijection, Injection, Surjection, IsInjective
<1>7. ExistsBijection(P, T)
  BY <1>6 DEF ExistsBijection
<1>8. IsFiniteSet(T) /\ Cardinality(P) = Cardinality(T)
  BY ONLY <1>2, <1>7, FS_Bijection
<1>. QED BY <1>2, <1>8 DEF P

(* A part of a sequence.  *)
LEMMA PartIs ==
    ASSUME NEW s, s \in Seq(Nat), NEW m \in Int, NEW n \in Int, m >= 1, n <= Len(s)
    PROVE  /\ SubSeq(s, m, n) \in Seq(Nat)
           /\ Len(SubSeq(s, m, n)) = IF m <= n THEN n - m + 1 ELSE 0
           /\ \A i \in 1 .. n - m + 1 : SubSeq(s, m, n)[i] = s[m + i - 1]
<1>1. \A i \in m .. n : s[i] \in Nat
  OBVIOUS
<1>. QED BY ONLY <1>1, m \in Int, n \in Int, SubSeqProperties

(* What is inserted stands after the first c, and the rest move up by one.  *)
LEMMA InsertAtIs ==
    ASSUME NEW s, s \in Seq(Nat), NEW c \in 0 .. Len(s), NEW e \in Nat
    PROVE  LET b == InsertAt(s, c + 1, e)
           IN  /\ b \in Seq(Nat) /\ DOMAIN b = 1 .. Len(s) + 1
               /\ \A i \in 1 .. Len(s) + 1 : b[i] = IF i <= c THEN s[i]
                                                    ELSE IF i = c + 1 THEN e ELSE s[i - 1]
<1>1. Len(s) \in Nat /\ c \in Nat /\ c <= Len(s)
  OBVIOUS
<1>2. PICK m \in Int, n \in Int, k \in Int : m = 1 /\ n = c + 1 - 1 /\ k = c + 1 /\ n = c
  <2>1. 1 \in Int /\ c \in Int /\ c + 1 \in Int /\ c = c + 1 - 1
    BY <1>1
  <2> SUFFICES \E m \in Int, n \in Int, k \in Int :
                  m = 1 /\ n = c + 1 - 1 /\ k = c + 1 /\ n = c
    OBVIOUS
  <2> WITNESS 1 \in Int, c \in Int, c + 1 \in Int
  <2>. QED BY ONLY <2>1
<1> DEFINE u == SubSeq(s, m, n)
           v == SubSeq(s, k, Len(s))
           w == <<e>>
           b == InsertAt(s, c + 1, e)
<1>3. u \in Seq(Nat) /\ Len(u) = c /\ \A i \in 1 .. c : u[i] = s[i]
  <2>1. /\ u \in Seq(Nat) /\ Len(u) = IF m <= n THEN n - m + 1 ELSE 0
        /\ \A i \in 1 .. n - m + 1 : u[i] = s[m + i - 1]
    <3>1. m >= 1 /\ n <= Len(s)
      BY <1>1, <1>2
    <3>. QED BY <3>1, PartIs
  <2> HIDE DEF u
  <2>2. m = 1 /\ n = c /\ n - m + 1 = c /\ c \in Nat
    BY <1>1, <1>2
  <2>3. Len(u) = c
    BY ONLY <2>1, <2>2
  <2>4. ASSUME NEW i \in 1 .. c
        PROVE  u[i] = s[i]
    <3>1. i \in 1 .. n - m + 1 /\ m + i - 1 = i
      BY <2>2
    <3>. QED BY <2>1, <3>1
  <2>. QED BY ONLY <2>1, <2>3, <2>4
<1>4. v \in Seq(Nat) /\ Len(v) = Len(s) - c /\ \A i \in 1 .. Len(s) - c : v[i] = s[i + c]
  <2>1. /\ v \in Seq(Nat) /\ Len(v) = IF k <= Len(s) THEN Len(s) - k + 1 ELSE 0
        /\ \A i \in 1 .. Len(s) - k + 1 : v[i] = s[k + i - 1]
    <3>1. k >= 1 /\ Len(s) <= Len(s) /\ Len(s) \in Int
      BY <1>1, <1>2
    <3>. QED BY <3>1, PartIs
  <2> HIDE DEF v
  <2>. QED BY <1>1, <1>2, <2>1
<1>5. w \in Seq(Nat) /\ Len(w) = 1 /\ w[1] = e
  OBVIOUS
<1>6. b = (u \o w) \o v
  <2>1. \A p : InsertAt(s, p, e) = (SubSeq(s, 1, p - 1) \o <<e>>) \o SubSeq(s, p, Len(s))
    BY DEF InsertAt
  <2>2. m = 1 /\ n = k - 1 /\ k = c + 1
    BY <1>1, <1>2
  <2>. QED BY ONLY <2>1, <2>2, Zenon DEF b
<1> HIDE DEF u, v, w, b
<1> DEFINE x == u \o w
<1>7. /\ x \in Seq(Nat) /\ Len(x) = c + 1
      /\ \A i \in 1 .. c + 1 : x[i] = IF i <= c THEN s[i] ELSE e
  <2>1. /\ x \in Seq(Nat) /\ Len(x) = Len(u) + Len(w)
        /\ \A i \in 1 .. Len(u) + Len(w) : x[i] = IF i <= Len(u) THEN u[i] ELSE w[i - Len(u)]
    BY ONLY <1>3, <1>5, ConcatProperties
  <2> HIDE DEF x
  <2>. QED BY <1>1, <1>3, <1>5, <2>1
<1> HIDE DEF x
<1>8. /\ b \in Seq(Nat) /\ Len(b) = Len(s) + 1
      /\ \A i \in 1 .. Len(s) + 1 : b[i] = IF i <= c + 1 THEN x[i] ELSE v[i - (c + 1)]
  <2>1. b = x \o v
    BY <1>6 DEF x
  <2> DEFINE y == x \o v
  <2>2. /\ y \in Seq(Nat) /\ Len(y) = Len(x) + Len(v)
        /\ \A i \in 1 .. Len(x) + Len(v) : y[i] = IF i <= Len(x) THEN x[i] ELSE v[i - Len(x)]
    BY ONLY <1>4, <1>7, ConcatProperties
  <2> HIDE DEF y
  <2>3. b = y
    BY <2>1 DEF y
  <2>. QED BY <1>1, <1>4, <1>7, <2>2, <2>3
<1>9. ASSUME NEW i \in 1 .. Len(s) + 1
      PROVE  b[i] = IF i <= c THEN s[i] ELSE IF i = c + 1 THEN e ELSE s[i - 1]
  <2>1. CASE i <= c + 1
    BY <1>1, <1>7, <1>8, <2>1
  <2>2. CASE i > c + 1
    <3>1. i - (c + 1) \in 1 .. Len(s) - c /\ i - (c + 1) + c = i - 1 /\ ~(i <= c + 1)
      BY <1>1, <2>2
    <3>2. v[i - (c + 1)] = s[i - 1]
      BY <1>4, <3>1
    <3>. QED BY <1>1, <1>8, <2>2, <3>1, <3>2
  <2>. QED BY <1>1, <2>1, <2>2
<1>. QED BY <1>1, <1>8, <1>9 DEF b

(* A number goes where a binary search finds its place.  *)
LEMMA InsertedRises ==
    ASSUME NEW S, S \subseteq Nat, IsFiniteSet(S), NEW j \in Nat
    PROVE  Inserted(Ascending(S), j) = Ascending(S \cup {j})
<1> DEFINE a == Ascending(S)
           D == {i \in DOMAIN a : a[i] < j}
           c == Cardinality(D)
           b == InsertAt(a, c + 1, j)
<1>1. Rising(a) /\ ToSet(a) = S
  BY AscendingIs
<1>2. CASE j \in S
  BY <1>1, <1>2, S \cup {j} = S DEF Inserted
<1>3. CASE j \notin S
  <2>1. Inserted(a, j) = b
    BY <1>1, <1>3 DEF Inserted
  <2> HIDE DEF a
  <2>2. /\ a \in Seq(Nat) /\ Len(a) \in Nat /\ DOMAIN a = 1 .. Len(a)
        /\ \A i \in DOMAIN a : a[i] \in Nat
        /\ \A i, k \in DOMAIN a : i < k => a[i] < a[k]
    BY <1>1 DEF Rising
  <2>3. \A i \in DOMAIN a : a[i] \in S /\ a[i] # j
    BY <1>1, <1>3 DEF ToSet
  <2>4. D \subseteq 1 .. Len(a) /\ \A i \in D : \A k \in 1 .. i : k \in D
    <3>1. D \subseteq 1 .. Len(a)
      BY <2>2
    <3>2. ASSUME NEW i \in D, NEW k \in 1 .. i
          PROVE  k \in D
      <4>1. i \in DOMAIN a /\ k \in DOMAIN a /\ a[i] < j
        BY <2>2
      <4>2. k = i \/ a[k] < a[i]
        BY <2>2, <4>1
      <4>. QED BY <2>2, <4>1, <4>2
    <3>. QED BY <3>1, <3>2
  <2>5. c \in 0 .. Len(a) /\ D = 1 .. c
    <3> HIDE DEF D
    <3>. QED BY <2>2, <2>4, InitialIs
  <2>6. \A i \in DOMAIN a : /\ i <= c => a[i] < j
                            /\ i > c => j < a[i]
    <3> TAKE i \in DOMAIN a
    <3>1. i \in D <=> i <= c
      <4>1. i \in 1 .. Len(a)
        BY <2>2
      <4> HIDE DEF D
      <4>. QED BY <2>5, <4>1
    <3>2. (a[i] < j \/ j < a[i]) /\ (i <= c \/ i > c)
      BY <2>2, <2>3, <2>5
    <3>. QED BY <2>2, <2>5, <3>1, <3>2
  <2> HIDE DEF c, D
  <2>7. /\ b \in Seq(Nat) /\ DOMAIN b = 1 .. Len(a) + 1
        /\ \A i \in 1 .. Len(a) + 1 : b[i] = IF i <= c THEN a[i]
                                             ELSE IF i = c + 1 THEN j ELSE a[i - 1]
    BY <2>2, <2>5, InsertAtIs
  <2> HIDE DEF b
  <2>8. Rising(b)
    <3>1. ASSUME NEW i \in DOMAIN b, NEW k \in DOMAIN b, i < k
          PROVE  b[i] < b[k]
      <4>1. i \in Nat /\ k \in Nat /\ i \in 1 .. Len(a) + 1 /\ k \in 1 .. Len(a) + 1
        BY <2>2, <2>7
      <4>2. CASE k <= c
        BY <2>2, <2>5, <2>7, <3>1, <4>1, <4>2
      <4>3. CASE k = c + 1
        <5>1. i \in DOMAIN a /\ i <= c /\ b[i] = a[i] /\ b[k] = j
          BY <2>2, <2>5, <2>7, <3>1, <4>1, <4>3
        <5>. QED BY <2>6, <5>1
      <4>4. CASE k > c + 1
        <5>1. b[k] = a[k - 1] /\ k - 1 \in DOMAIN a /\ k - 1 > c
          BY <2>2, <2>5, <2>7, <4>1, <4>4
        <5>2. CASE i <= c
          BY <2>2, <2>5, <2>7, <4>1, <5>1, <5>2
        <5>3. CASE i = c + 1
          <6>1. b[i] = j
            BY <2>5, <2>7, <4>1, <5>3
          <6>. QED BY <2>6, <5>1, <6>1
        <5>4. CASE i > c + 1
          <6>1. i - 1 \in DOMAIN a /\ b[i] = a[i - 1] /\ i - 1 < k - 1
            <7>1. i - 1 \in DOMAIN a /\ i - 1 < k - 1 /\ ~(i <= c) /\ i # c + 1
              BY <2>2, <2>5, <3>1, <4>1, <5>4
            <7>. QED BY <2>7, <4>1, <7>1
          <6>. QED BY <2>2, <5>1, <6>1
        <5>. QED BY <2>5, <4>1, <5>2, <5>3, <5>4
      <4>. QED BY <2>5, <4>1, <4>2, <4>3, <4>4
    <3>. QED BY <2>7, <3>1 DEF Rising
  <2>9. ToSet(b) = S \cup {j}
    <3>1. \A i \in DOMAIN b : b[i] \in S \cup {j}
      <4> TAKE i \in DOMAIN b
      <4>1. i <= c => i \in DOMAIN a /\ b[i] = a[i]
        BY <2>2, <2>5, <2>7
      <4>2. i > c + 1 => i - 1 \in DOMAIN a /\ b[i] = a[i - 1]
        BY <2>2, <2>5, <2>7
      <4>3. i = c + 1 => b[i] = j
        BY <2>5, <2>7
      <4>. QED BY <2>3, <2>5, <2>7, <4>1, <4>2, <4>3
    <3>2. \A x \in S : \E i \in DOMAIN b : b[i] = x
      <4> TAKE x \in S
      <4>1. PICK i \in DOMAIN a : a[i] = x
        BY <1>1 DEF ToSet
      <4>2. CASE i <= c
        BY <2>2, <2>5, <2>7, <4>1, <4>2
      <4>3. CASE i > c
        <5>1. i + 1 \in DOMAIN b /\ b[i + 1] = a[i]
          BY <2>2, <2>5, <2>7, <4>3
        <5>. QED BY <4>1, <5>1
      <4>. QED BY <2>2, <2>5, <4>2, <4>3
    <3>3. \E i \in DOMAIN b : b[i] = j
      <4>1. c + 1 \in DOMAIN b /\ b[c + 1] = j
        BY <2>2, <2>5, <2>7
      <4>. QED BY <4>1
    <3>. QED BY ONLY <3>1, <3>2, <3>3, Zenon DEF ToSet
  <2>10. b = Ascending(S \cup {j})
    BY <2>8, <2>9, RisingEqual
  <2>. QED BY <2>1, <2>10 DEF a
<1>. QED BY <1>2, <1>3

(***************************************************************************)
(* The tail of a log.                                                      *)
(***************************************************************************)

(* A set of numbers has a least one.  *)
LEMMA MinIs ==
    ASSUME NEW S, S \subseteq Nat, IsFiniteSet(S), S # {}
    PROVE  Min(S) \in S /\ \A y \in S : Min(S) <= y
<1>1. \A x \in S : x \in Nat
  OBVIOUS
<1>2. Cardinality(S) \in Nat /\ Cardinality(S) # 0
  BY FS_CardinalityType, FS_EmptySet
<1> DEFINE x == Nth(S, 1)
<1>3. x \in S /\ Cardinality(UpTo(S, x)) = 1
  <2>1. 1 \in 1 .. Cardinality(S)
    BY <1>2
  <2>. QED BY <2>1, NthIs
<1> HIDE DEF x
<1>4. \A y \in S : x <= y
  <2> TAKE y \in S
  <2>1. y < x => Cardinality(UpTo(S, y)) < Cardinality(UpTo(S, x))
    BY <1>3, RankGrows
  <2>2. Cardinality(UpTo(S, y)) \in 1 .. Cardinality(S)
    BY RankGrows
  <2>. QED BY <1>1, <1>2, <1>3, <2>1, <2>2
<1>5. \E m \in S : \A y \in S : m <= y
  BY <1>3, <1>4
<1>. QED BY <1>5 DEF Min

(* A number's rank from the last.  *)
LEMMA RankFromLast ==
    ASSUME NEW S, S \subseteq Nat, IsFiniteSet(S), NEW x \in S
    PROVE  /\ IsFiniteSet({y \in S : y >= x})
           /\ Cardinality({y \in S : y >= x}) = Cardinality(S) - Cardinality(UpTo(S, x)) + 1
<1> DEFINE V == {y \in S : y >= x}
           U == UpTo(S, x)
<1>1. \A y \in S : y \in Nat
  OBVIOUS
<1>2. U \cup V = S /\ U \cap V = {x} /\ U \subseteq S /\ V \subseteq S
  <2>1. \A y \in S : y <= x \/ y >= x
    BY <1>1
  <2>2. \A y \in S : y <= x /\ y >= x => y = x
    BY <1>1
  <2>3. x <= x /\ x >= x
    BY <1>1
  <2>. QED BY ONLY x \in S, <2>1, <2>2, <2>3, Zenon DEF UpTo, U, V
<1> HIDE DEF U, V
<1>3. IsFiniteSet(U) /\ IsFiniteSet(V)
  BY <1>2, FS_Subset
<1>4. Cardinality(U \cup V) = Cardinality(U) + Cardinality(V) - Cardinality(U \cap V)
  BY ONLY <1>3, FS_Union
<1>5. Cardinality({x}) = 1
  BY FS_Singleton
<1>6. Cardinality(U) \in Nat /\ Cardinality(V) \in Nat /\ Cardinality(S) \in Nat
  BY <1>3, FS_CardinalityType
<1>7. IsFiniteSet(V) /\ Cardinality(V) = Cardinality(S) - Cardinality(U) + 1
  <2>1. Cardinality(S) = Cardinality(U) + Cardinality(V) - 1
    BY ONLY <1>2, <1>4, <1>5, Zenon
  <2>2. Cardinality(V) = Cardinality(S) - Cardinality(U) + 1
    BY ONLY <1>6, <2>1
  <2>. QED BY <1>3, <2>2
<1>. QED BY <1>7 DEF U, V

(* Where the lines begin.  *)
LEMMA LineStartsAre ==
    ASSUME NEW lo \in Nat, NEW hi \in Nat, lo >= 1
    PROVE  /\ LineStarts(lo, hi) \subseteq lo .. hi
           /\ LineStarts(lo, hi) \subseteq Nat /\ IsFiniteSet(LineStarts(lo, hi))
           /\ Cardinality(LineStarts(lo, hi)) \in Nat
           /\ lo <= hi => lo \in LineStarts(lo, hi)
<1>1. LineStarts(lo, hi) \subseteq lo .. hi
  BY DEF LineStarts
<1>2. IsFiniteSet(lo .. hi)
  BY FS_Interval
<1>3. IsFiniteSet(LineStarts(lo, hi)) /\ Cardinality(LineStarts(lo, hi)) \in Nat
  BY <1>1, <1>2, FS_Subset, FS_CardinalityType
<1>4. lo <= hi => lo \in LineStarts(lo, hi)
  BY DEF LineStarts
<1>. QED BY <1>1, <1>3, <1>4

(* The lines from a start of a line are the later ones.  *)
LEMMA LaterLines ==
    ASSUME NEW lo \in Nat, NEW hi \in Nat, lo >= 1, NEW x \in LineStarts(lo, hi)
    PROVE  LineStarts(x, hi) = {k \in LineStarts(lo, hi) : k >= x}
<1>1. x \in Nat /\ lo <= x /\ x <= hi
  BY DEF LineStarts
<1>2. \A i \in LineStarts(x, hi) : i \in LineStarts(lo, hi) /\ i >= x
  <2> TAKE i \in LineStarts(x, hi)
  <2>1. i \in x .. hi /\ (i = 1 \/ i = x \/ log[i - 1] = "eol")
    BY DEF LineStarts
  <2>2. i \in lo .. hi /\ i >= x
    BY <1>1, <2>1
  <2>3. CASE i = x
    BY <2>2, <2>3
  <2>4. CASE i # x
    BY <2>1, <2>2, <2>4 DEF LineStarts
  <2>. QED BY <2>3, <2>4
<1>3. \A i \in LineStarts(lo, hi) : i >= x => i \in LineStarts(x, hi)
  <2> TAKE i \in LineStarts(lo, hi)
  <2> HAVE i >= x
  <2>1. i \in lo .. hi /\ (i = 1 \/ i = lo \/ log[i - 1] = "eol")
    BY DEF LineStarts
  <2>2. i \in x .. hi /\ (i = lo => i = x)
    BY <1>1, <2>1
  <2>. QED BY <2>1, <2>2 DEF LineStarts
<1>. QED BY <1>2, <1>3

(* What is at a place of the sequence of the starts.  *)
LEMMA LastStarts ==
    ASSUME NEW lo \in Nat, NEW hi \in Nat, lo >= 1, NEW n \in Nat, n >= 1,
           Cardinality(LineStarts(lo, hi)) > n
    PROVE  LET firsts == Ascending(LineStarts(lo, hi))
               x == firsts[Len(firsts) - n + 1]
           IN  /\ Len(firsts) > n
               /\ x \in LineStarts(lo, hi) /\ x > lo
               /\ Cardinality({k \in LineStarts(lo, hi) : k >= x}) = n
<1> DEFINE S == LineStarts(lo, hi)
           c == Cardinality(S)
           x == Nth(S, c - n + 1)
<1>1. /\ S \subseteq Nat /\ IsFiniteSet(S) /\ c \in Nat /\ S \subseteq lo .. hi
      /\ lo <= hi => lo \in S
  BY LineStartsAre
<1> HIDE DEF S
<1>2. /\ Len(Ascending(S)) = c
      /\ \A k \in 1 .. c : /\ Ascending(S)[k] = Nth(S, k) /\ Nth(S, k) \in S
                           /\ Cardinality(UpTo(S, Nth(S, k))) = k
  BY <1>1, AscendingIs
<1>3. c > n
  BY DEF S
<1> HIDE DEF c
<1>4. c - n + 1 \in 1 .. c /\ c - n + 1 > 1
  BY <1>1, <1>3
<1>5. x \in S /\ Cardinality(UpTo(S, x)) = c - n + 1 /\ Ascending(S)[c - n + 1] = x
  BY <1>2, <1>4
<1> HIDE DEF x
<1>6. Cardinality({k \in S : k >= x}) = n
  <2>1. Cardinality({k \in S : k >= x}) = Cardinality(S) - Cardinality(UpTo(S, x)) + 1
    BY <1>1, <1>5, RankFromLast
  <2>. QED BY <1>1, <1>5, <2>1 DEF c
<1>7. x > lo
  <2>1. lo <= x /\ x <= hi /\ x \in Nat /\ lo \in S
    BY <1>1, <1>5
  <2>2. x # lo
    <3> SUFFICES ASSUME x = lo PROVE FALSE
      OBVIOUS
    <3>1. UpTo(S, x) = {x}
      <4>1. \A y \in S : y <= x => y = x
        BY <1>1, <2>1
      <4>2. x \in S /\ x <= x
        BY <1>5, <2>1
      <4>. QED BY ONLY <4>1, <4>2, Zenon DEF UpTo
    <3>2. Cardinality(UpTo(S, x)) = 1
      BY <3>1, FS_Singleton
    <3>. QED BY <1>4, <1>5, <3>2
  <2>. QED BY <2>1, <2>2
<1>. QED BY <1>2, <1>3, <1>5, <1>6, <1>7 DEF S

(* The bounds of a setup are numbers.  *)
LEMMA BoundsAre ==
    ASSUME setup \in DOMAIN Setups
    PROVE  /\ Allowed.lines \in Nat /\ Allowed.lines >= 1
           /\ Allowed.bytes \in Nat /\ Allowed.bytes >= 1
           /\ Allowed.jobs \in Nat /\ Allowed.page \in Nat
           /\ Allowed.edits \in Nat /\ Allowed.redos \in Nat
           /\ Allowed.lists \in Nat /\ Allowed.log \in Nat
           /\ Allowed.users \subseteq Users
           /\ Allowed.views \subseteq {"active", "waiting", "all"}
<1>1. Allowed \in Setup
  BY QueriesAssumption DEF Allowed
<1>. QED BY <1>1 DEF Setup

(* A text that is read from the middle of a line begins with the next one.  *)
LEMMA WholeLines ==
    ASSUME log \in Seq({"byte", "eol"}), NEW from \in 1 .. Len(log) + 1, NEW mid \in BOOLEAN,
           IF mid THEN from \in 2 .. Len(log) ELSE from = 1
    PROVE  LET text == Whole(from, mid)
           IN  /\ text \in from .. Len(log) + 1 /\ text >= 1
               /\ text \in LineStarts(1, Len(log)) \cup {1, Len(log) + 1}
               /\ mid => text > 1
               /\ ~mid => text = 1
<1> DEFINE n == Len(log)
           ends == {i \in from .. n : log[i] = "eol"}
           text == Whole(from, mid)
<1>1. n \in Nat /\ from \in Nat /\ from >= 1 /\ from <= n + 1
  OBVIOUS
<1>2. /\ mid => from >= 2 /\ from <= n
      /\ ~mid => from = 1
  OBVIOUS
<1>3. text = IF ~mid THEN from ELSE IF ends # {} THEN Min(ends) + 1 ELSE n + 1
  BY DEF Whole
<1> HIDE DEF text, n
<1>4. CASE ~mid
  <2>1. text = 1
    BY <1>2, <1>3, <1>4
  <2>. QED BY <1>1, <1>2, <1>4, <2>1 DEF text, n
<1>5. CASE mid /\ ends = {}
  <2>1. text = n + 1 /\ text > 1 /\ text \in from .. n + 1
    BY <1>1, <1>2, <1>3, <1>5
  <2>2. text >= 1 /\ text \in LineStarts(1, n) \cup {1, n + 1}
    BY <1>1, <2>1
  <2>. QED BY <1>5, <2>1, <2>2 DEF text, n
<1>6. CASE mid /\ ends # {}
  <2>1. text = Min(ends) + 1
    BY <1>3, <1>6
  <2>2. IsFiniteSet(ends) /\ ends \subseteq Nat
    <3>1. IsFiniteSet(from .. n)
      BY <1>1, FS_Interval
    <3>2. ends \subseteq from .. n /\ ends \subseteq Nat
      BY <1>1
    <3> HIDE DEF ends
    <3>. QED BY <3>1, <3>2, FS_Subset
  <2>3. Min(ends) \in ends
    <3> HIDE DEF ends
    <3>. QED BY <1>6, <2>2, MinIs
  <2>4. PICK m \in ends : m = Min(ends)
    BY <2>3
  <2>5. m \in from .. n /\ log[m] = "eol" /\ m + 1 - 1 = m
    BY <1>1
  <2>6. text = m + 1
    BY <2>1, <2>4
  <2> HIDE DEF ends
  <2>7. m + 1 <= n => m + 1 \in LineStarts(1, n)
    BY <1>1, <2>5 DEF LineStarts
  <2>8. m + 1 > n => m + 1 = n + 1
    BY <1>1, <2>5
  <2>9. text \in from .. n + 1 /\ text > 1 /\ text >= 1
    BY <1>1, <2>5, <2>6
  <2>10. text \in LineStarts(1, n) \cup {1, n + 1}
    BY <1>1, <2>5, <2>6, <2>7, <2>8
  <2>. QED BY <1>6, <2>9, <2>10 DEF text, n
<1>. QED BY <1>4, <1>5, <1>6

(* The tail of the log as it is when it is read.  *)
LEMMA ViewIs ==
    ASSUME setup \in DOMAIN Setups, log \in Seq({"byte", "eol"}),
           NEW from \in 1 .. Len(log) + 1, NEW mid \in BOOLEAN,
           IF mid THEN from \in 2 .. Len(log) ELSE from = 1
    PROVE  LET first == ViewFrom(from, mid)
           IN  /\ first \in 1 .. Len(log) + 1
               /\ first \in LineStarts(1, Len(log)) \cup {1, Len(log) + 1}
               /\ Cardinality(LineStarts(first, Len(log))) <= Allowed.lines
               /\ mid \/ Cardinality(LineStarts(from, Len(log))) > Allowed.lines <=> first > 1
               /\ ~mid => first = LastLines(Len(log), Allowed.lines)
<1> DEFINE n == Len(log)
           text == Whole(from, mid)
           S == LineStarts(text, n)
           firsts == Ascending(S)
           first == ViewFrom(from, mid)
           lines == Allowed.lines
<1>1. n \in Nat /\ from \in Nat /\ from >= 1 /\ lines \in Nat /\ lines >= 1
  BY BoundsAre
<1>2. /\ text \in from .. n + 1 /\ text >= 1 /\ text \in LineStarts(1, n) \cup {1, n + 1}
      /\ mid => text > 1
      /\ ~mid => text = 1 /\ from = 1
  BY WholeLines
<1>3. first = IF Len(firsts) <= lines THEN text ELSE firsts[Len(firsts) - lines + 1]
  BY DEF ViewFrom
<1> HIDE DEF first, lines, n, text
<1>4. text \in Nat
  BY <1>1, <1>2
<1>5. /\ S \subseteq text .. n /\ S \subseteq Nat /\ IsFiniteSet(S) /\ Cardinality(S) \in Nat
      /\ text <= n => text \in S
  BY <1>1, <1>2, <1>4, LineStartsAre
<1>6. Len(firsts) = Cardinality(S)
  <2> HIDE DEF S
  <2>. QED BY <1>5, AscendingIs
<1>7. CASE Cardinality(S) <= lines
  <2>1. first = text
    BY <1>3, <1>6, <1>7
  <2>2. ~mid => /\ text = 1 /\ from = 1
                /\ ~(Cardinality(LineStarts(from, n)) > lines)
    BY <1>1, <1>2, <1>5, <1>7
  <2>3. ~mid => text = LastLines(n, lines)
    <3> SUFFICES ASSUME ~mid PROVE text = LastLines(n, lines)
      OBVIOUS
    <3> DEFINE all == LineStarts(1, n)
               queue == {i \in all : Cardinality({k \in all : k >= i}) <= lines}
    <3>1. text = 1 /\ all = S
      BY <1>2
    <3>2. queue = all
      <4>1. \A i \in S : Cardinality({k \in S : k >= i}) <= lines
        <5> TAKE i \in S
        <5> DEFINE V == {k \in S : k >= i}
        <5>1. V \subseteq S
          OBVIOUS
        <5> HIDE DEF V, S
        <5>2. IsFiniteSet(V) /\ Cardinality(V) <= Cardinality(S)
          BY <1>5, <5>1, FS_Subset
        <5>3. Cardinality(V) \in Nat
          BY <5>2, FS_CardinalityType
        <5>4. Cardinality(V) <= lines
          BY <1>1, <1>5, <1>7, <5>2, <5>3
        <5>. QED BY <5>4 DEF V
      <4> HIDE DEF S, all
      <4>. QED BY ONLY <3>1, <4>1, Zenon
    <3>3. LastLines(n, lines) = IF queue = {} THEN 1 ELSE Min(queue)
      BY DEF LastLines
    <3> HIDE DEF queue, all
    <3>4. CASE S = {}
      BY <3>1, <3>2, <3>3, <3>4
    <3>5. CASE S # {}
      <4>1. LastLines(n, lines) = Min(S)
        BY <3>1, <3>2, <3>3, <3>5
      <4>2. 1 \in S /\ \A y \in S : y >= 1 /\ y \in Nat
        <5>1. text <= n
          BY <1>1, <1>4, <1>5, <3>5
        <5>2. 1 \in S
          BY <1>5, <3>1, <5>1
        <5>3. \A y \in S : y \in text .. n
          BY <1>5
        <5>. QED BY <1>1, <3>1, <5>2, <5>3
      <4> HIDE DEF S
      <4>3. Min(S) \in S /\ \A y \in S : Min(S) <= y
        BY <1>5, <3>5, MinIs
      <4>4. Min(S) <= 1 /\ Min(S) >= 1 /\ Min(S) \in Nat
        BY <4>2, <4>3
      <4>. QED BY <3>1, <4>1, <4>4
    <3>. QED BY <3>4, <3>5
  <2>4. text \in 1 .. n + 1
    BY <1>1, <1>2, <1>4
  <2>5. (mid \/ Cardinality(LineStarts(from, n)) > lines) <=> text > 1
    BY <1>2, <2>2
  <2>. QED BY <1>2, <1>7, <2>1, <2>3, <2>4, <2>5 DEF first, lines, n
<1>8. CASE Cardinality(S) > lines
  <2>1. /\ Len(firsts) > lines /\ first = firsts[Len(firsts) - lines + 1]
        /\ first \in S /\ first > text
        /\ Cardinality({k \in S : k >= first}) = lines
    <3>1. ~(Len(firsts) <= lines)
      BY <1>1, <1>5, <1>6, <1>8
    <3>2. first = firsts[Len(firsts) - lines + 1]
      BY <1>3, <3>1
    <3>3. LET x == firsts[Len(firsts) - lines + 1]
          IN  /\ Len(firsts) > lines /\ x \in S /\ x > text
              /\ Cardinality({k \in S : k >= x}) = lines
      BY <1>1, <1>2, <1>4, <1>8, LastStarts
    <3>. QED BY <3>2, <3>3
  <2>2. first \in 1 .. n + 1 /\ first > 1 /\ first \in Nat /\ first <= n
    BY <1>1, <1>2, <1>4, <1>5, <2>1
  <2>3. first \in LineStarts(1, n)
    <3>1. first \in text .. n /\ (first = 1 \/ first = text \/ log[first - 1] = "eol")
      BY <2>1 DEF LineStarts
    <3>. QED BY <1>1, <1>4, <2>1, <2>2, <3>1 DEF LineStarts
  <2>4. Cardinality(LineStarts(first, n)) = lines
    BY <1>1, <1>2, <1>4, <2>1, LaterLines
  <2>5. mid \/ Cardinality(LineStarts(from, n)) > lines
    BY <1>2, <1>8
  <2>6. ~mid => first = LastLines(n, lines)
    <3> SUFFICES ASSUME ~mid PROVE first = LastLines(n, lines)
      OBVIOUS
    <3> DEFINE all == LineStarts(1, n)
               queue == {i \in all : Cardinality({k \in all : k >= i}) <= lines}
    <3>1. all = S
      BY <1>2
    <3>2. LastLines(n, lines) = IF queue = {} THEN 1 ELSE Min(queue)
      BY DEF LastLines
    <3>3. first \in queue
      <4>1. Cardinality({k \in all : k >= first}) = lines /\ lines <= lines /\ first \in all
        <5> HIDE DEF S, all
        <5>. QED BY <1>1, <2>1, <3>1
      <4> HIDE DEF all
      <4>. QED BY <4>1
    <3>4. ASSUME NEW i \in queue
          PROVE  first <= i
      <4>1. i \in S /\ Cardinality({k \in S : k >= i}) <= lines /\ i \in Nat
        BY <1>5, <3>1
      <4> SUFFICES ASSUME i < first
                   PROVE  FALSE
        BY <2>2, <4>1
      <4> HIDE DEF S, queue, all
      <4>2. /\ Cardinality({k \in S : k >= i}) = Cardinality(S) - Cardinality(UpTo(S, i)) + 1
            /\ Cardinality({k \in S : k >= first})
                  = Cardinality(S) - Cardinality(UpTo(S, first)) + 1
        BY <1>5, <2>1, <4>1, RankFromLast
      <4>3. Cardinality(UpTo(S, i)) < Cardinality(UpTo(S, first))
        BY <1>5, <2>1, <4>1, RankGrows
      <4>4. /\ Cardinality(UpTo(S, i)) \in 1 .. Cardinality(S)
            /\ Cardinality(UpTo(S, first)) \in 1 .. Cardinality(S)
        BY <1>5, <2>1, <4>1, RankGrows
      <4>. QED BY <1>1, <1>5, <2>1, <4>1, <4>2, <4>3, <4>4
    <3>5. queue \subseteq Nat /\ IsFiniteSet(queue) /\ queue # {}
      <4>1. queue \subseteq S
        BY <3>1
      <4> HIDE DEF S, queue
      <4>. QED BY <1>5, <3>3, <4>1, FS_Subset
    <3> HIDE DEF queue
    <3>6. Min(queue) \in queue /\ \A y \in queue : Min(queue) <= y
      BY <3>5, MinIs
    <3>7. Min(queue) \in Nat /\ Min(queue) <= first /\ first <= Min(queue)
      BY <3>3, <3>4, <3>5, <3>6
    <3>8. LastLines(n, lines) = Min(queue)
      BY <3>2, <3>5
    <3>9. first = Min(queue)
      BY <2>2, <3>7
    <3>. QED BY <3>8, <3>9
  <2>7. Cardinality(LineStarts(first, n)) <= lines
    BY <1>1, <2>4
  <2>. QED BY <2>2, <2>3, <2>5, <2>6, <2>7 DEF first, lines, n
<1>9. Cardinality(S) <= lines \/ Cardinality(S) > lines
  BY <1>1, <1>5
<1>. QED BY <1>7, <1>8, <1>9

(* The lines of what is written already stay where they are.  *)
LEMMA WrittenStays ==
    ASSUME log \in Seq({"byte", "eol"}), NEW c \in {"byte", "eol"}, log' = Append(log, c),
           NEW lo \in Nat, lo >= 1, NEW hi \in 0 .. Len(log)
    PROVE  LineStarts(lo, hi)' = LineStarts(lo, hi)
<1>1. \A i \in lo .. hi : i # 1 => log'[i - 1] = log[i - 1]
  <2> TAKE i \in lo .. hi
  <2> HAVE i # 1
  <2>1. i - 1 \in 1 .. Len(log)
    OBVIOUS
  <2>. QED BY <2>1
<1>. QED BY <1>1 DEF LineStarts

(* A tail is always that of what the log was.  *)
LEMMA LogTailStep ==
    ASSUME setup \in DOMAIN Setups, log \in Seq({"byte", "eol"}), LogTailSound,
           [QueryNext]_queryVars
    PROVE  LogTailSound'
<1>1. Len(log) \in Nat
  OBVIOUS
<1>2. ASSUME UNCHANGED <<setup, log, tail>>
      PROVE  LogTailSound'
  BY <1>2 DEF LogTailSound, Seeking, Reading, Showing, TailSound, LineStarts, LastLines, Allowed
<1>3. ASSUME NEW c \in {"byte", "eol"}, Write(c)
      PROVE  LogTailSound'
  <2>1. /\ log' = Append(log, c) /\ setup' = setup /\ tail' = tail
        /\ Len(log)' = Len(log) + 1
    BY <1>3 DEF Write, table
  <2>2. CASE tail = NoTail
    BY <2>1, <2>2 DEF LogTailSound
  <2>3. CASE Seeking
    BY <1>1, <2>1, <2>3 DEF LogTailSound, Seeking
  <2>4. CASE Reading
    BY <1>1, <2>1, <2>4 DEF LogTailSound, Reading
  <2>5. CASE Showing
    <3>1. /\ tail.op = "told" /\ tail.last \in 0 .. Len(log) /\ tail.first \in 1 .. tail.last + 1
          /\ tail.first \in LineStarts(1, tail.last) \cup {1, tail.last + 1}
          /\ Cardinality(LineStarts(tail.first, tail.last)) <= Allowed.lines
          /\ tail.truncated <=> tail.first > 1
          /\ tail.bytes = tail.last => tail.first = LastLines(tail.last, Allowed.lines)
      BY <2>5 DEF Showing, TailSound
    <3>2. /\ LineStarts(1, tail.last)' = LineStarts(1, tail.last)
          /\ LineStarts(tail.first, tail.last)' = LineStarts(tail.first, tail.last)
      <4>1. PICK last \in 0 .. Len(log), first \in Nat : last = tail.last /\ first = tail.first
        BY <3>1
      <4>2. first >= 1 /\ 1 \in Nat /\ 1 >= 1
        BY <3>1, <4>1
      <4>3. /\ LineStarts(1, last)' = LineStarts(1, last)
            /\ LineStarts(first, last)' = LineStarts(first, last)
        BY <2>1, <4>2, WrittenStays
      <4>4. tail.last' = last /\ tail.first' = first
        BY <2>1, <4>1
      <4>. QED BY <4>1, <4>3, <4>4
    <3>3. Allowed' = Allowed
      BY <2>1 DEF Allowed
    <3>4. TailSound'
      BY <2>1, <3>1, <3>2, <3>3 DEF TailSound, LastLines
    <3>5. Showing'
      BY <1>1, <2>1, <2>5, <3>4 DEF Showing
    <3>. QED BY <3>5 DEF LogTailSound
  <2>. QED BY <2>2, <2>3, <2>4, <2>5 DEF LogTailSound
<1>4. ASSUME Stat
      PROVE  LogTailSound'
  BY <1>1, <1>4 DEF Stat, LogTailSound, Seeking
<1>5. ASSUME Seek
      PROVE  LogTailSound'
  <2>1. /\ tail.op = "seek" /\ log' = log
        /\ LET mid == tail.size > Allowed.bytes
           IN  tail' = [op |-> "read", size |-> tail.size, mid |-> mid,
                        from |-> IF mid THEN Len(log) - Allowed.bytes + 1 ELSE 1]
    BY <1>5 DEF Seek
  <2>2. tail.size \in 0 .. Len(log)
    BY <2>1 DEF LogTailSound, NoTail, Seeking, Reading, Showing
  <2>3. Allowed.bytes \in Nat /\ Allowed.bytes >= 1
    BY BoundsAre
  <2> DEFINE mid == tail.size > Allowed.bytes
             from == IF mid THEN Len(log) - Allowed.bytes + 1 ELSE 1
  <2>4. /\ mid \in BOOLEAN /\ from \in 1 .. Len(log) + 1
        /\ IF mid THEN from \in 2 .. Len(log) ELSE from = 1
    BY <1>1, <2>2, <2>3
  <2> HIDE DEF mid, from
  <2>5. tail' = [op |-> "read", size |-> tail.size, mid |-> mid, from |-> from]
    BY <2>1 DEF mid, from
  <2>. QED BY <2>1, <2>2, <2>4, <2>5 DEF LogTailSound, Reading
<1>6. ASSUME Read
      PROVE  LogTailSound'
  <2>1. tail.op = "read" /\ UNCHANGED <<setup, log>>
    BY <1>6 DEF Read
  <2>2. Reading
    BY <2>1 DEF LogTailSound, NoTail, Seeking, Showing
  <2> DEFINE from == tail.from
             mid == tail.mid
             first == ViewFrom(from, mid)
             cut == mid \/ Cardinality(LineStarts(from, Len(log))) > Allowed.lines
             bytes == Len(log) - from + 1
  <2>3. /\ tail.size \in Nat /\ mid \in BOOLEAN /\ from \in 1 .. Len(log) + 1
        /\ IF mid THEN from \in 2 .. Len(log) ELSE from = 1
    BY <2>2 DEF Reading
  <2>4. tail' = [op |-> "told", size |-> tail.size, bytes |-> bytes, first |-> first,
                 last |-> Len(log), truncated |-> cut]
    BY <1>6 DEF Read
  <2> HIDE DEF from, mid
  <2>5. /\ first \in 1 .. Len(log) + 1
        /\ first \in LineStarts(1, Len(log)) \cup {1, Len(log) + 1}
        /\ Cardinality(LineStarts(first, Len(log))) <= Allowed.lines
        /\ cut <=> first > 1
        /\ ~mid => first = LastLines(Len(log), Allowed.lines)
    BY <2>3, ViewIs
  <2>6. bytes \in Nat /\ cut \in BOOLEAN /\ (bytes = Len(log) => ~mid)
    BY <1>1, <2>3
  <2> HIDE DEF first, cut, bytes
  <2>7. Allowed' = Allowed /\ log' = log
    BY <2>1 DEF Allowed
  <2>8. TailSound'
    BY <2>4, <2>5, <2>6, <2>7 DEF TailSound, LineStarts, LastLines
  <2>9. Showing'
    BY <1>1, <2>3, <2>4, <2>5, <2>6, <2>7, <2>8 DEF Showing
  <2>. QED BY <2>9 DEF LogTailSound
<1>7. ASSUME Answered
      PROVE  LogTailSound'
  BY <1>7 DEF Answered, LogTailSound
<1>8. ASSUME Changes
      PROVE  UNCHANGED <<setup, log, tail>>
  BY <1>8 DEF Changes
<1>. QED
  BY <1>2, <1>3, <1>4, <1>5, <1>6, <1>7, <1>8
     DEF QueryNext, queryVars, Submit, Move, Update, Redo, Restart, BeginPaging, NextPage

(***************************************************************************)
(* The indexes.                                                            *)
(***************************************************************************)

(* Those of the table whose user or state is given.  *)
OfUser(u) == {j \in Ids : jobs[j].user = u}
InState(s) == {j \in Ids : jobs[j].state = s}

(* Ids are numbers, and there are finitely many.  *)
LEMMA IdsAre ==
    ASSUME jobs \in Seq(Job)
    PROVE  /\ Len(jobs) \in Nat /\ Ids = 1 .. Len(jobs) /\ Ids \subseteq Nat /\ IsFiniteSet(Ids)
           /\ \A j \in Ids : /\ jobs[j] \in Job /\ jobs[j].user \in Users
                             /\ jobs[j].state \in States
           /\ \A S : S \subseteq Ids => S \subseteq Nat /\ IsFiniteSet(S)
           /\ \A u : OfUser(u) \subseteq Ids
           /\ \A s : InState(s) \subseteq Ids
<1>1. Len(jobs) \in Nat /\ Ids = 1 .. Len(jobs) /\ Ids \subseteq Nat
  BY DEF Ids
<1>2. IsFiniteSet(Ids)
  <2>1. 1 \in Int /\ Len(jobs) \in Int
    BY <1>1
  <2>2. IsFiniteSet(1 .. Len(jobs))
    BY ONLY <2>1, FS_Interval
  <2>. QED BY <1>1, <2>2
<1>3. \A j \in Ids : /\ jobs[j] \in Job /\ jobs[j].user \in Users
                     /\ jobs[j].state \in States
  <2> TAKE j \in Ids
  <2>1. jobs[j] \in Job
    BY <1>1
  <2>. QED BY <2>1 DEF Job
<1>4. \A S : S \subseteq Ids => S \subseteq Nat /\ IsFiniteSet(S)
  BY <1>1, <1>2, FS_Subset
<1>. QED BY <1>1, <1>2, <1>3, <1>4 DEF OfUser, InState

(* The newest job is the last of its user and of those that wait.  *)
LEMMA SubmittedIsIndexed ==
    ASSUME jobs \in Seq(Job), IndexesSound, NEW u \in Users, NEW list \in Seq(Ids),
           NEW from \in Ids \cup {Nobody}, Submitted(u, list, from)
    PROVE  jobs' \in Seq(Job)' /\ IndexesSound'
<1>0. PICK n \in 0 .. Allowed.gpus :
         jobs' = Append(jobs, [user |-> u, state |-> "Queued", gpus |-> n, from |-> from,
                               ids |-> list,
                               legacy |-> IF Len(list) = 1 THEN list[1] ELSE Nobody])
  BY DEF Submitted
<1> DEFINE id == Len(jobs) + 1
           job == [user |-> u, state |-> "Queued", gpus |-> n, from |-> from, ids |-> list,
                   legacy |-> IF Len(list) = 1 THEN list[1] ELSE Nobody]
<1>1. /\ jobs' = Append(jobs, job)
      /\ byUser' = [byUser EXCEPT ![u] = Append(@, id)]
      /\ byState' = [byState EXCEPT !["Queued"] = Append(@, id)]
  BY <1>0 DEF Submitted
<1>2. /\ Len(jobs) \in Nat /\ Ids = 1 .. Len(jobs) /\ id \in Nat
      /\ \A j \in Ids : j < id /\ j \in Nat
  BY IdsAre
<1>3. job.user = u /\ job.state = "Queued"
  OBVIOUS
<1>4. \A T : Ids \subseteq T => job \in [user : Users, state : States, gpus : Nat,
                                         ids : Seq(T), legacy : T \cup {Nobody}, from : T \cup {Nobody}]
  <2> TAKE T
  <2> HAVE Ids \subseteq T
  <2>1. list \in Seq(T)
    BY SeqMonotonic
  <2>2. Len(list) = 1 => list[1] \in T
    <3> HAVE Len(list) = 1
    <3>1. 1 \in 1 .. Len(list)
      OBVIOUS
    <3>. QED BY ONLY <2>1, <3>1, ElementOfSeq
  <2>3. n \in Nat
    OBVIOUS
  <2>. QED BY <2>1, <2>2, <2>3 DEF States
<1> HIDE DEF job, id
<1>5. /\ Ids' = Ids \cup {id} /\ jobs'[id] = job /\ id \in Ids' /\ id \notin Ids
      /\ \A j \in Ids : jobs'[j] = jobs[j]
  BY <1>1, <1>2 DEF Ids, id
<1>6. jobs' \in Seq(Job)'
  <2>1. \A j \in Ids : jobs[j] \in Job'
    <3> TAKE j \in Ids
    <3>1. jobs[j] \in Job /\ Ids \subseteq Ids'
      BY <1>5, IdsAre
    <3>2. Seq(Ids) \subseteq Seq(Ids')
      BY <1>5
    <3>. QED BY <3>1, <3>2 DEF Job
  <2>2. job \in Job'
    BY <1>4, <1>5 DEF Job
  <2>3. jobs \in Seq(Job')
    BY <1>2, <2>1 DEF Ids
  <2>. QED BY <1>1, <2>2, <2>3
<1>7. ASSUME NEW S, S \subseteq Ids
      PROVE  Append(Ascending(S), id) = Ascending(S \cup {id})
  <2>1. S \subseteq Nat /\ IsFiniteSet(S) /\ \A x \in S : x < id
    BY <1>2, <1>7, IdsAre
  <2>. QED BY <1>2, <2>1, AppendRises
<1>8. \A v : OfUser(v)' = IF v = u THEN OfUser(v) \cup {id} ELSE OfUser(v)
  BY <1>3, <1>5 DEF OfUser
<1>9. \A s : InState(s)' = IF s = "Queued" THEN InState(s) \cup {id} ELSE InState(s)
  BY <1>3, <1>5 DEF InState
<1>10. byUser = [v \in Users |-> Ascending(OfUser(v))]
  BY DEF IndexesSound, OfUser
<1>11. byState = [s \in States |-> Ascending(InState(s))]
  BY DEF IndexesSound, InState
<1>12. byUser' = [v \in Users |-> Ascending(OfUser(v)')]
  <2>1. Append(Ascending(OfUser(u)), id) = Ascending(OfUser(u) \cup {id})
    BY <1>7 DEF OfUser
  <2>. QED BY <1>1, <1>8, <1>10, <2>1
<1>13. byState' = [s \in States |-> Ascending(InState(s)')]
  <2>1. Append(Ascending(InState("Queued")), id) = Ascending(InState("Queued") \cup {id})
    BY <1>7 DEF InState
  <2>. QED BY <1>1, <1>9, <1>11, <2>1
<1>14. IndexesSound'
  BY <1>12, <1>13 DEF IndexesSound, OfUser, InState
<1>. QED BY <1>6, <1>14

(* A job that moves leaves the index of its state for that of the next, in its
   place.  *)
LEMMA MovedIsIndexed ==
    ASSUME jobs \in Seq(Job), IndexesSound, NEW j \in Ids, NEW next \in States, Moved(j, next)
    PROVE  jobs' \in Seq(Job)' /\ IndexesSound'
<1> DEFINE was == jobs[j].state
<1>1. /\ jobs' = [jobs EXCEPT ![j].state = next]
      /\ byState' = [byState EXCEPT ![was] = Selected(@, Ids \ {j}), ![next] = Inserted(@, j)]
      /\ byUser' = byUser
      /\ was # next
  BY DEF Moved, CanTransitionTo
<1>2. was \in States /\ j \in Nat
  BY IdsAre
<1> HIDE DEF was
<1>3. /\ Ids' = Ids /\ Len(jobs') = Len(jobs)
      /\ jobs'[j] = [jobs[j] EXCEPT !.state = next]
      /\ \A k \in Ids : k # j => jobs'[k] = jobs[k]
  BY <1>1 DEF Ids
<1>4. Job' = Job
  BY <1>3 DEF Job
<1>5. jobs'[j].state = next /\ jobs'[j].user = jobs[j].user /\ jobs'[j] \in Job
  <2>1. jobs[j] \in Job
    BY IdsAre
  <2>. QED BY <1>3, <2>1 DEF Job
<1>6. jobs' \in Seq(Job)'
  <2>1. jobs' \in Seq(Job)
    <3>1. \A k \in Ids : jobs'[k] \in Job
      BY <1>3, <1>5, IdsAre
    <3>2. jobs' = [k \in 1 .. Len(jobs) |-> jobs'[k]]
      <4>1. jobs \in [1 .. Len(jobs) -> Job]
        BY LenProperties
      <4>. QED BY <1>1, <4>1
    <3>. QED BY <3>1, <3>2, IdsAre
  <2>. QED BY <1>4, <2>1
<1>7. \A v : OfUser(v)' = OfUser(v)
  BY <1>3, <1>5 DEF OfUser
<1>8. \A s : InState(s)' = IF s = next THEN InState(s) \cup {j}
                           ELSE IF s = was THEN InState(s) \ {j} ELSE InState(s)
  <2>1. \A k \in Ids : jobs'[k].state = IF k = j THEN next ELSE jobs[k].state
    BY <1>3, <1>5
  <2>2. \A k \in Ids : k = j => jobs[k].state = was
    BY DEF was
  <2>. QED BY <1>1, <1>3, <2>1, <2>2 DEF InState
<1>9. Inserted(Ascending(InState(next)), j) = Ascending(InState(next) \cup {j})
  <2>1. InState(next) \subseteq Nat /\ IsFiniteSet(InState(next))
    BY IdsAre
  <2>. QED BY <1>2, <2>1, InsertedRises
<1>10. Selected(Ascending(InState(was)), Ids \ {j}) = Ascending(InState(was) \ {j})
  <2>1. InState(was) \subseteq Nat /\ IsFiniteSet(InState(was)) /\ InState(was) \subseteq Ids
    BY IdsAre
  <2> DEFINE S == InState(was)
             a == Ascending(S)
             T == Ids \ {j}
  <2>2. Rising(a) /\ ToSet(a) = S
    BY <2>1, AscendingIs
  <2>3. S \cap T = S \ {j}
    BY <2>1
  <2> HIDE DEF a, S, T
  <2>4. Selected(a, T) = Ascending(S \cap T)
    BY <2>2, SelectedRises
  <2>. QED BY <2>3, <2>4 DEF a, S, T
<1>11. byState = [s \in States |-> Ascending(InState(s))]
  BY DEF IndexesSound, InState
<1>12. byState' = [s \in States |-> Ascending(InState(s)')]
  <2>1. /\ DOMAIN byState' = States /\ byState' = [s \in States |-> byState'[s]]
    BY <1>1, <1>11
  <2>2. ASSUME NEW s \in States
        PROVE  byState'[s] = Ascending(InState(s)')
    <3>1. CASE s = next
      <4>1. byState'[s] = Inserted(byState[s], j)
        BY <1>1, <1>11, <3>1
      <4>. QED BY <1>8, <1>9, <1>11, <3>1, <4>1
    <3>2. CASE s = was
      <4>1. byState'[s] = Selected(byState[s], Ids \ {j})
        BY <1>1, <1>11, <3>2
      <4>. QED BY <1>1, <1>8, <1>10, <1>11, <3>2, <4>1
    <3>3. CASE s # next /\ s # was
      <4>1. byState'[s] = byState[s]
        BY <1>1, <1>11, <3>3
      <4>. QED BY <1>8, <1>11, <3>3, <4>1
    <3>. QED BY <3>1, <3>2, <3>3
  <2>. QED BY <2>1, <2>2
<1>13. IndexesSound'
  <2>1. byUser = [v \in Users |-> Ascending(OfUser(v))]
    BY DEF IndexesSound, OfUser
  <2>2. byUser' = [v \in Users |-> Ascending(OfUser(v)')]
    BY ONLY <1>1, <1>7, <2>1, Zenon
  <2>. QED BY <1>12, <2>2 DEF IndexesSound, OfUser, InState
<1>. QED BY <1>6, <1>13

(* An edit changes neither users nor states.  *)
LEMMA UpdatedIsIndexed ==
    ASSUME jobs \in Seq(Job), IndexesSound, NEW j \in Ids, NEW list \in Seq(Ids),
           Updated(j, list)
    PROVE  jobs' \in Seq(Job)' /\ IndexesSound'
<1>1. jobs' = [jobs EXCEPT ![j].ids = list] /\ byUser' = byUser /\ byState' = byState
  BY DEF Updated
<1>2. /\ Ids' = Ids /\ Len(jobs') = Len(jobs)
      /\ jobs'[j] = [jobs[j] EXCEPT !.ids = list]
      /\ \A k \in Ids : k # j => jobs'[k] = jobs[k]
  BY <1>1 DEF Ids
<1>3. Job' = Job
  BY <1>2 DEF Job
<1>4. jobs'[j].state = jobs[j].state /\ jobs'[j].user = jobs[j].user /\ jobs'[j] \in Job
  <2>1. jobs[j] \in Job
    BY IdsAre
  <2>. QED BY <1>2, <2>1 DEF Job
<1>5. jobs' \in Seq(Job)'
  <2>1. \A k \in Ids : jobs'[k] \in Job
    BY <1>2, <1>4, IdsAre
  <2>2. jobs' = [k \in 1 .. Len(jobs) |-> jobs'[k]]
    <3>1. jobs \in [1 .. Len(jobs) -> Job]
      BY LenProperties
    <3>. QED BY <1>1, <3>1
  <2>3. jobs' \in Seq(Job)
    BY <2>1, <2>2, IdsAre
  <2>. QED BY <1>3, <2>3
<1>6. /\ \A v : {k \in Ids : jobs[k].user = v}' = {k \in Ids : jobs[k].user = v}
      /\ \A s : {k \in Ids : jobs[k].state = s}' = {k \in Ids : jobs[k].state = s}
  BY <1>2, <1>4
<1>7. IndexesSound'
  BY <1>1, <1>6 DEF IndexesSound
<1>. QED BY <1>5, <1>7

(* A new daemon's indexes.  *)
LEMMA RebuiltIsIndexed ==
    ASSUME jobs \in Seq(Job), Rebuilt
    PROVE  jobs' \in Seq(Job)' /\ IndexesSound'
<1>1. ASSUME NEW S, S \subseteq Ids
      PROVE  Selected([i \in Ids |-> i], S) = Ascending(S)
  <2> DEFINE s == [i \in Ids |-> i]
  <2>1. s = Ascending(Ids)
    BY IdsAre, CountingRises
  <2>2. Rising(s) /\ ToSet(s) = Ids
    BY <2>1, IdsAre, AscendingIs
  <2>3. Ids \cap S = S
    BY <1>1
  <2> HIDE DEF s
  <2>4. Selected(s, S) = Ascending(ToSet(s) \cap S)
    BY <2>2, SelectedRises
  <2>. QED BY <2>2, <2>3, <2>4 DEF s
<1>2. jobs' = jobs /\ Ids' = Ids
  BY DEF Rebuilt, Ids
<1>3. \A u : Selected([i \in Ids |-> i], {j \in Ids : jobs[j].user = u})
                = Ascending({j \in Ids : jobs[j].user = u})
  BY <1>1
<1>4. \A s : Selected([i \in Ids |-> i], {j \in Ids : jobs[j].state = s})
                = Ascending({j \in Ids : jobs[j].state = s})
  BY <1>1
<1>5. /\ byUser' = [u \in Users |-> Ascending({j \in Ids : jobs[j].user = u})]
      /\ byState' = [s \in States |-> Ascending({j \in Ids : jobs[j].state = s})]
  BY ONLY Rebuilt, <1>3, <1>4, Zenon DEF Rebuilt
<1>6. IndexesSound'
  BY <1>2, <1>5 DEF IndexesSound
<1>7. jobs' \in Seq(Job)'
  BY <1>2 DEF Job
<1>. QED BY <1>6, <1>7

(* The lists that are given are of ids.  *)
LEMMA ListsAre ==
    ASSUME NEW n, NEW list \in Lists(n)
    PROVE  list \in Seq(Ids)
<1>1. PICK k \in 0 .. n : list \in [1 .. k -> Ids]
  BY DEF Lists
<1>. QED BY <1>1

(* No change of the table leaves an index behind.  *)
LEMMA TableStep ==
    ASSUME QueryTypeOK, IndexesSound, [QueryNext]_queryVars
    PROVE  QueryTypeOK' /\ IndexesSound'
<1> USE DEF QueryTypeOK
<1>1. setup \in DOMAIN Setups /\ setup' = setup /\ Allowed' = Allowed
  <2>1. setup' = setup
    BY DEF QueryNext, queryVars, Submit, Move, Update, Redo, Restart, Changes, BeginPaging,
           NextPage, Write, Stat, Seek, Read, Answered
  <2>. QED BY <2>1 DEF Allowed
<1> DEFINE Good == /\ jobs' \in Seq(Job)' /\ IndexesSound'
           Few == /\ Len(jobs') <= Allowed.jobs
                  /\ edits' \in 0 .. Allowed.edits /\ redos' \in 0 .. Allowed.redos
           Log == log' \in Seq({"byte", "eol"}) /\ Len(log') <= Allowed.log
<1>2. /\ Allowed.jobs \in Nat /\ Allowed.edits \in Nat /\ Allowed.redos \in Nat
      /\ Allowed.log \in Nat /\ Allowed.users \subseteq Users /\ Len(jobs) \in Nat
  BY BoundsAre
<1>3. ASSUME UNCHANGED table
      PROVE  Good /\ Few
  BY <1>3 DEF table, IndexesSound, Ids, Job
<1>4. ASSUME UNCHANGED log
      PROVE  Log
  BY <1>4
<1>5. ASSUME NEW u \in Allowed.users, NEW list \in Lists(Allowed.lists), Submit(u, list)
      PROVE  Good /\ Few /\ Log
  <2>1. Submitted(u, list, Nobody) /\ UNCHANGED <<edits, redos, log>>
    BY <1>5 DEF Submit, Changes
  <2>2. u \in Users /\ list \in Seq(Ids) /\ Nobody \in Ids \cup {Nobody}
    BY <1>2, ListsAre
  <2>3. Good
    BY <2>1, <2>2, SubmittedIsIndexed
  <2>4. Len(jobs') <= Allowed.jobs
    BY <1>2, <2>1 DEF Submitted
  <2>. QED BY <2>1, <2>3, <2>4
<1>6. ASSUME NEW j \in Ids, NEW next \in States, Move(j, next)
      PROVE  Good /\ Few /\ Log
  <2>1. Moved(j, next) /\ UNCHANGED <<edits, redos, log>>
    BY <1>6 DEF Move, Changes
  <2>2. Good
    BY <2>1, MovedIsIndexed
  <2>3. Len(jobs') <= Allowed.jobs
    BY <2>1 DEF Moved
  <2>. QED BY <2>1, <2>2, <2>3
<1>7. ASSUME NEW j \in Ids, NEW list \in Lists(Allowed.lists), Update(j, list)
      PROVE  Good /\ Few /\ Log
  <2>1. Updated(j, list) /\ edits' = edits + 1 /\ UNCHANGED <<redos, log>>
    BY <1>7 DEF Update, Changes
  <2>2. Good
    BY <2>1, ListsAre, UpdatedIsIndexed
  <2>3. Len(jobs') <= Allowed.jobs /\ edits' \in 0 .. Allowed.edits
    BY <1>2, <2>1 DEF Updated
  <2>. QED BY <2>1, <2>2, <2>3
<1>8. ASSUME NEW j \in Ids, NEW list \in Lists(Allowed.lists), Redo(j, list)
      PROVE  Good /\ Few /\ Log
  <2>1. PICK u \in Allowed.users : Submitted(u, list, j)
    BY <1>8 DEF Redo
  <2>2. redos < Allowed.redos /\ redos' = redos + 1 /\ UNCHANGED <<edits, log>>
    BY <1>8 DEF Redo, Changes
  <2>3. u \in Users /\ list \in Seq(Ids) /\ j \in Ids \cup {Nobody}
    BY <1>2, ListsAre
  <2>4. Good
    BY <2>1, <2>3, SubmittedIsIndexed
  <2>5. Len(jobs') <= Allowed.jobs
    BY <1>2, <2>1 DEF Submitted
  <2>. QED BY <1>2, <2>2, <2>4, <2>5
<1>9. ASSUME Restart
      PROVE  Good /\ Few /\ Log
  <2>1. Rebuilt /\ UNCHANGED <<edits, redos, log>>
    BY <1>9 DEF Restart, Changes
  <2>2. Good
    BY <2>1, RebuiltIsIndexed
  <2>3. Len(jobs') <= Allowed.jobs
    BY <2>1 DEF Rebuilt
  <2>. QED BY <2>1, <2>2, <2>3
<1>10. ASSUME NEW c \in {"byte", "eol"}, Write(c)
       PROVE  Good /\ Few /\ Log
  <2>1. Len(log) < Allowed.log /\ log' = Append(log, c) /\ UNCHANGED table
    BY <1>10 DEF Write
  <2>2. Log
    BY <1>2, <2>1
  <2>. QED BY <1>3, <2>1, <2>2
<1>11. Good /\ Few /\ Log
  <2> HIDE DEF Good, Few, Log, QueryTypeOK
  <2>1. CASE UNCHANGED <<table, log>>
    BY <1>3, <1>4, <2>1
  <2>2. CASE QueryNext
    BY <1>5, <1>6, <1>7, <1>8, <1>9, <1>10, <2>1, <2>2
       DEF QueryNext, BeginPaging, NextPage, Stat, Seek, Read, Answered
  <2>. QED BY <2>1, <2>2 DEF queryVars
<1>12. byUser' \in [Users -> Seq(Ids)]' /\ byState' \in [States -> Seq(Ids)]'
  <2>1. ASSUME NEW S, S \subseteq Ids'
        PROVE  Ascending(S) \in Seq(Ids')
    <3>1. Ids' \subseteq Nat /\ IsFiniteSet(Ids')
      <4>1. Ids' = 1 .. Len(jobs') /\ Len(jobs') \in Nat
        BY <1>11 DEF Ids
      <4>2. 1 \in Int /\ Len(jobs') \in Int
        BY <4>1
      <4>3. IsFiniteSet(1 .. Len(jobs'))
        BY ONLY <4>2, FS_Interval
      <4>. QED BY <4>1, <4>3
    <3>2. S \subseteq Nat /\ IsFiniteSet(S)
      BY <2>1, <3>1, FS_Subset
    <3>3. Ascending(S) \in Seq(S)
      BY <3>2, AscendingIs
    <3>. QED BY ONLY <2>1, <3>3, SeqMonotonic
  <2>2. \A u : Ascending({j \in Ids : jobs[j].user = u}') \in Seq(Ids')
    BY <2>1
  <2>3. \A s : Ascending({j \in Ids : jobs[j].state = s}') \in Seq(Ids')
    BY <2>1
  <2>4. /\ byUser' = [u \in Users |-> Ascending({j \in Ids : jobs[j].user = u}')]
        /\ byState' = [s \in States |-> Ascending({j \in Ids : jobs[j].state = s}')]
    BY <1>11 DEF IndexesSound
  <2>. QED BY ONLY <2>2, <2>3, <2>4, Zenon
<1>. QED BY <1>1, <1>11, <1>12

(***************************************************************************)
(* The listing.                                                            *)
(***************************************************************************)

(* The states are finitely many.  *)
LEMMA FewStates == IsFiniteSet(States)
<1>1. \A S, x : IsFiniteSet(S) => IsFiniteSet(S \cup {x})
  BY FS_AddElement
<1>2. IsFiniteSet({})
  BY FS_EmptySet
<1>3. IsFiniteSet((((((({} \cup {"Queued"}) \cup {"Hold"}) \cup {"Running"}) \cup {"Finished"})
                    \cup {"Failed"}) \cup {"Cancelled"}) \cup {"Timeout"})
  BY ONLY <1>1, <1>2, Zenon
<1>4. States = (((((({} \cup {"Queued"}) \cup {"Hold"}) \cup {"Running"}) \cup {"Finished"})
                    \cup {"Failed"}) \cup {"Cancelled"}) \cup {"Timeout"}
  BY DEF States
<1>. QED BY ONLY <1>3, <1>4, Zenon

(* The merged index of some keys has the jobs of each, in order.  *)
LEMMA MergedIs ==
    ASSUME jobs \in Seq(Job), NEW K, NEW index, NEW Of, Of \in [K -> SUBSET Ids],
           index = [k \in K |-> Ascending(Of[k])],
           NEW keys, keys \subseteq K, keys # {}, IsFiniteSet(keys)
    PROVE  Merged(index, keys) = Ascending(UNION {Of[k] : k \in keys})
<1>1. CASE Cardinality(keys) = 1
  <2>1. PICK k : keys = {k}
    BY <1>1, FS_Singleton
  <2>2. Merged(index, keys) = index[k]
    BY <1>1, <2>1 DEF Merged
  <2>3. UNION {Of[x] : x \in keys} = Of[k]
    BY <2>1
  <2>. QED BY <2>1, <2>2, <2>3
<1>2. CASE Cardinality(keys) # 1
  <2>1. \A k \in keys : ToSet(index[k]) = Of[k]
    <3> TAKE k \in keys
    <3>1. Of[k] \subseteq Nat /\ IsFiniteSet(Of[k])
      BY IdsAre
    <3>2. ToSet(Ascending(Of[k])) = Of[k]
      BY <3>1, AscendingIs
    <3>. QED BY <3>2
  <2>2. UNION {ToSet(index[k]) : k \in keys} = UNION {Of[k] : k \in keys}
    BY ONLY <2>1, Zenon
  <2>3. Merged(index, keys) = Ascending(UNION {ToSet(index[k]) : k \in keys})
    BY <1>2 DEF Merged
  <2>. QED BY <2>2, <2>3
<1>. QED BY <1>1, <1>2

(* Whichever index they come from, every job that matches is a candidate.  *)
LEMMA CandidatesAre ==
    ASSUME jobs \in Seq(Job), IndexesSound, NEW q \in Query
    PROVE  \E C \in SUBSET Ids : Candidates(q) = Ascending(C) /\ Matching(q) \subseteq C
<1>1. q.users \subseteq Users /\ q.states \subseteq States
  BY DEF Query
<1>2. CASE q.users = {} /\ q.states = {}
  <2>1. Candidates(q) = Ascending(Ids)
    BY <1>2, IdsAre, CountingRises DEF Candidates
  <2>. QED BY <2>1 DEF Matching
<1>3. CASE Candidates(q) = Merged(byUser, q.users) /\ q.users # {}
  <2> DEFINE Of == [u \in Users |-> {j \in Ids : jobs[j].user = u}]
             C == UNION {Of[u] : u \in q.users}
  <2>1. Of \in [Users -> SUBSET Ids] /\ byUser = [u \in Users |-> Ascending(Of[u])]
    BY DEF IndexesSound
  <2>2. IsFiniteSet(q.users)
    BY <1>1, QueriesAssumption, FS_Subset
  <2>3. C \in SUBSET Ids
    BY <1>1
  <2>4. Matching(q) \subseteq C
    BY <1>1, <1>3 DEF Matching, Matches
  <2> HIDE DEF Of
  <2>5. Merged(byUser, q.users) = Ascending(C)
    BY <1>1, <1>3, <2>1, <2>2, MergedIs
  <2>. QED BY <1>3, <2>3, <2>4, <2>5
<1>4. CASE Candidates(q) = Merged(byState, q.states) /\ q.states # {}
  <2> DEFINE Of == [s \in States |-> {j \in Ids : jobs[j].state = s}]
             C == UNION {Of[s] : s \in q.states}
  <2>1. Of \in [States -> SUBSET Ids] /\ byState = [s \in States |-> Ascending(Of[s])]
    BY DEF IndexesSound
  <2>2. IsFiniteSet(q.states)
    BY <1>1, FewStates, FS_Subset
  <2>3. C \in SUBSET Ids
    BY <1>1
  <2>4. Matching(q) \subseteq C
    BY <1>1, <1>4 DEF Matching, Matches
  <2> HIDE DEF Of
  <2>5. Merged(byState, q.states) = Ascending(C)
    BY <1>1, <1>4, <2>1, <2>2, MergedIs
  <2>. QED BY <1>4, <2>3, <2>4, <2>5
<1>. QED BY <1>2, <1>3, <1>4 DEF Candidates

(* A listing is what matches, in order, from whichever index it came.  *)
LEMMA ListingIs ==
    ASSUME jobs \in Seq(Job), IndexesSound, NEW q \in Query
    PROVE  /\ Listing(q, "asc") = Ascending(Matching(q))
           /\ Listing(q, "desc") = Reverse(Ascending(Matching(q)))
           /\ Matching(q) \subseteq Ids /\ Matching(q) \subseteq Nat /\ IsFiniteSet(Matching(q))
<1>1. PICK C \in SUBSET Ids : Candidates(q) = Ascending(C) /\ Matching(q) \subseteq C
  BY CandidatesAre
<1>2. Matching(q) \subseteq Ids /\ Matching(q) \subseteq Nat /\ IsFiniteSet(Matching(q))
  BY IdsAre DEF Matching
<1>3. C \subseteq Nat /\ IsFiniteSet(C)
  BY IdsAre
<1>4. Rising(Ascending(C)) /\ ToSet(Ascending(C)) = C
  BY <1>3, AscendingIs
<1>5. Selected(Candidates(q), Matching(q)) = Ascending(Matching(q))
  <2> DEFINE a == Ascending(C)
             M == Matching(q)
  <2>1. C \cap M = M
    BY <1>1
  <2> HIDE DEF a, M
  <2>2. Selected(a, M) = Ascending(ToSet(a) \cap M)
    BY <1>4, SelectedRises DEF a
  <2>. QED BY <1>1, <1>4, <2>1, <2>2 DEF a, M
<1>. QED BY <1>2, <1>5 DEF Listing

(* A list of jobs has as many places of some of them as there are such jobs, and they ask
   for as many GPUs.  *)
NoTwice(s) == s \in Seq(Nat) /\ (\A i, k \in DOMAIN s : s[i] = s[k] => i = k)
PlacesOf(s, T) == {i \in DOMAIN s : s[i] \in T}
LEMMA PlacesAreAsMany ==
    ASSUME jobs \in Seq(Job), Allowed.gpus \in Nat,
           NEW s, NoTwice(s), NEW T, T \subseteq ToSet(s), T \subseteq Ids
    PROVE  /\ Cardinality(PlacesOf(s, T)) = Cardinality(T)
           /\ IsFiniteSet(T) /\ Cardinality(T) \in Nat
           /\ Cardinality(Asking(s, PlacesOf(s, T))) = Cardinality(Asking([j \in Ids |-> j], T))
           /\ Cardinality(Asking(s, PlacesOf(s, T))) \in Nat
<1> DEFINE P == PlacesOf(s, T)
           m == Allowed.gpus
<1>0. /\ s \in Seq(Nat) /\ (\A i, k \in DOMAIN s : s[i] = s[k] => i = k)
      /\ P = {i \in DOMAIN s : s[i] \in T} /\ m \in Nat
  BY DEF NoTwice, PlacesOf
<1> HIDE DEF P
<1> DEFINE A == Asking(s, P)
           B == Asking([j \in Ids |-> j], T)
           f == [a \in A |-> <<s[a[1]], a[2]>>]
<1>1. IsFiniteSet(P) /\ IsFiniteSet(T) /\ Cardinality(P) = Cardinality(T)
  BY <1>0, PositionsAreAsMany
<1>2. A = {a \in P \X (1 .. m) : a[2] <= jobs[s[a[1]]].gpus}
  BY DEF Asking
<1>3. B = {b \in T \X (1 .. m) : b[2] <= jobs[b[1]].gpus}
  <2>1. \A b \in T \X (1 .. m) : [j \in Ids |-> j][b[1]] = b[1]
    OBVIOUS
  <2>. QED BY <2>1 DEF Asking
<1>4. \A i \in P : i \in DOMAIN s /\ s[i] \in T
  BY <1>0
<1>5. \A x \in T : \E i \in P : s[i] = x
  BY <1>0 DEF ToSet
<1>6. \A i, k \in P : s[i] = s[k] => i = k
  BY <1>0
<1> HIDE DEF A, B
<1>7. IsFiniteSet(P \X (1 .. m))
  <2>1. IsFiniteSet(1 .. m)
    BY <1>0, FS_Interval
  <2>. QED BY <1>1, <2>1, FS_Product
<1>8. IsFiniteSet(A)
  BY <1>2, <1>7, FS_Subset
<1>9. f \in [A -> B]
  BY <1>2, <1>3, <1>4
<1>10. \A a, c \in A : f[a] = f[c] => a = c
  <2> TAKE a, c \in A
  <2> HAVE f[a] = f[c]
  <2>1. f[a] = <<s[a[1]], a[2]>> /\ f[c] = <<s[c[1]], c[2]>>
    OBVIOUS
  <2>2. a \in P \X (1 .. m) /\ c \in P \X (1 .. m)
    BY <1>2
  <2>3. s[a[1]] = s[c[1]] /\ a[2] = c[2]
    BY ONLY <2>1, f[a] = f[c]
  <2>. QED BY ONLY <1>6, <2>2, <2>3
<1>11. \A b \in B : \E a \in A : f[a] = b
  <2> TAKE b \in B
  <2>1. b \in T \X (1 .. m) /\ b[2] <= jobs[b[1]].gpus
    BY <1>3
  <2>2. PICK i \in P : s[i] = b[1]
    BY <1>5, <2>1
  <2>3. <<i, b[2]>> \in A
    BY <1>2, <2>1, <2>2
  <2>4. f[<<i, b[2]>>] = <<s[i], b[2]>>
    BY <2>3
  <2>5. b = <<b[1], b[2]>>
    BY <2>1
  <2>. QED BY <2>2, <2>3, <2>4, <2>5
<1>12. DOMAIN f = A
  OBVIOUS
<1> HIDE DEF f
<1>13. f \in Bijection(A, B)
  BY <1>9, <1>10, <1>11, <1>12 DEF Bijection, Injection, Surjection, IsInjective
<1>14. Cardinality(A) = Cardinality(B)
  BY ONLY <1>8, <1>13, FS_Bijection DEF ExistsBijection
<1>15. Cardinality(A) \in Nat /\ Cardinality(T) \in Nat
  BY ONLY <1>1, <1>8, FS_CardinalityType
<1>. QED BY <1>1, <1>14, <1>15 DEF A, B, P

(* What rises has nothing twice.  *)
LEMMA RisingHasNoTwice ==
    ASSUME NEW s, Rising(s)
    PROVE  NoTwice(s)
<1>1. s \in Seq(Nat)
  BY DEF Rising
<1>2. \A i, k \in DOMAIN s : i < k => s[i] < s[k]
  BY DEF Rising
<1>3. ASSUME NEW i \in DOMAIN s
      PROVE  i \in Nat /\ s[i] \in Nat
  BY <1>1
<1>4. ASSUME NEW i \in DOMAIN s, NEW k \in DOMAIN s, s[i] = s[k]
      PROVE  i = k
  BY ONLY <1>2, <1>3, <1>4
<1>. QED BY <1>1, <1>4 DEF NoTwice

(* The listing that the queue summary counts.  *)
Summarised == Listing([Everything EXCEPT !.states = Active], "asc")

(* It has the active jobs of every user, each once.  *)
JobsOf(U, S) == {j \in Ids : jobs[j].user \in U /\ jobs[j].state \in S}
LEMMA PlacesAre ==
    ASSUME jobs \in Seq(Job), IndexesSound, Allowed.gpus \in Nat,
           NEW U, NEW S, S \subseteq Active
    PROVE  /\ Cardinality(Places(Summarised, U, S)) = Recount(U, S)
           /\ IsFiniteSet(JobsOf(U, S)) /\ Recount(U, S) = Cardinality(JobsOf(U, S))
           /\ Recount(U, S) \in Nat
           /\ Cardinality(Asking(Summarised, Places(Summarised, U, S)))
                = Cardinality(Asking([j \in Ids |-> j], JobsOf(U, S)))
           /\ Cardinality(Asking(Summarised, Places(Summarised, U, S))) \in Nat
<1> DEFINE T == JobsOf(U, S)
<1> DEFINE q == [Everything EXCEPT !.states = Active]
<1>1. q \in Query /\ q.users = {} /\ q.states = Active /\ q.after = 0
  BY DEF Query, Everything, Active, States
<1>2. Matching(q) = {j \in Ids : jobs[j].state \in Active}
  <2>1. \A j \in Ids : j > 0
    BY IdsAre
  <2>. QED BY <1>1, <2>1 DEF Matching, Matches, Active
<1>0. Summarised = Listing(q, "asc")
  BY DEF Summarised
<1> DEFINE list == Summarised
<1> HIDE DEF q, list
<1>3. Rising(list) /\ ToSet(list) = Matching(q)
  BY <1>0, <1>1, ListingIs, AscendingIs DEF list
<1>4. NoTwice(list)
  BY ONLY <1>3, RisingHasNoTwice
<1>5. T \subseteq ToSet(list) /\ T \subseteq Ids
  BY <1>2, <1>3 DEF JobsOf
<1>6. Places(list, U, S) = {i \in DOMAIN list : list[i] \in T}
  <2>1. \A i \in DOMAIN list : list[i] \in Ids
    BY <1>2, <1>3 DEF ToSet
  <2>. QED BY <2>1 DEF Places, JobsOf
<1>7. Recount(U, S) = Cardinality(T)
  BY DEF Recount, JobsOf
<1> DEFINE P == Places(list, U, S)
<1> HIDE DEF P, T
<1>8. /\ Cardinality(P) = Cardinality(T)
      /\ IsFiniteSet(T) /\ Cardinality(T) \in Nat
      /\ Cardinality(Asking(list, P)) = Cardinality(Asking([j \in Ids |-> j], T))
      /\ Cardinality(Asking(list, P)) \in Nat
  <2>1. P = PlacesOf(list, T)
    BY <1>6 DEF P, PlacesOf
  <2>2. NoTwice(list)
    BY <1>4
  <2>3. Allowed.gpus \in Nat /\ jobs \in Seq(Job)
    OBVIOUS
  <2>. QED BY ONLY <1>5, <2>1, <2>2, <2>3, PlacesAreAsMany
<1>9. Recount(U, S) \in Nat
  BY ONLY <1>7, <1>8
<1>10. Cardinality(P) = Recount(U, S)
  BY ONLY <1>7, <1>8
<1>11. P = Places(Summarised, U, S) /\ T = JobsOf(U, S) /\ list = Summarised
  BY DEF P, T, list
<1>. QED BY ONLY <1>7, <1>8, <1>9, <1>10, <1>11

(* The queue summary, which counts a listing, counts what gstats counts in the table, and
   shows the users that ask for the most GPUs.  *)
LEMMA SummaryIs ==
    ASSUME setup \in DOMAIN Setups, jobs \in Seq(Job), IndexesSound
    PROVE  SummaryExact
<1> DEFINE list == Summarised
           some == {u \in Users : Places(list, {u}, Active) # {}}
           groups == [u \in some |-> Group(list, u)]
           ahead(u) == {v \in some : Ahead(groups, v, u)}
           first == {u \in some : Cardinality(ahead(u)) < Allowed.groups}
           m == Allowed.gpus
<1>1. m \in Nat /\ Allowed.groups \in Nat /\ IsFiniteSet(Users)
  BY QueriesAssumption DEF Allowed, Setup
<1>2. /\ Pressure.queued = Cardinality(Places(list, Users, {"Queued"}))
      /\ Pressure.held = Cardinality(Places(list, Users, {"Hold"}))
      /\ Pressure.running = Cardinality(Places(list, Users, {"Running"}))
      /\ Pressure.users = FirstGroups(groups)
  BY DEF Pressure, Summarised
<1>3. FirstGroups(groups) = [u \in first |-> groups[u]]
  BY DEF FirstGroups
<1>4. /\ Pending \subseteq Active /\ Active \subseteq Active /\ {"Queued"} \subseteq Active
      /\ {"Hold"} \subseteq Active /\ {"Running"} \subseteq Active
  BY DEF Active, Pending
<1>5. \A U : /\ Stats(U)["Queued"] = Recount(U, {"Queued"})
             /\ Stats(U)["Running"] = Recount(U, {"Running"})
  BY DEF Stats, States
<1> HIDE DEF list, m
<1>6. ASSUME NEW U, NEW S, S \subseteq Active
      PROVE  /\ Cardinality(Places(list, U, S)) = Recount(U, S)
             /\ IsFiniteSet(JobsOf(U, S)) /\ Recount(U, S) = Cardinality(JobsOf(U, S))
             /\ Recount(U, S) \in Nat
             /\ Cardinality(Asking(list, Places(list, U, S)))
                  = Cardinality(Asking([j \in Ids |-> j], JobsOf(U, S)))
             /\ Cardinality(Asking(list, Places(list, U, S))) \in Nat
  <2>1. Allowed.gpus \in Nat
    BY <1>1 DEF m
  <2>. QED BY <1>6, <2>1, PlacesAre DEF list
<1>7. ASSUME NEW u \in Users
      PROVE  Cardinality(Asking(list, Places(list, {u}, Pending))) = Cardinality(Wanted(u))
  <2>1. JobsOf({u}, Pending) = {j \in Ids : jobs[j].user = u /\ jobs[j].state \in Pending}
    BY DEF JobsOf
  <2>2. Wanted(u) = Asking([j \in Ids |-> j], JobsOf({u}, Pending))
    BY <2>1 DEF Wanted
  <2>. QED BY <1>4, <1>6, <2>2
<1>8. ASSUME NEW u \in Users
      PROVE  Recount({u}, Pending) = Recount({u}, {"Queued"}) + Recount({u}, {"Hold"})
  <2> DEFINE A == JobsOf({u}, {"Queued"})
             B == JobsOf({u}, {"Hold"})
             C == JobsOf({u}, Pending)
  <2>0. A \cap B = {}
    BY DEF JobsOf
  <2>1. C = A \cup B
    BY DEF Pending, JobsOf
  <2>2. /\ IsFiniteSet(A) /\ IsFiniteSet(B)
        /\ Recount({u}, {"Queued"}) = Cardinality(A) /\ Cardinality(A) \in Nat
        /\ Recount({u}, {"Hold"}) = Cardinality(B) /\ Cardinality(B) \in Nat
        /\ Recount({u}, Pending) = Cardinality(C)
    BY <1>4, <1>6
  <2> HIDE DEF A, B, C
  <2>3. Cardinality(A \cup B) = Cardinality(A) + Cardinality(B) - Cardinality(A \cap B)
    BY ONLY <2>2, FS_Union
  <2>4. Cardinality(A \cap B) = 0
    BY ONLY <2>0, FS_EmptySet, Zenon
  <2>. QED BY ONLY <2>1, <2>2, <2>3, <2>4
<1>9. \A u \in some : groups[u] = Group(list, u) /\ u \in Users
  OBVIOUS
<1>10. \A u : /\ Group(list, u).queued = Cardinality(Places(list, {u}, Pending))
              /\ Group(list, u).running = Cardinality(Places(list, {u}, {"Running"}))
              /\ Group(list, u).gpus = Cardinality(Asking(list, Places(list, {u}, Pending)))
  BY DEF Group
<1> HIDE DEF groups
<1>11. IsFiniteSet(some) /\ \A u : IsFiniteSet(ahead(u)) /\ Cardinality(ahead(u)) \in Nat
  <2>1. IsFiniteSet(some)
    BY <1>1, FS_Subset
  <2>2. \A u : ahead(u) \subseteq some
    OBVIOUS
  <2> HIDE DEF some, ahead
  <2>. QED BY ONLY <2>1, <2>2, FS_Subset, FS_CardinalityType
<1>12. first \subseteq some
  OBVIOUS
<1>13. \A u \in some : groups[u].gpus = Cardinality(Wanted(u)) /\ groups[u].gpus \in Nat
  <2> TAKE u \in some
  <2>1. Cardinality(Asking(list, Places(list, {u}, Pending))) \in Nat
    BY <1>4, <1>6
  <2>. QED BY <1>7, <1>9, <1>10, <2>1
<1>14. ASSUME NEW u \in first, NEW v \in Users \ first
       PROVE  Cardinality(Wanted(v)) <= groups[u].gpus
  <2>1. CASE v \notin some
    <3>1. Places(list, {v}, Pending) = {}
      BY <1>4, <2>1 DEF Places
    <3>2. Asking(list, Places(list, {v}, Pending)) = {}
      BY <3>1 DEF Asking
    <3>3. Cardinality(Wanted(v)) = 0
      BY <1>7, <3>2, FS_EmptySet
    <3>4. groups[u].gpus \in Nat
      BY <1>12, <1>13
    <3>. QED BY ONLY <3>3, <3>4
  <2>2. CASE v \in some
    <3>1. ~(Cardinality(ahead(v)) < Allowed.groups) /\ Cardinality(ahead(u)) < Allowed.groups
      BY <2>2
    <3>2. ASSUME groups[v].gpus > groups[u].gpus
          PROVE  FALSE
      <4>1. \A x \in some : groups[x].gpus \in Nat
        BY <1>13
      <4>2. ahead(v) \subseteq ahead(u)
        <5>1. ASSUME NEW x \in some, Ahead(groups, x, v)
              PROVE  Ahead(groups, x, u)
          <6>1. groups[x].gpus >= groups[v].gpus
            BY <4>1, <2>2, <5>1 DEF Ahead
          <6>2. groups[x].gpus > groups[u].gpus
            BY ONLY <6>1, <3>2, <4>1, <2>2, <1>12, u \in first, x \in some
          <6>. QED BY ONLY <6>2 DEF Ahead
        <5>. QED BY <5>1
      <4> HIDE DEF ahead, some, first, groups
      <4>3. Cardinality(ahead(v)) <= Cardinality(ahead(u))
        BY ONLY <1>11, <4>2, FS_Subset
      <4>. QED BY ONLY <1>1, <1>11, <3>1, <4>3
    <3>3. groups[v].gpus = Cardinality(Wanted(v)) /\ groups[v].gpus \in Nat /\ groups[u].gpus \in Nat
      BY <1>12, <1>13, <2>2
    <3>. QED BY ONLY <3>2, <3>3
  <2>. QED BY <2>1, <2>2
<1>15. ASSUME NEW u \in first
       PROVE  /\ groups[u].queued = Stats({u})["Queued"] + Recount({u}, {"Hold"})
              /\ groups[u].running = Stats({u})["Running"]
  <2>1. u \in some /\ u \in Users
    BY <1>12, <1>15
  <2>2. /\ groups[u].queued = Cardinality(Places(list, {u}, Pending))
        /\ groups[u].running = Cardinality(Places(list, {u}, {"Running"}))
    BY ONLY <1>9, <1>10, <2>1
  <2>3. groups[u].queued = Recount({u}, Pending) /\ groups[u].running = Recount({u}, {"Running"})
    BY ONLY <1>4, <1>6, <2>2
  <2>. QED BY <1>5, <1>8, <2>1, <2>3
<1>16. /\ Pressure.queued = Stats(Users)["Queued"]
       /\ Pressure.running = Stats(Users)["Running"]
       /\ Pressure.held = Recount(Users, {"Hold"})
  BY <1>2, <1>4, <1>5, <1>6
<1>17. DOMAIN Pressure.users = first /\ \A u \in first : Pressure.users[u] = groups[u]
  BY <1>2, <1>3
<1> HIDE DEF first
<1>. QED BY <1>14, <1>15, <1>16, <1>17 DEF SummaryExact

(***************************************************************************)
(* Pages of the listing.                                                   *)
(***************************************************************************)

(* The listing that is paged through is in the order that was asked for.  *)
LEMMA ViewIsInOrder ==
    ASSUME jobs \in Seq(Job), IndexesSound, NEW view \in {"active", "waiting", "all"},
           NEW order \in {"asc", "desc"}
    PROVE  LET list == Listing(View(view), order)
           IN  /\ list \in Seq(Nat) /\ ToSet(list) = Matching(View(view))
               /\ InOrder(order, list)
<1> DEFINE q == View(view)
           a == Ascending(Matching(q))
           r == Reverse(a)
<1>1. q \in Query
  BY DEF View, Query, Everything, Active, States
<1> HIDE DEF q
<1>2. /\ Listing(q, "asc") = a /\ Listing(q, "desc") = r
      /\ Rising(a) /\ ToSet(a) = Matching(q)
  BY <1>1, ListingIs, AscendingIs
<1> HIDE DEF a
<1>3. /\ a \in Seq(Nat) /\ Len(a) \in Nat /\ DOMAIN a = 1 .. Len(a)
      /\ \A i, k \in DOMAIN a : i < k => a[i] < a[k]
      /\ \A i \in DOMAIN a : a[i] \in Nat
  BY <1>2 DEF Rising
<1>4. CASE order = "asc"
  <2>1. InOrder(order, a)
    BY <1>3, <1>4 DEF InOrder, Before
  <2>. QED BY <1>2, <1>3, <1>4, <2>1 DEF q
<1>5. CASE order = "desc"
  <2>1. r = [i \in 1 .. Len(a) |-> a[(Len(a) - i) + 1]]
    BY DEF Reverse
  <2>2. \A i \in 1 .. Len(a) : (Len(a) - i) + 1 \in DOMAIN a
    BY <1>3
  <2>3. /\ r \in Seq(Nat) /\ DOMAIN r = 1 .. Len(a)
        /\ \A i \in 1 .. Len(a) : r[i] = a[(Len(a) - i) + 1]
    <3> HIDE DEF r
    <3>. QED BY <1>3, <2>1, <2>2
  <2> HIDE DEF r
  <2>4. ToSet(r) = ToSet(a)
    <3>1. \A i \in DOMAIN r : r[i] \in ToSet(a)
      BY <2>2, <2>3 DEF ToSet
    <3>2. \A x \in ToSet(a) : \E i \in DOMAIN r : r[i] = x
      <4> TAKE x \in ToSet(a)
      <4>0. PICK k \in DOMAIN a : a[k] = x
        BY DEF ToSet
      <4>1. (Len(a) - k) + 1 \in 1 .. Len(a) /\ (Len(a) - ((Len(a) - k) + 1)) + 1 = k
        BY <1>3
      <4>. QED BY <2>3, <4>0, <4>1
    <3>. QED BY ONLY <3>1, <3>2, Zenon DEF ToSet
  <2>5. ASSUME NEW i \in DOMAIN r, NEW k \in DOMAIN r, i < k
        PROVE  r[i] > r[k]
    <3>1. (Len(a) - k) + 1 < (Len(a) - i) + 1
      BY <1>3, <2>3, <2>5
    <3>2. r[k] < r[i] /\ r[k] \in Nat /\ r[i] \in Nat
      BY <1>3, <2>2, <2>3, <3>1
    <3>. QED BY <3>2
  <2>6. InOrder(order, r)
    BY <1>5, <2>5 DEF InOrder, Before
  <2>. QED BY <1>2, <1>5, <2>3, <2>4, <2>6 DEF q
<1>. QED BY <1>4, <1>5

(* Before is an order of the numbers.  *)
LEMMA BeforeIs ==
    ASSUME NEW order
    PROVE  /\ \A x, y \in Nat : x = y \/ Before(order, x, y) \/ Before(order, y, x)
           /\ \A x, y \in Nat : Before(order, x, y) => x # y /\ ~Before(order, y, x)
           /\ \A x, y, z \in Nat : Before(order, x, y) /\ Before(order, y, z) => Before(order, x, z)
BY DEF Before

(* What an agent is past is the beginning of the listing.  *)
LEMMA BehindIsFirst ==
    ASSUME NEW order, NEW list, list \in Seq(Nat), InOrder(order, list), NEW G, G \subseteq Nat
    PROVE  LET b == Cardinality(Behind(order, ToSet(list), G))
           IN  /\ b \in 0 .. Len(list)
               /\ \A i \in DOMAIN list : list[i] \in Behind(order, ToSet(list), G) <=> i <= b
<1> DEFINE B == Behind(order, ToSet(list), G)
           D == {i \in DOMAIN list : list[i] \in B}
<1>1. Len(list) \in Nat /\ DOMAIN list = 1 .. Len(list) /\ \A i \in DOMAIN list : list[i] \in Nat
  OBVIOUS
<1>2. \A i, k \in DOMAIN list : i < k => Before(order, list[i], list[k])
  BY DEF InOrder
<1>3. \A i, k \in DOMAIN list : list[i] = list[k] => i = k
  <2> TAKE i, k \in DOMAIN list
  <2>1. i = k \/ Before(order, list[i], list[k]) \/ Before(order, list[k], list[i])
    BY <1>1, <1>2
  <2>. QED BY <1>1, <2>1, BeforeIs
<1>4. B \subseteq ToSet(list)
  BY DEF Behind
<1>5. \A i \in DOMAIN list :
         list[i] \in B <=> \E p \in G : list[i] = p \/ Before(order, list[i], p)
  BY DEF Behind, ToSet
<1> HIDE DEF B
<1>6. Cardinality(D) = Cardinality(B)
  BY <1>3, <1>4, PositionsAreAsMany
<1>7. D \subseteq 1 .. Len(list) /\ \A i \in D : \A k \in 1 .. i : k \in D
  <2>1. D \subseteq 1 .. Len(list)
    BY <1>1
  <2>2. ASSUME NEW i \in D, NEW k \in 1 .. i
        PROVE  k \in D
    <3>1. PICK p \in G : list[i] = p \/ Before(order, list[i], p)
      BY <1>5
    <3>2. k \in DOMAIN list /\ i \in DOMAIN list /\ (k = i \/ Before(order, list[k], list[i]))
      BY <1>1, <1>2
    <3>3. list[k] \in Nat /\ list[i] \in Nat /\ p \in Nat
      BY <1>1, <3>2
    <3>4. list[k] = p \/ Before(order, list[k], p)
      BY <3>1, <3>2, <3>3, BeforeIs
    <3>. QED BY <1>5, <3>2, <3>4
  <2>. QED BY <2>1, <2>2
<1> HIDE DEF D
<1>8. Cardinality(D) \in 0 .. Len(list) /\ D = 1 .. Cardinality(D)
  BY <1>1, <1>7, InitialIs
<1>9. \A i \in DOMAIN list : list[i] \in B <=> i <= Cardinality(B)
  <2> TAKE i \in DOMAIN list
  <2>1. list[i] \in B <=> i \in D
    BY DEF D
  <2>2. i \in D <=> i <= Cardinality(D)
    BY <1>1, <1>8
  <2>. QED BY <1>6, <2>1, <2>2
<1>. QED BY <1>6, <1>8, <1>9 DEF B

(* A page of a list.  *)
LEMMA PageIs ==
    ASSUME NEW list, list \in Seq(Nat), NEW offset \in Nat, NEW limit \in Nat
    PROVE  LET page == Page(list, offset, limit)
           IN  /\ page \in Seq(Nat) /\ Len(page) <= limit
               /\ Len(page) < limit => offset + Len(page) >= Len(list)
               /\ \A i \in DOMAIN page : /\ page[i] = list[offset + i]
                                         /\ offset + i \in DOMAIN list
<1>1. Len(list) \in Nat
  OBVIOUS
<1>9. \A i : i \in Nat /\ 1 <= i /\ i <= Len(list) => i \in DOMAIN list
  OBVIOUS
<1> DEFINE end == offset + limit
           m == offset + 1
<1>0. m = offset + 1 /\ end = offset + limit /\ m \in Nat /\ m >= 1 /\ end \in Nat
  OBVIOUS
<1>2. \E n \in Nat : n <= Len(list) /\ n <= end /\ (n = Len(list) \/ n = end)
  <2> HIDE DEF end
  <2>1. CASE Len(list) <= end
    BY <1>0, <1>1, <2>1
  <2>2. CASE end <= Len(list)
    BY <1>0, <1>1, <2>2
  <2>. QED BY <1>0, <1>1, <2>1, <2>2
<1>20. PICK n \in Nat : n <= Len(list) /\ n <= end /\ (n = Len(list) \/ n = end)
  BY <1>2
<1>3. Min({Len(list), offset + limit}) = n
  <2> DEFINE S == {Len(list), end}
  <2> HIDE DEF end
  <2>1. n \in S /\ \A y \in S : n <= y
    BY <1>20
  <2>2. \A x, y \in S : x <= y /\ y <= x => x = y
    BY <1>0, <1>1
  <2> HIDE DEF S
  <2>3. Min(S) \in S /\ \A y \in S : Min(S) <= y
    BY <2>1 DEF Min
  <2>4. Min(S) = n
    BY <2>1, <2>2, <2>3
  <2>. QED BY ONLY <2>4 DEF S, end
<1> DEFINE page == SubSeq(list, m, n)
<1>4. Page(list, offset, limit) = page
  BY <1>3 DEF Page
<1> HIDE DEF m, end
<1>5. /\ page \in Seq(Nat) /\ Len(page) = IF m <= n THEN n - m + 1 ELSE 0
      /\ \A i \in 1 .. n - m + 1 : page[i] = list[m + i - 1]
  <2>1. m >= 1 /\ n <= Len(list) /\ m \in Int /\ n \in Int
    BY <1>0, <1>20
  <2>. QED BY <2>1, PartIs
<1> HIDE DEF page
<1>6. DOMAIN page = 1 .. Len(page) /\ Len(page) \in Nat
  BY <1>5
<1>7. Len(page) <= limit /\ (Len(page) < limit => offset + Len(page) >= Len(list))
  BY <1>0, <1>1, <1>20, <1>5
<1>8. ASSUME NEW i \in DOMAIN page
      PROVE  page[i] = list[offset + i] /\ offset + i \in DOMAIN list
  <2>1. i \in 1 .. Len(page) /\ i \in Nat /\ m <= n
    BY <1>5, <1>6
  <2>2. i \in 1 .. n - m + 1 /\ m + i - 1 = offset + i
    BY <1>0, <1>20, <1>5, <2>1
  <2>3. page[i] = list[m + i - 1]
    BY <1>5, <2>2
  <2>4. offset + i \in Nat /\ 1 <= offset + i /\ offset + i <= Len(list)
    BY <1>0, <1>1, <1>20, <2>1, <2>2
  <2>. QED BY ONLY <1>9, <2>2, <2>3, <2>4, Zenon
<1>. QED BY <1>4, <1>5, <1>7, <1>8

(* What the next page adds to what an agent has read.  *)
LEMMA PageStep ==
    ASSUME NEW order, NEW list, list \in Seq(Nat), InOrder(order, list),
           NEW got, got \in Seq(Nat), NEW offset \in Nat, NEW limit \in Nat, NEW all,
           NEW left \in BOOLEAN, NEW joined \in BOOLEAN,
           all \subseteq ToSet(list),
           left \/ /\ offset <= Cardinality(Behind(order, ToSet(list), ToSet(got)))
                   /\ all \cap Behind(order, ToSet(list), ToSet(got)) \subseteq ToSet(got),
           joined \/ /\ Cardinality(Behind(order, ToSet(list), ToSet(got))) <= offset
                     /\ InOrder(order, got)
    PROVE  LET found == Page(list, offset, limit + 1)
               shown == Page(found, 0, limit)
               read  == got \o shown
               passed  == Behind(order, ToSet(list), ToSet(read))
           IN  /\ read \in Seq(Nat) /\ Len(shown) \in Nat
               /\ left \/ /\ offset + Len(shown) <= Cardinality(passed)
                          /\ all \cap passed \subseteq ToSet(read)
               /\ joined \/ /\ Cardinality(passed) <= offset + Len(shown)
                            /\ InOrder(order, read)
               /\ Len(found) <= limit => left \/ all \subseteq ToSet(read)
<1> DEFINE M == ToSet(list)
           G == ToSet(got)
           B == Behind(order, M, G)
           b == Cardinality(B)
           found == Page(list, offset, limit + 1)
           shown == Page(found, 0, limit)
           k == Len(shown)
           read == got \o shown
           R == ToSet(read)
           passed == Behind(order, M, R)
           c == Cardinality(passed)
<1>1. /\ Len(list) \in Nat /\ G \subseteq Nat
      /\ \A i \in DOMAIN list : i \in Nat /\ list[i] \in Nat /\ list[i] \in M
      /\ \A x \in M : \E i \in DOMAIN list : list[i] = x
      /\ \A x \in G : x \in Nat
  BY DEF ToSet
<1>2. \A i, n \in DOMAIN list : i < n => Before(order, list[i], list[n])
  BY DEF InOrder
<1>3. /\ found \in Seq(Nat) /\ Len(found) <= limit + 1
      /\ Len(found) < limit + 1 => offset + Len(found) >= Len(list)
      /\ \A i \in DOMAIN found : found[i] = list[offset + i] /\ offset + i \in DOMAIN list
  <2>1. limit + 1 \in Nat
    OBVIOUS
  <2>. QED BY <2>1, PageIs
<1> HIDE DEF found
<1>4. /\ shown \in Seq(Nat) /\ Len(shown) <= limit
      /\ Len(shown) < limit => 0 + Len(shown) >= Len(found)
      /\ \A i \in DOMAIN shown : shown[i] = found[0 + i] /\ 0 + i \in DOMAIN found
  <2>1. 0 \in Nat
    OBVIOUS
  <2>. QED BY <1>3, <2>1, PageIs
<1> HIDE DEF shown
<1>5. /\ k \in Nat /\ DOMAIN shown = 1 .. k /\ Len(found) \in Nat
      /\ \A i \in DOMAIN shown : i \in Nat /\ 1 <= i /\ i <= k
  <2>1. k \in Nat /\ DOMAIN shown = 1 .. k
    BY <1>4
  <2>2. \A i \in DOMAIN shown : i \in Nat /\ 1 <= i /\ i <= k
    BY <2>1
  <2>3. Len(found) \in Nat
    BY <1>3
  <2>. QED BY <2>1, <2>2, <2>3
<1>6. \A i \in DOMAIN shown : shown[i] = list[offset + i] /\ offset + i \in DOMAIN list
  <2> TAKE i \in DOMAIN shown
  <2>1. 0 + i = i
    BY <1>5
  <2>. QED BY <1>3, <1>4, <2>1
<1>7. Len(found) <= limit => offset + k >= Len(list)
  BY <1>1, <1>3, <1>4, <1>5
<1>8. /\ read \in Seq(Nat) /\ R = G \cup ToSet(shown)
  <2>1. /\ read \in Seq(Nat) /\ Len(read) = Len(got) + Len(shown)
        /\ \A i \in 1 .. Len(got) + Len(shown) :
              read[i] = IF i <= Len(got) THEN got[i] ELSE shown[i - Len(got)]
    BY ONLY <1>4, got \in Seq(Nat), ConcatProperties
  <2> HIDE DEF read
  <2> DEFINE g == Len(got)
  <2>0. g \in Nat /\ DOMAIN got = 1 .. g /\ DOMAIN read = 1 .. g + k
    BY <1>5, <2>1
  <2>2. \A i \in DOMAIN read : read[i] \in ToSet(got) \cup ToSet(shown)
    <3> TAKE i \in DOMAIN read
    <3>1. CASE i <= g
      <4>1. i \in DOMAIN got /\ read[i] = got[i]
        BY <1>5, <2>0, <2>1, <3>1
      <4>. QED BY <4>1 DEF ToSet
    <3>2. CASE ~(i <= g)
      <4>1. i - g \in DOMAIN shown /\ read[i] = shown[i - g]
        BY <1>5, <2>0, <2>1, <3>2
      <4>. QED BY <4>1 DEF ToSet
    <3>. QED BY <3>1, <3>2
  <2>3. \A x \in ToSet(got) : \E i \in DOMAIN read : read[i] = x
    <3> TAKE x \in ToSet(got)
    <3>1. PICK i \in DOMAIN got : got[i] = x
      BY DEF ToSet
    <3>2. i \in 1 .. Len(got) + Len(shown) /\ i \in DOMAIN read /\ i <= Len(got)
      BY <1>4, <2>1
    <3>. QED BY <2>1, <3>1, <3>2
  <2>4. \A x \in ToSet(shown) : \E i \in DOMAIN read : read[i] = x
    <3> TAKE x \in ToSet(shown)
    <3>1. PICK i \in DOMAIN shown : shown[i] = x
      BY DEF ToSet
    <3> DEFINE n == g + i
    <3>2. /\ n \in 1 .. g + k /\ n \in DOMAIN read /\ ~(n <= g) /\ n - g = i
      BY <1>5, <2>0
    <3> HIDE DEF n
    <3>3. read[n] = shown[n - g]
      BY <2>1, <3>2
    <3>. QED BY <3>1, <3>2, <3>3
  <2>5. ToSet(read) = ToSet(got) \cup ToSet(shown)
    BY ONLY <2>2, <2>3, <2>4, Zenon DEF ToSet
  <2>. QED BY <2>1, <2>5
<1>9. R \subseteq Nat
  BY <1>1, <1>4, <1>8 DEF ToSet
<1> HIDE DEF R, read
<1>10. b \in Nat /\ b <= Len(list) /\ \A i \in DOMAIN list : list[i] \in B <=> i <= b
  <2>1. b \in 0 .. Len(list) /\ \A i \in DOMAIN list : list[i] \in B <=> i <= b
    BY <1>1, BehindIsFirst
  <2>. QED BY <1>1, <2>1
<1>11. c \in Nat /\ c <= Len(list) /\ \A i \in DOMAIN list : list[i] \in passed <=> i <= c
  <2>1. c \in 0 .. Len(list) /\ \A i \in DOMAIN list : list[i] \in passed <=> i <= c
    BY <1>9, BehindIsFirst
  <2>. QED BY <1>1, <2>1
<1>12. \A x \in M : x \in passed =>
          \/ x \in B
          \/ \E i \in DOMAIN shown : x = shown[i] \/ Before(order, x, shown[i])
  BY <1>8 DEF Behind, ToSet
<1>13. B \subseteq passed
  BY <1>8 DEF Behind
(* The last that is shown is past.  *)
<1>14. k # 0 => offset + k <= c
  <2> HAVE k # 0
  <2>1. k \in DOMAIN shown
    BY <1>5
  <2>2. shown[k] = list[offset + k] /\ offset + k \in DOMAIN list
    BY <1>6, <2>1
  <2>3. shown[k] \in R
    BY <1>8, <2>1 DEF ToSet
  <2>4. list[offset + k] \in passed
    BY <1>1, <2>2, <2>3 DEF Behind
  <2>. QED BY <1>11, <2>2, <2>4
<1>15. k = 0 => b <= c
  <2> HAVE k = 0
  <2>1. b = 0 \/ b \in DOMAIN list
    BY <1>1, <1>10
  <2>2. CASE b \in DOMAIN list
    <3>1. list[b] \in B
      BY <1>10, <2>2
    <3>. QED BY <1>11, <1>13, <2>2, <3>1
  <2>. QED BY <1>10, <1>11, <2>1, <2>2
(* What is past and was not is shown.  *)
<1>16. ASSUME NEW i \in DOMAIN list, list[i] \in passed, list[i] \notin B
       PROVE  i <= offset + k /\ k # 0
  <2>1. PICK n \in DOMAIN shown : list[i] = shown[n] \/ Before(order, list[i], shown[n])
    BY <1>1, <1>12, <1>16
  <2>2. shown[n] = list[offset + n] /\ offset + n \in DOMAIN list /\ n \in Nat /\ 1 <= n /\ n <= k
    BY <1>5, <1>6
  <2>3. list[i] = list[offset + n] \/ Before(order, list[i], list[offset + n])
    BY <2>1, <2>2
  <2>4. ~(offset + n < i)
    <3> SUFFICES ASSUME offset + n < i PROVE FALSE
      OBVIOUS
    <3>1. Before(order, list[offset + n], list[i])
      <4> DEFINE m == offset + n
      <4>1. m \in DOMAIN list /\ i \in DOMAIN list /\ m < i
        BY <2>2
      <4> HIDE DEF m
      <4>2. Before(order, list[m], list[i])
        BY ONLY <1>2, <4>1, Zenon
      <4>. QED BY <4>2 DEF m
    <3>. QED BY <1>1, <2>2, <2>3, <3>1, BeforeIs
  <2>. QED BY <1>1, <1>5, <2>2, <2>4
<1>17. ASSUME NEW i \in DOMAIN list, offset < i, i <= offset + k
       PROVE  list[i] \in ToSet(shown)
  <2>1. i - offset \in 1 .. k /\ offset + (i - offset) = i
    BY <1>1, <1>5, <1>17
  <2>2. i - offset \in DOMAIN shown
    BY <1>5, <2>1
  <2>. QED BY <1>6, <2>1, <2>2 DEF ToSet
<1>18. left \/ offset + k <= c
  BY <1>5, <1>10, <1>11, <1>14, <1>15
<1>19. left \/ all \cap passed \subseteq R
  <2> SUFFICES ASSUME ~left, NEW x \in all, x \in passed
               PROVE  x \in R
    OBVIOUS
  <2>1. offset <= b /\ all \cap B \subseteq G
    OBVIOUS
  <2>2. CASE x \in B
    BY <1>8, <2>1, <2>2
  <2>3. CASE x \notin B
    <3>1. PICK i \in DOMAIN list : list[i] = x
      BY <1>1
    <3>2. i > b /\ i <= offset + k
      BY <1>1, <1>10, <1>16, <2>3, <3>1
    <3>3. offset < i
      BY <1>1, <1>10, <2>1, <3>2
    <3>. QED BY <1>8, <1>17, <3>1, <3>2, <3>3
  <2>. QED BY <2>2, <2>3
<1>20. Len(found) <= limit => left \/ all \subseteq R
  <2> SUFFICES ASSUME Len(found) <= limit, ~left, NEW x \in all
               PROVE  x \in R
    OBVIOUS
  <2>1. offset <= b /\ all \cap B \subseteq G
    OBVIOUS
  <2>2. CASE x \in B
    BY <1>8, <2>1, <2>2
  <2>3. CASE x \notin B
    <3>1. PICK i \in DOMAIN list : list[i] = x
      BY <1>1
    <3>2. i > b /\ i <= Len(list)
      BY <1>1, <1>10, <2>3, <3>1
    <3>3. offset < i /\ i <= offset + k
      BY <1>1, <1>5, <1>7, <1>10, <2>1, <3>2
    <3>. QED BY <1>8, <1>17, <3>1, <3>3
  <2>. QED BY <2>2, <2>3
<1>21. joined \/ c <= offset + k
  <2> SUFFICES ASSUME ~joined, c > offset + k
               PROVE  FALSE
    BY <1>5, <1>11
  <2>1. b <= offset
    OBVIOUS
  <2>2. c \in DOMAIN list /\ c > b
    BY <1>1, <1>5, <1>10, <1>11, <2>1
  <2>3. list[c] \in passed /\ list[c] \notin B
    BY <1>10, <1>11, <2>2
  <2>. QED BY <1>5, <1>11, <1>16, <2>2, <2>3
<1>22. joined \/ InOrder(order, read)
  <2> SUFFICES ASSUME ~joined
               PROVE  InOrder(order, read)
    OBVIOUS
  <2>1. b <= offset /\ InOrder(order, got)
    OBVIOUS
  <2>2. /\ Len(read) = Len(got) + k /\ Len(got) \in Nat
        /\ \A i \in 1 .. Len(got) + k :
              read[i] = IF i <= Len(got) THEN got[i] ELSE shown[i - Len(got)]
    <3>1. /\ Len(read) = Len(got) + Len(shown)
          /\ \A i \in 1 .. Len(got) + Len(shown) :
                read[i] = IF i <= Len(got) THEN got[i] ELSE shown[i - Len(got)]
      BY ONLY <1>4, got \in Seq(Nat), ConcatProperties DEF read
    <3>. QED BY <3>1
  <2>3. DOMAIN read = 1 .. Len(got) + k
    BY <1>8, <2>2
  <2> SUFFICES ASSUME NEW i \in 1 .. Len(got) + k, NEW n \in 1 .. Len(got) + k, i < n
               PROVE  Before(order, read[i], read[n])
    BY <2>3 DEF InOrder
  <2>4. CASE n <= Len(got)
    <3>1. i \in DOMAIN got /\ n \in DOMAIN got /\ read[i] = got[i] /\ read[n] = got[n]
      BY <1>5, <2>2, <2>4
    <3>. QED BY <2>1, <3>1 DEF InOrder
  <2>5. CASE ~(n <= Len(got))
    <3> DEFINE m == n - Len(got)
    <3>1. m \in DOMAIN shown /\ read[n] = shown[m] /\ m \in Nat /\ 1 <= m
      BY <1>5, <2>2, <2>5
    <3>2. shown[m] = list[offset + m] /\ offset + m \in DOMAIN list
      BY <1>6, <3>1
    <3>3. CASE i <= Len(got)
      <4>1. i \in DOMAIN got /\ read[i] = got[i] /\ got[i] \in G /\ got[i] \in Nat
        BY <1>5, <2>2, <3>3 DEF ToSet
      <4>2. list[offset + m] \notin B
        BY <1>1, <1>10, <2>1, <3>1, <3>2
      <4>3. list[offset + m] # got[i] /\ ~Before(order, list[offset + m], got[i])
        BY <1>1, <3>2, <4>1, <4>2 DEF Behind
      <4>4. Before(order, got[i], list[offset + m])
        BY <1>1, <3>2, <4>1, <4>3, BeforeIs
      <4>. QED BY <3>1, <3>2, <4>1, <4>4
    <3>4. CASE ~(i <= Len(got))
      <4> DEFINE l == i - Len(got)
      <4>1. l \in DOMAIN shown /\ read[i] = shown[l] /\ l \in Nat /\ l < m
        BY <1>5, <2>2, <3>4
      <4>2. shown[l] = list[offset + l] /\ offset + l \in DOMAIN list
        BY <1>6, <4>1
      <4>3. offset + l < offset + m
        BY <3>1, <4>1
      <4>. QED BY <1>2, <3>1, <3>2, <4>1, <4>2, <4>3
    <3>. QED BY <3>3, <3>4
  <2>. QED BY <2>4, <2>5
<1>. QED
  BY <1>5, <1>8, <1>18, <1>19, <1>20, <1>21, <1>22 DEF read, shown, found, R

(* The table changes under an agent that reads: what it is past can only shrink if
   a job left there and only grow if one joined there.  *)
LEMMA DisturbedStep ==
    ASSUME jobs \in Seq(Job), jobs' \in Seq(Job)', PagerSound, Disturbed
    PROVE  PagerSound'
<1>1. CASE pager.op # "paging"
  <2>1. pager' = pager
    BY <1>1 DEF Disturbed
  <2>. QED
    BY <1>1, <2>1 DEF PagerSound, PagerTypeOK, PagingSound, PagesComplete, InOrder, Before, NoPager
<1>2. CASE pager.op = "paging"
  <2> DEFINE order == pager.order
             G == ToSet(pager.got)
             Past(j) == \E p \in G : IF order = "asc" THEN j <= p ELSE j >= p
  <2>1. PagerTypeOK /\ PagingSound /\ (pager.joined \/ InOrder(order, pager.got))
    BY <1>2 DEF PagerSound, NoPager
  <2>2. PICK q : /\ q = View(pager.view)
                 /\ pager' = [pager EXCEPT
                       !.all = @ \cap Matching(q)',
                       !.left = @ \/ \E j \in Matching(q) \ Matching(q)' : Past(j),
                       !.joined = @ \/ \E j \in Matching(q)' \ Matching(q) : Past(j)]
    BY <1>2 DEF Disturbed
  <2> DEFINE old == Matching(q)
             new == Matching(q)'
             was == Behind(order, old, G)
             is == Behind(order, new, G)
  <2>3. /\ IsFiniteSet(old) /\ IsFiniteSet(new) /\ old \subseteq Nat /\ new \subseteq Nat
        /\ G \subseteq Nat
    <3>1. old \subseteq Ids /\ new \subseteq Ids'
      BY DEF Matching
    <3>2. Ids' \subseteq Nat /\ IsFiniteSet(Ids')
      <4>1. Ids' = 1 .. Len(jobs') /\ Len(jobs') \in Nat
        BY DEF Ids
      <4>2. 1 \in Int /\ Len(jobs') \in Int
        BY <4>1
      <4>3. IsFiniteSet(1 .. Len(jobs'))
        BY ONLY <4>2, FS_Interval
      <4>. QED BY <4>1, <4>3
    <3>3. Ids \subseteq Nat /\ IsFiniteSet(Ids)
      BY IdsAre
    <3>4. IsFiniteSet(old) /\ old \subseteq Nat
      BY <3>1, <3>3, FS_Subset
    <3>5. IsFiniteSet(new) /\ new \subseteq Nat
      BY <3>1, <3>2, FS_Subset
    <3>6. G \subseteq Nat
      BY <2>1 DEF PagerTypeOK, ToSet
    <3>. QED BY <3>4, <3>5, <3>6
  <2>4. \A j \in Nat : Past(j) <=> \E p \in G : j = p \/ Before(order, j, p)
    BY <2>3 DEF Before
  <2>5. View(pager.view)' = q /\ pager'.order = order /\ pager'.got = pager.got
        /\ pager'.op = "paging" /\ pager'.offset = pager.offset /\ pager'.view = pager.view
    BY <1>2, <2>1, <2>2 DEF PagerTypeOK, View, Everything, Active
  <2>6. /\ pager'.all = pager.all \cap new
        /\ pager'.left = (pager.left \/ \E j \in old \ new : Past(j))
        /\ pager'.joined = (pager.joined \/ \E j \in new \ old : Past(j))
    BY <2>1, <2>2 DEF PagerTypeOK
  <2>7. BehindPager = was /\ BehindPager' = is
    BY <2>2, <2>5 DEF BehindPager, Behind, Before, ToSet
  <2>8. \A j \in Nat : /\ j \in was <=> j \in old /\ Past(j)
                       /\ j \in is <=> j \in new /\ Past(j)
    BY <2>4 DEF Behind
  <2>9. /\ IsFiniteSet(was) /\ IsFiniteSet(is) /\ was \subseteq old /\ is \subseteq new
        /\ Cardinality(was) \in Nat /\ Cardinality(is) \in Nat
    <3>1. was \subseteq old /\ is \subseteq new
      BY DEF Behind
    <3> HIDE DEF was, is, old, new
    <3>2. IsFiniteSet(was) /\ IsFiniteSet(is)
      BY <2>3, <3>1, FS_Subset
    <3>. QED BY <3>1, <3>2, FS_CardinalityType
  <2> HIDE DEF Past, was, is, old, new
  <2>10. ~pager'.left => ~pager.left /\ was \subseteq is
    BY <2>3, <2>6, <2>8, <2>9
  <2>11. ~pager'.joined => ~pager.joined /\ is \subseteq was
    BY <2>3, <2>6, <2>8, <2>9
  <2>12. /\ was \subseteq is => Cardinality(was) <= Cardinality(is)
         /\ is \subseteq was => Cardinality(is) <= Cardinality(was)
    BY <2>9, FS_Subset
  <2>13. pager.offset \in Nat
    BY <2>1 DEF PagerTypeOK
  <2>14. /\ pager.all \subseteq old
         /\ pager.left \/ (pager.offset <= Cardinality(was) /\ pager.all \cap was \subseteq G)
         /\ pager.joined \/ Cardinality(was) <= pager.offset
    BY <1>2, <2>1, <2>2, <2>7 DEF PagingSound, old
  <2>15. pager'.all \subseteq new /\ pager'.all \subseteq pager.all
    BY <2>6
  <2>16. pager'.left \/ (pager.offset <= Cardinality(is) /\ pager'.all \cap is \subseteq G)
    <3> SUFFICES ASSUME ~pager'.left
                 PROVE  pager.offset <= Cardinality(is) /\ pager'.all \cap is \subseteq G
      OBVIOUS
    <3>1. pager.offset <= Cardinality(is)
      BY <2>9, <2>10, <2>12, <2>13, <2>14
    <3>2. pager'.all \cap is \subseteq was
      <4>1. \A j \in pager'.all : j \in old /\ j \in Nat
        BY <2>3, <2>14, <2>15
      <4>. QED BY <2>8, <4>1
    <3>3. pager'.all \cap is \subseteq G
      BY <2>10, <2>14, <2>15, <3>2
    <3>. QED BY <3>1, <3>3
  <2>17. pager'.joined \/ Cardinality(is) <= pager.offset
    BY <2>9, <2>11, <2>12, <2>13, <2>14
  <2>18. PagingSound'
    BY <2>5, <2>7, <2>15, <2>16, <2>17 DEF PagingSound, new
  <2>19. PagerTypeOK'
    BY <2>1, <2>2, <2>3 DEF PagerTypeOK, old, new
  <2>20. pager'.joined \/ InOrder(pager'.order, pager'.got)
    BY <2>1, <2>5, <2>11
  <2>21. PagesComplete'
    BY <2>5 DEF PagesComplete
  <2>. QED BY <2>18, <2>19, <2>20, <2>21 DEF PagerSound, InOrder, Before
<1>. QED BY <1>1, <1>2

(* An agent begins: it is past nothing.  *)
LEMMA BeginPagingStep ==
    ASSUME setup \in DOMAIN Setups, jobs \in Seq(Job), NEW view \in Allowed.views,
           NEW order \in {"asc", "desc"}, BeginPaging(view, order)
    PROVE  PagerSound'
<1> DEFINE M == Matching(View(view))
<1>1. view \in {"active", "waiting", "all"}
  BY BoundsAre
<1>2. /\ pager' = [op |-> "paging", view |-> view, order |-> order, offset |-> 0,
                   got |-> <<>>, left |-> FALSE, joined |-> FALSE, all |-> M]
      /\ Matching(View(view))' = M
  BY DEF BeginPaging, table, Matching, Matches, View, Everything, Active, Ids
<1>3. M \subseteq Nat
  BY IdsAre DEF Matching
<1> HIDE DEF M
<1>4. PagerTypeOK'
  BY <1>1, <1>2, <1>3 DEF PagerTypeOK
<1>5. BehindPager' = {}
  BY <1>2 DEF BehindPager, Behind, ToSet
<1>6. Matching(View(pager.view))' = M
  BY <1>2 DEF Matching, Matches, View, Everything, Active, Ids
<1>7. Cardinality({}) = 0
  BY FS_EmptySet
<1>8. PagingSound'
  BY <1>2, <1>5, <1>6, <1>7 DEF PagingSound
<1>9. InOrder(order, <<>>)' /\ PagesComplete'
  BY <1>2 DEF InOrder, PagesComplete
<1>. QED BY <1>2, <1>4, <1>8, <1>9 DEF PagerSound, InOrder

(* An agent reads the next page, which is what stands after its offset now.  *)
LEMMA NextPageStep ==
    ASSUME setup \in DOMAIN Setups, jobs \in Seq(Job), IndexesSound, PagerSound, NextPage
    PROVE  PagerSound'
<1>1. PagerTypeOK /\ PagingSound /\ (pager.joined \/ InOrder(pager.order, pager.got))
  BY DEF NextPage, PagerSound, NoPager
<1> DEFINE order == pager.order
           view == pager.view
           list == Listing(View(view), order)
           limit == Allowed.page
           got == pager.got
           offset == pager.offset
           all == pager.all
           left == pager.left
           joined == pager.joined
           M == Matching(View(view))
           found == Page(list, offset, limit + 1)
           shown == Page(found, 0, limit)
           read == got \o shown
           passed == Behind(order, M, ToSet(read))
<1>2. /\ view \in {"active", "waiting", "all"} /\ order \in {"asc", "desc"}
      /\ got \in Seq(Nat) /\ offset \in Nat /\ left \in BOOLEAN /\ joined \in BOOLEAN
      /\ all \subseteq Nat /\ limit \in Nat
  BY <1>1, BoundsAre DEF PagerTypeOK
<1>3. list \in Seq(Nat) /\ ToSet(list) = M /\ InOrder(order, list)
  BY <1>2, ViewIsInOrder
<1>4. /\ all \subseteq M
      /\ left \/ /\ offset <= Cardinality(Behind(order, M, ToSet(got)))
                 /\ all \cap Behind(order, M, ToSet(got)) \subseteq ToSet(got)
      /\ joined \/ /\ Cardinality(Behind(order, M, ToSet(got))) <= offset
                   /\ InOrder(order, got)
  BY <1>1 DEF PagingSound, BehindPager, NextPage
<1>5. pager' = [pager EXCEPT !.op = IF Len(found) > limit THEN "paging" ELSE "done",
                             !.offset = @ + Len(shown),
                             !.got = @ \o shown]
  BY DEF NextPage, QueryLimit
<1>6. Matching(View(view))' = M
  BY DEF NextPage, table, M, Matching, Matches, View, Everything, Active, Ids
<1>7. pager \in [op : {"paging", "done"}, view : {"active", "waiting", "all"},
                 order : {"asc", "desc"}, offset : Nat, got : Seq(Nat),
                 left : BOOLEAN, joined : BOOLEAN, all : SUBSET Nat]
  BY <1>1 DEF PagerTypeOK
<1> HIDE DEF order, view, list, limit, got, offset, all, left, joined, M
<1>8. /\ read \in Seq(Nat) /\ Len(shown) \in Nat
      /\ left \/ /\ offset + Len(shown) <= Cardinality(passed)
                 /\ all \cap passed \subseteq ToSet(read)
      /\ joined \/ /\ Cardinality(passed) <= offset + Len(shown)
                   /\ InOrder(order, read)
      /\ Len(found) <= limit => left \/ all \subseteq ToSet(read)
  BY <1>2, <1>3, <1>4, PageStep
<1>9. Len(found) \in Nat
  <2>1. limit + 1 \in Nat
    BY <1>2
  <2>2. found \in Seq(Nat)
    BY <1>2, <1>3, <2>1, PageIs
  <2>. QED BY <2>2
<1> HIDE DEF found, shown, passed
<1>10. /\ pager'.op = IF Len(found) > limit THEN "paging" ELSE "done"
       /\ pager'.offset = offset + Len(shown) /\ pager'.got = read
       /\ pager'.view = view /\ pager'.order = order /\ pager'.all = all
       /\ pager'.left = left /\ pager'.joined = joined
  BY <1>5, <1>7 DEF order, view, got, offset, all, left, joined
<1> HIDE DEF read
<1>11. PagerTypeOK'
  <2>1. pager'.got \in Seq(Nat) /\ pager'.offset \in Nat
    BY <1>2, <1>8, <1>10
  <2>2. pager'.op \in {"paging", "done"}
    BY <1>10
  <2>3. pager' \in [op : {"paging", "done"}, view : {"active", "waiting", "all"},
                    order : {"asc", "desc"}, offset : Nat, got : Seq(Nat),
                    left : BOOLEAN, joined : BOOLEAN, all : SUBSET Nat]
    BY <1>5, <1>7, <2>1, <2>2
  <2>. QED BY <2>3 DEF PagerTypeOK
<1>12. Matching(View(pager.view))' = M
  BY <1>6, <1>10 DEF view, Matching, Matches, View, Everything, Active, Ids
<1>13. BehindPager' = passed
  BY <1>10, <1>12 DEF BehindPager, Behind, Before, ToSet, passed
<1>14. PagingSound'
  BY <1>4, <1>8, <1>10, <1>12, <1>13 DEF PagingSound, ToSet
<1>15. (pager.joined \/ InOrder(pager.order, pager.got))'
  BY <1>8, <1>10 DEF InOrder, Before
<1>16. PagesComplete'
  <2>1. pager'.op = "done" => Len(found) <= limit
    BY <1>2, <1>9, <1>10
  <2>2. InOrder(order, read) => IsInjective(read)
    <3> HAVE InOrder(order, read)
    <3>1. \A i \in DOMAIN read : i \in Nat /\ read[i] \in Nat
      BY <1>8
    <3>2. \A i, k \in DOMAIN read : i < k => Before(order, read[i], read[k])
      BY DEF InOrder
    <3>3. \A i, k \in DOMAIN read : i < k => read[i] # read[k]
      BY <3>1, <3>2, BeforeIs
    <3>4. \A i, k \in DOMAIN read : read[i] = read[k] => i = k
      BY <3>1, <3>3
    <3>. QED BY <3>4 DEF IsInjective
  <2>3. pager'.op = "done" => (left \/ all \subseteq ToSet(read)) /\ (joined \/ IsInjective(read))
    BY <1>8, <2>1, <2>2
  <2>. QED BY <1>10, <2>3 DEF PagesComplete, ToSet, IsInjective
<1>. QED BY <1>11, <1>14, <1>15, <1>16 DEF PagerSound

(* Every step of an agent, or under it.  *)
LEMMA PagerStep ==
    ASSUME QueryTypeOK, IndexesSound, PagerSound, [QueryNext]_queryVars, QueryTypeOK'
    PROVE  PagerSound'
<1>1. setup \in DOMAIN Setups /\ jobs \in Seq(Job) /\ jobs' \in Seq(Job)'
  BY DEF QueryTypeOK
<1>2. ASSUME Disturbed
      PROVE  PagerSound'
  BY <1>1, <1>2, DisturbedStep
<1>3. ASSUME UNCHANGED <<table, pager>>
      PROVE  PagerSound'
  <2>1. pager' = pager /\ Matching(View(pager.view))' = Matching(View(pager.view))
    BY <1>3 DEF table, Matching, Matches, View, Everything, Active, Ids
  <2>2. BehindPager' = BehindPager
    BY <2>1 DEF BehindPager, Behind, Before, ToSet
  <2>3. PagingSound <=> PagingSound'
    BY <2>1, <2>2 DEF PagingSound, ToSet
  <2>. QED BY <2>1, <2>3 DEF PagerSound, PagerTypeOK, InOrder, Before, PagesComplete
<1>4. ASSUME NEW view \in Allowed.views, NEW order \in {"asc", "desc"}, BeginPaging(view, order)
      PROVE  PagerSound'
  BY <1>1, <1>4, BeginPagingStep
<1>5. ASSUME NextPage
      PROVE  PagerSound'
  BY <1>1, <1>5, NextPageStep
<1>6. CASE UNCHANGED queryVars
  BY <1>3, <1>6 DEF queryVars
<1>7. CASE QueryNext
  BY <1>2, <1>3, <1>4, <1>5, <1>7
     DEF QueryNext, Submit, Move, Update, Redo, Restart, Changes, Write, Stat, Seek, Read, Answered
<1>. QED BY <1>6, <1>7

(***************************************************************************)
(* The theorems about what users see.                                       *)
(***************************************************************************)

(* The daemon begins with an empty table, an empty log and no reader.  *)
LEMMA QueriesBegin == QueryInit => QueryIInv
<1> SUFFICES ASSUME QueryInit
             PROVE  QueryIInv
  OBVIOUS
<1>1. /\ setup \in DOMAIN Setups /\ jobs = <<>> /\ log = <<>>
      /\ byUser = [u \in Users |-> <<>>] /\ byState = [s \in States |-> <<>>]
      /\ edits = 0 /\ redos = 0 /\ pager = NoPager /\ tail = NoTail
  BY DEF QueryInit
<1>2. /\ Allowed.jobs \in Nat /\ Allowed.edits \in Nat /\ Allowed.redos \in Nat
      /\ Allowed.log \in Nat
  BY <1>1, BoundsAre
<1>3. QueryTypeOK
  <2>1. jobs \in Seq(Job) /\ Len(jobs) = 0 /\ log \in Seq({"byte", "eol"}) /\ Len(log) = 0
    BY <1>1
  <2>2. byUser \in [Users -> Seq(Ids)] /\ byState \in [States -> Seq(Ids)]
    BY <1>1
  <2>. QED BY <1>1, <1>2, <2>1, <2>2 DEF QueryTypeOK
<1>4. IndexesSound
  <2>1. Ascending({}) = <<>>
    <3>1. Cardinality({}) = 0
      BY FS_EmptySet
    <3>. QED BY <3>1 DEF Ascending
  <2>2. Ids = {}
    BY <1>1 DEF Ids
  <2>3. /\ \A u : {j \in Ids : jobs[j].user = u} = {}
        /\ \A s : {j \in Ids : jobs[j].state = s} = {}
    BY <2>2
  <2>. QED BY <1>1, <2>1, <2>3 DEF IndexesSound
<1>. QED BY <1>1, <1>3, <1>4 DEF QueryIInv, PagerSound, LogTailSound

(* For every set of users and all bounds, the indexes hold what the table says, whatever
   transitions, edits, redos and restarts come, and readers are where their offsets
   say unless a job left or joined behind them.  *)
THEOREM QueriesInvariant == QuerySpec => []QueryIInv
<1>1. QueryIInv /\ [QueryNext]_queryVars => QueryIInv'
  <2> SUFFICES ASSUME QueryIInv, [QueryNext]_queryVars
               PROVE  QueryIInv'
    OBVIOUS
  <2>1. QueryTypeOK /\ IndexesSound /\ PagerSound /\ LogTailSound
    BY DEF QueryIInv
  <2>2. setup \in DOMAIN Setups /\ log \in Seq({"byte", "eol"})
    BY <2>1 DEF QueryTypeOK
  <2>3. QueryTypeOK' /\ IndexesSound'
    BY <2>1, TableStep
  <2>4. PagerSound'
    BY <2>1, <2>3, PagerStep
  <2>5. LogTailSound'
    BY <2>1, <2>2, LogTailStep
  <2>. QED BY <2>3, <2>4, <2>5 DEF QueryIInv
<1>. QED BY <1>1, QueriesBegin, PTL DEF QuerySpec

(* A listing is every job that matches, once and in order, from whichever index the
   daemon takes the candidates; the queue summary counts what gstats counts, and
   leaves out who asks for the least; and an agent that read to the last page has missed none that matched all along, unless
   one left behind it, and read none twice, unless one joined there.  *)
THEOREM ListingsAreComplete == QuerySpec => []ListingsComplete
<1>1. QueryIInv => ListingsComplete
  <2> SUFFICES ASSUME QueryIInv
               PROVE  ListingsComplete
    OBVIOUS
  <2>1. QueryTypeOK /\ IndexesSound /\ PagerSound /\ jobs \in Seq(Job)
    BY DEF QueryIInv, QueryTypeOK
  <2>2. ListingsExact /\ SummaryExact
    <3>1. Asked \subseteq Query
      BY DEF Asked, Query, Active, States
    <3>2. \A q \in Asked : Listing(q, "asc") = Ascending(Matching(q))
      BY <2>1, <3>1, ListingIs
    <3>3. SummaryExact
      BY <2>1, SummaryIs DEF QueryTypeOK
    <3>. QED BY <3>2, <3>3 DEF ListingsExact
  <2>3. PagesComplete
    BY <2>1 DEF PagerSound, PagesComplete, NoPager
  <2>. QED BY <2>1, <2>2, <2>3 DEF ListingsComplete
<1>. QED BY <1>1, QueriesInvariant, PTL

(* The tail of a log that grows between the calls that take its size, seek in it and read
   it begins with a whole line, is never longer than was asked for, is marked truncated
   exactly if something is left out, and is what gjob log --last shows if the whole
   file was read.  *)
THEOREM TailsAreSound == QuerySpec => []TailSound
<1>1. QueryIInv => TailSound
  BY DEF QueryIInv, LogTailSound, Seeking, Reading, Showing, TailSound, NoTail
<1>. QED BY <1>1, QueriesInvariant, PTL
=============================================================================
