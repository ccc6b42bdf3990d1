-------------------------------- MODULE Backup --------------------------------
(***************************************************************************)
(* Backup and restore of the database by the operational scripts            *)
(* (backend/src/modules/platform/backup).  A run dumps to a .partial file   *)
(* named after the second it began in, verifies it, renames it and deletes  *)
(* all but the newest backups; a restore creates a database and drops it    *)
(* again when it fails.  Nothing keeps two runs, or two restores into one   *)
(* database, from overlapping, and any of them may die.                     *)
(*                                                                          *)
(* The exit of pg_dump does not wait for the file: what is still buffered   *)
(* is written (Flush) at any moment until the process exits.                *)
(***************************************************************************)
EXTENDS Integers, FiniteSetsExt

CONSTANTS
    BackupRun,      \* runs of runBackup
    RestoreRun,     \* runs of runRestore, all into one database
    LastSecond,     \* bounds the clock
    KeepCount,      \* BACKUP_RETENTION_COUNT
    Existing,       \* the seconds of the backups that are there already
    Earlier,        \* the run that left those
    Nobody          \* no file, no database

BackupAssumption ==
    /\ LastSecond \in Nat \ {0} /\ KeepCount \in Nat \ {0}
    /\ Existing \subseteq 1 .. LastSecond - 1
    /\ {Earlier, Nobody} \cap (BackupRun \cup RestoreRun) = {} /\ Earlier # Nobody

VARIABLES
    clock,          \* the current second
    partial,        \* partial[s]: there is a pos-erp-s.dump.partial
    final,          \* final[s]: the run whose dump pos-erp-s.dump holds
    backup,         \* backup[b]: a run of runBackup
    restore,        \* restore[r]: a run of runRestore
    database,       \* the restore that has created the target database
    finished        \* history: the seconds whose backup was ever renamed

backupVars == <<clock, partial, final, backup, restore, database, finished>>

Second == 1 .. LastSecond
Ended == {"done", "failed", "dead"}

TypeOK ==
    /\ clock \in Second
    /\ partial \in [Second -> BOOLEAN]
    /\ final \in [Second -> BackupRun \cup {Earlier, Nobody}]
    /\ backup \in [BackupRun ->
            [pc : {"idle", "open", "dump", "verify", "rename", "retain", "delete"} \cup Ended,
             second : Second, flushed : BOOLEAN, old : SUBSET Second]]
    /\ restore \in [RestoreRun -> [pc : {"idle", "exists", "create", "restore"} \cup Ended,
                                   second : Second]]
    /\ database \in RestoreRun \cup {Nobody}
    /\ finished \subseteq Second

Init ==
    /\ clock = Max(Existing \cup {0}) + 1
    /\ partial = [s \in Second |-> FALSE]
    /\ final = [s \in Second |-> IF s \in Existing THEN Earlier ELSE Nobody]
    /\ backup = [b \in BackupRun |->
            [pc |-> "idle", second |-> 1, flushed |-> FALSE, old |-> {}]]
    /\ restore = [r \in RestoreRun |-> [pc |-> "idle", second |-> 1]]
    /\ database = Nobody
    /\ finished = Existing

Tick ==
    /\ clock < LastSecond
    /\ clock' = clock + 1
    /\ UNCHANGED <<partial, final, backup, restore, database, finished>>

---------------------------------------------------------------------------
(* runBackup *)

Continue(b, step) == backup' = [backup EXCEPT ![b].pc = step]
Own(b) == backup[b].second

StartBackup(b) ==
    /\ backup[b].pc = "idle"
    /\ backup' = [backup EXCEPT ![b] =
            [@ EXCEPT !.second = clock,
                      !.pc = IF final[clock] = Nobody THEN "open" ELSE "failed"]]
    /\ UNCHANGED <<clock, partial, final, restore, database, finished>>

(* Opened with "wx": a file that is there belongs to another run. *)
OpenPartial(b) ==
    /\ backup[b].pc = "open"
    /\ IF partial[Own(b)]
       THEN Continue(b, "failed") /\ UNCHANGED partial
       ELSE Continue(b, "dump") /\ partial' = [partial EXCEPT ![Own(b)] = TRUE]
    /\ UNCHANGED <<clock, final, restore, database, finished>>

DumpExits(b) ==
    /\ backup[b].pc = "dump"
    /\ Continue(b, "verify")
    /\ UNCHANGED <<clock, partial, final, restore, database, finished>>

Flush(b) ==
    /\ backup[b].pc \in {"verify", "rename", "retain", "delete"} /\ ~backup[b].flushed
    /\ backup' = [backup EXCEPT ![b].flushed = TRUE]
    /\ UNCHANGED <<clock, partial, final, restore, database, finished>>

(* A size, and a table of contents that pg_restore can list. *)
Verified(b) ==
    /\ backup[b].pc = "verify"
    /\ Continue(b, "rename")
    /\ UNCHANGED <<clock, partial, final, restore, database, finished>>

(* closeAndRemove, after a dump that failed or took too long, or a file     *)
(* that is empty or cannot be listed.                                       *)
Discard(b) ==
    /\ backup[b].pc \in {"dump", "verify"}
    /\ partial' = [partial EXCEPT ![Own(b)] = FALSE]
    /\ Continue(b, "failed")
    /\ UNCHANGED <<clock, final, restore, database, finished>>

RenamePartial(b) ==
    /\ backup[b].pc = "rename"
    /\ partial' = [partial EXCEPT ![Own(b)] = FALSE]
    /\ final' = [final EXCEPT ![Own(b)] = b]
    /\ finished' = finished \cup {Own(b)}
    /\ Continue(b, "retain")
    /\ UNCHANGED <<clock, restore, database>>

(* selectBackupsToDelete. *)
Newest(seconds) == {s \in seconds : Cardinality({t \in seconds : t > s}) < KeepCount}

(* Mutant of Candidates: a name that ends in .partial is parsed as well.    *)
CandidatesAndPartials == {s \in Second : final[s] # Nobody \/ partial[s]}

(* The names parseBackupFilename accepts. *)
Candidates == {s \in Second : final[s] # Nobody}

ReadDirectory(b) ==
    /\ backup[b].pc = "retain"
    /\ backup' = [backup EXCEPT ![b] =
            [@ EXCEPT !.pc = "delete", !.old = Candidates \ Newest(Candidates)]]
    /\ UNCHANGED <<clock, partial, final, restore, database, finished>>

(* One at a time, the newest of the old ones first. *)
DeleteOld(b) ==
    LET s == Max(backup[b].old) IN
    /\ backup[b].pc = "delete" /\ backup[b].old # {}
    /\ final' = [final EXCEPT ![s] = Nobody]
    /\ backup' = [backup EXCEPT ![b].old = @ \ {s}]
    /\ UNCHANGED <<clock, partial, restore, database, finished>>

(* The process exits once the file is written. *)
FinishBackup(b) ==
    /\ backup[b].pc = "delete" /\ backup[b].old = {} /\ backup[b].flushed
    /\ Continue(b, "done")
    /\ UNCHANGED <<clock, partial, final, restore, database, finished>>

(* Killed, or an error nobody handles: a full disk, no pg_restore.          *)
BackupDies(b) ==
    /\ backup[b].pc \notin Ended \cup {"idle"}
    /\ Continue(b, "dead")
    /\ UNCHANGED <<clock, partial, final, restore, database, finished>>

---------------------------------------------------------------------------
(* runRestore *)

Advance(r, step) == restore' = [restore EXCEPT ![r].pc = step]

StartRestore(r, s) ==
    /\ restore[r].pc = "idle" /\ final[s] # Nobody
    /\ restore' = [restore EXCEPT ![r] = [pc |-> "exists", second |-> s]]
    /\ UNCHANGED <<clock, partial, final, backup, database, finished>>

TargetExists(r) ==
    /\ restore[r].pc = "exists"
    /\ Advance(r, IF database = Nobody THEN "create" ELSE "failed")
    /\ UNCHANGED <<clock, partial, final, backup, database, finished>>

(* CREATE DATABASE fails outside the try that drops. *)
CreateDatabase(r) ==
    /\ restore[r].pc = "create"
    /\ IF database = Nobody THEN database' = r /\ Advance(r, "restore")
                            ELSE Advance(r, "failed") /\ UNCHANGED database
    /\ UNCHANGED <<clock, partial, final, backup, finished>>

(* Only a whole file can be restored.                                       *)
Restored(r) ==
    LET b == final[restore[r].second] IN
    /\ restore[r].pc = "restore" /\ b # Nobody
    /\ b # Earlier => backup[b].flushed
    /\ Advance(r, "done")
    /\ UNCHANGED <<clock, partial, final, backup, database, finished>>

(* dropDatabase. *)
RestoreFails(r) ==
    /\ restore[r].pc = "restore"
    /\ database' = Nobody
    /\ Advance(r, "failed")
    /\ UNCHANGED <<clock, partial, final, backup, finished>>

(* Killed, or the file was deleted before it could be opened. *)
RestoreDies(r) ==
    /\ restore[r].pc \notin Ended \cup {"idle"}
    /\ Advance(r, "dead")
    /\ UNCHANGED <<clock, partial, final, backup, database, finished>>

---------------------------------------------------------------------------
BackupStep(b) ==
    \/ StartBackup(b) \/ OpenPartial(b) \/ DumpExits(b) \/ Flush(b) \/ Verified(b) \/ Discard(b)
    \/ RenamePartial(b) \/ ReadDirectory(b) \/ DeleteOld(b) \/ FinishBackup(b) \/ BackupDies(b)
RestoreStep(r) ==
    \/ TargetExists(r) \/ CreateDatabase(r) \/ Restored(r) \/ RestoreFails(r) \/ RestoreDies(r)

Next ==
    \/ Tick
    \/ \E b \in BackupRun : BackupStep(b)
    \/ \E r \in RestoreRun, s \in Second : StartRestore(r, s)
    \/ \E r \in RestoreRun : RestoreStep(r)

Spec == Init /\ [][Next]_backupVars
---------------------------------------------------------------------------
(* Properties *)

(* However runs overlap, fail or die: the KeepCount newest backups ever     *)
(* finished are still there, an unfinished one is left behind only by a run *)
(* that died, and what a restore has restored no other restore drops        *)
(* (retention-policy.ts:6; backup-runner.ts:57; restore-runner.ts:58).      *)
BackupsKept ==
    /\ \A s \in Newest(finished) : final[s] # Nobody
    /\ \A s \in Second : partial[s] =>
        \E b \in BackupRun : Own(b) = s /\ backup[b].pc \in {"dump", "verify", "rename", "dead"}
    /\ \A r \in RestoreRun : restore[r].pc = "done" => database = r
=============================================================================
