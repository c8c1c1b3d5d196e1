-------------------------------- MODULE Backups --------------------------------
(***************************************************************************)
(* Backups of the schema (backup.py): dumps that operators and the         *)
(* scheduler start, the rows that describe them, the retention that runs   *)
(* after each, the removal of files no row names, and restores.            *)
(*                                                                         *)
(* Row and file of a backup have the backup's number; rows are ordered by  *)
(* it as by their time.  A step ends where the code awaits.  When the      *)
(* scheduler's next backup is due is left open.                            *)
(***************************************************************************)
EXTENDS Integers, FiniteSets, FiniteSetsExt

CONSTANTS
  Makers,       \* tasks that may make backups at the same time: requests, the scheduler
  Counts,       \* retention counts operators choose
  BackupBound   \* backups made in all

ASSUME BackupsAssumption ==
  /\ Counts \subseteq Nat \ {0} /\ Counts # {} /\ IsFiniteSet(Counts)
  /\ BackupBound \in Nat

Numbers == 1..BackupBound

VARIABLES
  rows,      \* backup -> "absent", "in_progress", "ok", "failed"
  files,     \* backup -> its file: "none", "partial", "complete"
  keep,      \* backup_config.retention_count
  maker,     \* task -> its backup, how far it is, what retention is to delete
  tally      \* what retention is measured by: dumps made, backups discarded by
             \* operators (both up to Most), the smallest count so far

backupVars == <<rows, files, keep, maker, tally>>

Most == Max(Counts)
UpTo(n) == IF n < Most THEN n ELSE Most
MakerSteps == {"idle", "dump", "count", "retain", "delete"}
MakerStates == [pc : MakerSteps, backup : 0..BackupBound, doomed : SUBSET Numbers]
NotMaking == [pc |-> "idle", backup |-> 0, doomed |-> {}]

BackupsTypeOK ==
  /\ rows \in [Numbers -> {"absent", "in_progress", "ok", "failed"}]
  /\ files \in [Numbers -> {"none", "partial", "complete"}]
  /\ keep \in Counts
  /\ tally \in [made : 0..Most, discarded : 0..Most, least : Counts]
  /\ maker \in [Makers -> MakerStates]

BackupsInit ==
  /\ rows = [b \in Numbers |-> "absent"]
  /\ files = [b \in Numbers |-> "none"]
  /\ keep \in Counts
  /\ tally = [made |-> 0, discarded |-> 0, least |-> keep]
  /\ maker = [m \in Makers |-> NotMaking]

-----------------------------------------------------------------------------
MakerAt(m, pc) == maker[m].pc = pc
MakerGo(m, pc) == maker' = [maker EXCEPT ![m].pc = pc]

Made(m) == maker' = [maker EXCEPT ![m] = NotMaking]

\* create_backup inserts the row, which names the file.
Create(m) ==
  LET used == {n \in Numbers : rows[n] # "absent" \/ files[n] # "none"}
                \union {maker[n].backup : n \in Makers}
      b == Max(used \union {0}) + 1
  IN /\ MakerAt(m, "idle")
     /\ b <= BackupBound
     /\ rows' = [rows EXCEPT ![b] = "in_progress"]
     /\ maker' = [maker EXCEPT ![m] = [NotMaking EXCEPT !.pc = "dump", !.backup = b]]
     /\ UNCHANGED <<files, keep, tally>>

\* A row takes a status, if it is still there.
Marked(b, status) == [rows EXCEPT ![b] = IF @ = "absent" THEN @ ELSE status]

\* The dump, in a thread of its own: complete, or cut short with a partial file.
Dump(m) ==
  LET b == maker[m].backup
  IN /\ MakerAt(m, "dump")
     /\ \/ /\ files' = [files EXCEPT ![b] = "complete"]
           /\ tally' = [tally EXCEPT !.made = UpTo(@ + 1)]
           /\ MakerGo(m, "count")
           /\ UNCHANGED rows
        \/ /\ files' = [files EXCEPT ![b] = "partial"]
           /\ rows' = Marked(b, "failed")
           /\ Made(m)
           /\ UNCHANGED tally
     /\ UNCHANGED keep

\* The size, the table counts and the status of the row.
Complete(m) ==
  LET b == maker[m].backup
  IN /\ MakerAt(m, "count")
     /\ IF files[b] # "none" THEN rows' = Marked(b, "ok") /\ MakerGo(m, "retain")
        ELSE rows' = Marked(b, "failed") /\ Made(m)
     /\ UNCHANGED <<files, keep, tally>>

\* Mutant: rows of backups under way or failed count as backups too.
BeyondAny(count) ==
  LET kept == {n \in Numbers : rows[n] # "absent"}
  IN {b \in kept : Cardinality({n \in kept : n > b}) >= count}

\* The good backups beyond the retention count.
Beyond(count) ==
  LET good == {n \in Numbers : rows[n] = "ok"}
  IN {b \in good : Cardinality({n \in good : n > b}) >= count}

\* _enforce_retention, in the same try block as the dump: an error in it, from
\* here to the end, marks the finished backup as failed.  A file may then be gone
\* whose row is not.
Retain(m) ==
  /\ MakerAt(m, "retain")
  /\ maker' = [maker EXCEPT ![m].pc = "delete", ![m].doomed = Beyond(keep)]
  /\ UNCHANGED <<rows, files, keep, tally>>

RetentionFails(m) ==
  /\ maker[m].pc \in {"retain", "delete"}
  /\ rows' = Marked(maker[m].backup, "failed")
  /\ \/ UNCHANGED files
     \/ maker[m].doomed # {} /\ files' = [files EXCEPT ![Max(maker[m].doomed)] = "none"]
  /\ Made(m)
  /\ UNCHANGED <<keep, tally>>

\* delete_backup: the file, then the row; a file that cannot be deleted stays.
DeleteRow(b) ==
  /\ rows' = [rows EXCEPT ![b] = "absent"]
  /\ files' \in {[files EXCEPT ![b] = "none"], files}

Delete(m) ==
  /\ MakerAt(m, "delete") /\ maker[m].doomed # {}
  /\ LET b == Max(maker[m].doomed)
     IN /\ DeleteRow(b)
        /\ maker' = [maker EXCEPT ![m].doomed = @ \ {b}]
  /\ UNCHANGED <<keep, tally>>

\* _reap_orphan_files: files no row names, if they are more than an hour old.
Reap(m) ==
  /\ MakerAt(m, "delete") /\ maker[m].doomed = {}
  /\ \E old \in SUBSET {f \in Numbers : files[f] # "none" /\ rows[f] = "absent"} :
       files' = [f \in Numbers |-> IF f \in old THEN "none" ELSE files[f]]
  /\ Made(m)
  /\ UNCHANGED <<rows, keep, tally>>

\* A crash forgets what was under way; a row may stay in progress for ever.
BackupCrash ==
  /\ \E m \in Makers : maker[m] # NotMaking
  /\ maker' = [m \in Makers |-> NotMaking]
  /\ UNCHANGED <<rows, files, keep, tally>>

-----------------------------------------------------------------------------
(* The operator.                                                           *)

\* Bound: once Most are discarded operators rest, as nothing is promised any longer.
Discards(S) ==
  /\ tally.discarded < Most
  /\ tally' = [tally EXCEPT !.discarded = UpTo(@ + Cardinality(S))]

\* A row that cannot be deleted stays without its file: retention will take it
\* for a good backup.
OperatorDeletes(b) ==
  /\ rows[b] # "absent"
  /\ DeleteRow(b) \/ (files' = [files EXCEPT ![b] = "none"] /\ UNCHANGED rows)
  /\ Discards({b})
  /\ UNCHANGED <<keep, maker>>

\* update_config.
UpdateConfig ==
  /\ \E count \in Counts \ {keep} : /\ keep' = count
                                      /\ tally' = [tally EXCEPT !.least = Min({@, count})]
  /\ UNCHANGED <<rows, files, maker>>

\* restore_backup replaces the schema, the table of backups with it: later
\* backups lose their rows, the restored one is back in progress.
Restore(b) ==
  /\ rows[b] = "ok" /\ files[b] # "none"
  /\ rows' = [n \in Numbers |-> IF n > b THEN "absent" ELSE IF n = b THEN "in_progress" ELSE rows[n]]
  /\ Discards({n \in Numbers : n >= b /\ (rows[n] # "absent" \/ files[n] # "none")})
  /\ UNCHANGED <<files, keep, maker>>

BackupsNext ==
  \/ \E m \in Makers : \/ Create(m) \/ Dump(m) \/ Complete(m) \/ Retain(m) \/ RetentionFails(m)
                       \/ Delete(m) \/ Reap(m)
  \/ \E b \in Numbers : OperatorDeletes(b) \/ Restore(b)
  \/ UpdateConfig \/ BackupCrash

BackupsSpec == BackupsInit /\ [][BackupsNext]_backupVars

-----------------------------------------------------------------------------
\* Of the dumps that were completed, as many as the smallest count ever configured
\* stay on disk, but for those an operator deleted or discarded by a restore,
\* however retentions overlap with each other, with backups under way and with
\* deletions that succeed by half (backup.py:303-317, 488-507).
RetentionKeepsEnough ==
  Cardinality({b \in Numbers : files[b] = "complete"})
    >= Min({tally.least, tally.made}) - tally.discarded

===============================================================================
