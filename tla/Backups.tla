------------------------------- MODULE Backups -------------------------------
(***************************************************************************)
(* Backups of the database and the file storage, and the rehearsal of a    *)
(* restore.  A dump of the database is one consistent view; the files are  *)
(* copied one by one afterwards, while the server may be running.  In      *)
(* maintenance the deployment scripts keep the server stopped.             *)
(***************************************************************************)
EXTENDS StoredFiles, Sequences

CONSTANTS
  NoBackup, NoRehearsal,
  MaxBackups      \* bound of the model: backups that are finished

ASSUME BackupAssumption == MaxBackups \in Nat

VARIABLES
  backup,         \* the backup being made, in its incomplete directory
  lock,           \* the lock file of the backup root
  backups,        \* finished ones: [mode, rows, files, sound]
  rehearsal,      \* the restore being rehearsed
  record          \* the backup that the record of a rehearsal names

backupVars == <<fileVars, backup, lock, backups, rehearsal, record>>

Directories == FileKinds \cup {"PHOTO"}

BackupInit ==
  /\ FileInit
  /\ backup = NoBackup /\ lock = FALSE /\ backups = <<>>
  /\ rehearsal = NoRehearsal /\ record = NoBackup

UnchangedRehearsal == UNCHANGED <<rehearsal, record>>
------------------------------------------------------------------------------
(* Making a backup.                                                        *)

\* Refused while another one holds the lock file, also one that was lost.
StartBackup(mode) ==
  /\ ~lock /\ Len(backups) < MaxBackups
  /\ mode = "maintenance" => ~serverUp
  /\ lock' = TRUE
  /\ backup' = [mode |-> mode, step |-> "DUMP", rows |-> {}, left |-> Directories, listed |-> {}, files |-> {}]
  /\ UNCHANGED <<fileVars, backups>> /\ UnchangedRehearsal

\* Mutant: the files are copied first.
DumpDatabaseLast ==
  /\ backup # NoBackup
  /\ \/ /\ backup.step = "DUMP" /\ backup' = [backup EXCEPT !.step = "COPY"]
     \/ /\ backup.step = "COPY" /\ backup.left = {} /\ backup.listed \subseteq backup.files
        /\ backup' = [backup EXCEPT !.rows = NamedFiles]
  /\ UNCHANGED <<fileVars, lock, backups>> /\ UnchangedRehearsal

\* One view of the database, taken before the first file is copied.
DumpDatabase ==
  /\ backup # NoBackup /\ backup.step = "DUMP"
  /\ backup' = [backup EXCEPT !.step = "COPY", !.rows = NamedFiles]
  /\ UNCHANGED <<fileVars, lock, backups>> /\ UnchangedRehearsal

\* The walk lists a directory when it gets there, then copies what it listed.
ListDirectory(d) ==
  /\ backup # NoBackup /\ backup.step = "COPY"
  /\ backup.listed \subseteq backup.files
  /\ d \in backup.left
  /\ backup' = [backup EXCEPT !.left = @ \ {d}, !.listed = @ \cup {f \in stored : f[1] = d}]
  /\ UNCHANGED <<fileVars, lock, backups>> /\ UnchangedRehearsal

CopyFile(f) ==
  /\ backup # NoBackup /\ f \in backup.listed \ backup.files
  /\ f \in stored
  /\ backup' = [backup EXCEPT !.files = @ \cup {f}]
  /\ UNCHANGED <<fileVars, lock, backups>> /\ UnchangedRehearsal

\* A file that was removed since it was listed, or any other error: nothing
\* is left of the backup.
FailBackup ==
  /\ backup # NoBackup
  /\ backup' = NoBackup /\ lock' = FALSE
  /\ UNCHANGED <<fileVars, backups>> /\ UnchangedRehearsal

\* The manifest is written, and the directory gets its final name.
FinishBackup ==
  /\ backup # NoBackup /\ backup.step = "COPY"
  /\ backup.left = {} /\ backup.listed \subseteq backup.files
  /\ backups' = Append(backups, [mode |-> backup.mode, rows |-> backup.rows, files |-> backup.files, sound |-> TRUE])
  /\ backup' = NoBackup /\ lock' = FALSE
  /\ UNCHANGED fileVars /\ UnchangedRehearsal

\* The process is killed: the incomplete directory and the lock file remain.
LoseBackup ==
  /\ backup # NoBackup
  /\ backup' = NoBackup
  /\ UNCHANGED <<fileVars, lock, backups>> /\ UnchangedRehearsal

RemoveStaleLock ==
  /\ lock /\ backup = NoBackup
  /\ lock' = FALSE
  /\ UNCHANGED <<fileVars, backup, backups>> /\ UnchangedRehearsal

\* The directory of a finished backup is damaged.
DamageBackup(b) ==
  /\ backups[b].sound
  /\ backups' = [backups EXCEPT ![b].sound = FALSE]
  /\ UNCHANGED <<fileVars, backup, lock>> /\ UnchangedRehearsal

\* Not before a backup in maintenance is over.
StartServerAgain ==
  /\ backup # NoBackup => backup.mode = "online"
  /\ StartServer
  /\ UNCHANGED <<backup, lock, backups>> /\ UnchangedRehearsal
------------------------------------------------------------------------------
(* Rehearsing a restore.                                                   *)

UnchangedBackups == UNCHANGED <<fileVars, backup, lock, backups>>

\* The hashes of the dump and of every file are compared with the manifest.
StartRehearsal(b, keep) ==
  /\ rehearsal = NoRehearsal
  /\ backups[b].sound
  /\ rehearsal' = [backup |-> b, step |-> "RESTORE", keep |-> keep, restored |-> FALSE, remains |-> FALSE]
  /\ UNCHANGED record /\ UnchangedBackups

\* Into a test database and directory; what was restored is compared again.
Restore(works) ==
  /\ rehearsal # NoRehearsal /\ rehearsal.step = "RESTORE"
  /\ works => backups[rehearsal.backup].sound
  /\ rehearsal' = [rehearsal EXCEPT !.step = "CLEAN", !.restored = works, !.remains = TRUE]
  /\ UNCHANGED record /\ UnchangedBackups

\* Mutant: a cleanup that fails is passed over.
CleanUpIfPossible(works) ==
  /\ rehearsal # NoRehearsal /\ rehearsal.step = "CLEAN"
  /\ rehearsal' = IF rehearsal.restored
                  THEN [rehearsal EXCEPT !.step = "RECORD", !.remains = rehearsal.keep \/ ~works] ELSE NoRehearsal
  /\ UNCHANGED record /\ UnchangedBackups

\* In any case, unless they are to be kept; it may fail, and that ends the run
\* like a restore that failed.
CleanUp(works) ==
  /\ rehearsal # NoRehearsal /\ rehearsal.step = "CLEAN"
  /\ rehearsal' = IF rehearsal.restored /\ works
                  THEN [rehearsal EXCEPT !.step = "RECORD", !.remains = rehearsal.keep] ELSE NoRehearsal
  /\ UNCHANGED record /\ UnchangedBackups

\* Only when nothing was to be kept.
WriteRecord ==
  /\ rehearsal # NoRehearsal /\ rehearsal.step = "RECORD"
  /\ record' = IF rehearsal.keep THEN record ELSE rehearsal.backup
  /\ rehearsal' = NoRehearsal
  /\ UnchangedBackups

BackupNext ==
  \/ FileStep /\ UNCHANGED <<backup, lock, backups>> /\ UnchangedRehearsal
  \/ \E mode \in {"maintenance", "online"} : StartBackup(mode)
  \/ DumpDatabase
  \/ \E d \in Directories : ListDirectory(d)
  \/ \E f \in stored : CopyFile(f)
  \/ FailBackup \/ FinishBackup \/ LoseBackup \/ RemoveStaleLock \/ StartServerAgain
  \/ \E b \in DOMAIN backups : DamageBackup(b) \/ \E keep \in BOOLEAN : StartRehearsal(b, keep)
  \/ \E works \in BOOLEAN : Restore(works) \/ CleanUp(works)
  \/ WriteRecord

BackupSpec == BackupInit /\ [][BackupNext]_backupVars
------------------------------------------------------------------------------
(* Properties.                                                             *)

\* A finished backup has every file that its rows name and that is not
\* replaced since; made in maintenance, it has every file.
BackupIsComplete ==
  \A b \in DOMAIN backups :
    LET missing == backups[b].rows \ backups[b].files
    IN  missing \cap (IF backups[b].mode = "online" THEN stored ELSE missing) = {}

\* A record of a rehearsal says what it says: the backup it names was sound,
\* it was restored, and nothing of it was left on the server.
RecordIsEarned ==
  [][record' # record =>
       rehearsal # NoRehearsal /\ rehearsal.restored /\ ~rehearsal.remains /\ record' = rehearsal.backup]_backupVars
=============================================================================
