------------------------------- MODULE Restore -----------------------------
(***************************************************************************)
(* Backup and restore from the page (frontend/static/js/app.js).  Both     *)
(* have a dialog in the settings, which the tools page opens as well,      *)
(* though it is only seen in the settings.  An encrypted backup is sent    *)
(* without a password first, and again with the one that is asked for.     *)
(* The server changes its files and stops (api/backup.go).                 *)
(***************************************************************************)
EXTENDS Naturals

CONSTANTS
    BackupFiles,    \* the files there are
    EncryptedFiles, \* those that need a password
    NoBackup,       \* no file
    MaxRestoreRush, \* bound: how often the user does not wait
    MaxRestoreErrors\* bound: requests refused or lost

ASSUME RestoreAssumption ==
    /\ NoBackup \notin BackupFiles
    /\ EncryptedFiles \subseteq BackupFiles
    /\ MaxRestoreRush \in Nat
    /\ MaxRestoreErrors \in Nat

VARIABLES
    restored,       \* the server: the backup it has stopped with
    backupView,     \* the view on the screen
    backup,         \* showBackupModal, backupPassword, isExportingBackup
    restore,        \* showRestoreModal and the variables of a restore
    backupAsked,    \* requests under way
    (* what has happened, for the properties *)
    picked,         \* the file picked since the restore was opened
    unpicked,       \* another file than that has been restored
    backups,        \* files saved: encrypted or not, and as their name says
    restoreRush,    \* how often the user did not wait
    restoreErrors   \* requests refused or lost

restorePast == <<picked, unpicked, backups>>
restoreVars == <<restored, backupView, backup, restore, backupAsked,
                 restorePast, restoreRush, restoreErrors>>

AnyBackup == BackupFiles \cup {NoBackup}
Passwords == {"none", "wrong", "right"}
NoRestore == [show |-> FALSE, file |-> NoBackup, required |-> FALSE,
              password |-> "none", busy |-> FALSE, complete |-> FALSE]
NoExport == [show |-> FALSE, password |-> "none", busy |-> FALSE]

Sent(what, file, password) ==
    [what |-> what, file |-> file, password |-> password]
RestoreAsks(r) == backupAsked' = backupAsked \cup {r}
RestoreAnswered(r) == r \in backupAsked /\ backupAsked' = backupAsked \ {r}

(* Both dialogs are part of the settings, and cover the page. *)
Seen(dialog) == dialog.show /\ backupView = "settings"
NothingSeen == ~Seen(backup) /\ ~Seen(restore)

RestoreUserActs ==
    /\ restoreRush' = restoreRush + IF backupAsked # {} THEN 1 ELSE 0
    /\ restoreRush' <= MaxRestoreRush

LosesRestore == /\ restoreErrors < MaxRestoreErrors
                /\ restoreErrors' = restoreErrors + 1

GoTo(view) ==
    /\ NothingSeen
    /\ view # backupView
    /\ backupView' = view
    /\ UNCHANGED <<restored, backup, restore, backupAsked, restorePast,
                   restoreRush, restoreErrors>>

-----------------------------------------------------------------------------
(* Backup.                                                                 *)

OpenBackupModal ==
    /\ NothingSeen
    /\ ~backup.busy
    /\ RestoreUserActs
    /\ backup' = [backup EXCEPT !.show = TRUE, !.password = "none"]
    /\ UNCHANGED <<restored, backupView, restore, backupAsked, restorePast,
                   restoreErrors>>

TypeBackupPassword ==
    /\ Seen(backup)
    /\ RestoreUserActs
    /\ backup' = [backup EXCEPT !.password = "right"]
    /\ UNCHANGED <<restored, backupView, restore, backupAsked, restorePast,
                   restoreErrors>>

CloseBackupModal ==
    /\ Seen(backup)
    /\ RestoreUserActs
    /\ backup' = [backup EXCEPT !.show = FALSE, !.password = "none"]
    /\ UNCHANGED <<restored, backupView, restore, backupAsked, restorePast,
                   restoreErrors>>

ExportBackup ==
    /\ Seen(backup)
    /\ ~backup.busy
    /\ RestoreUserActs
    /\ backup' = [backup EXCEPT !.busy = TRUE]
    /\ RestoreAsks(Sent("export", NoBackup, backup.password))
    /\ UNCHANGED <<restored, backupView, restore, restorePast, restoreErrors>>

(* Mutant of ExportArrives: the name follows what is typed in by now. *)
ExportArrivesNamedLate(r) ==
    /\ r.what = "export"
    /\ RestoreAnswered(r)
    /\ backups' = backups \cup
          {<<r.password # "none", backup.password # "none">>}
    /\ backup' = NoExport
    /\ UNCHANGED <<restored, unpicked, backupView, restore, picked,
                   restoreRush, restoreErrors>>

(* A success closes the dialog, whether it has been opened again or not. *)
ExportArrives(r) ==
    /\ r.what = "export"
    /\ RestoreAnswered(r)
    /\ \/ /\ restored = NoBackup
          /\ backups' = backups \cup
                {<<r.password # "none", r.password # "none">>}
          /\ backup' = NoExport
          /\ UNCHANGED restoreErrors
       \/ /\ \/ restored # NoBackup /\ UNCHANGED restoreErrors
             \/ LosesRestore
          /\ backup' = [backup EXCEPT !.busy = FALSE]
          /\ UNCHANGED backups
    /\ UNCHANGED <<restored, unpicked, backupView, restore, picked,
                   restoreRush>>

-----------------------------------------------------------------------------
(* Restore.                                                                *)

(* Mutant of OpenRestoreModal: what was left of the last time stays. *)
OpenRestoreModalAgain ==
    /\ NothingSeen
    /\ RestoreUserActs
    /\ restore' = [restore EXCEPT !.show = TRUE]
    /\ picked' = NoBackup
    /\ UNCHANGED <<restored, unpicked, backupView, backup, backupAsked,
                   backups, restoreErrors>>

OpenRestoreModal ==
    /\ NothingSeen
    /\ RestoreUserActs
    /\ restore' = [restore EXCEPT !.show = TRUE, !.file = NoBackup,
                                  !.required = FALSE, !.password = "none"]
    /\ picked' = NoBackup
    /\ UNCHANGED <<restored, unpicked, backupView, backup, backupAsked,
                   backups, restoreErrors>>

(* The button of the first step and the Escape key only hide the dialog,   *)
(* the one of the second clears it.                                        *)
HideRestoreModal ==
    /\ restore.show /\ ~restore.complete
    /\ \/ Seen(restore) /\ ~restore.required
       \/ ~restore.busy
    /\ RestoreUserActs
    /\ restore' = [restore EXCEPT !.show = FALSE]
    /\ UNCHANGED <<restored, backupView, backup, backupAsked, restorePast,
                   restoreErrors>>

CancelRestore ==
    /\ Seen(restore) /\ restore.required /\ ~restore.complete
    /\ RestoreUserActs
    /\ restore' = [restore EXCEPT !.show = FALSE, !.file = NoBackup,
                                  !.required = FALSE, !.password = "none"]
    /\ UNCHANGED <<restored, backupView, backup, backupAsked, restorePast,
                   restoreErrors>>

(* Mutant of UploadRestoreFile: the file is not remembered. *)
UploadRestoreFileOnly(file) ==
    /\ Seen(restore) /\ ~restore.required /\ ~restore.complete
    /\ RestoreUserActs
    /\ restore' = [restore EXCEPT !.busy = TRUE]
    /\ RestoreAsks(Sent("restore", file, "none"))
    /\ picked' = file
    /\ UNCHANGED <<restored, unpicked, backupView, backup, backups,
                   restoreErrors>>

(* uploadRestoreFile with the event of a file that is chosen. *)
UploadRestoreFile(file) ==
    /\ Seen(restore) /\ ~restore.required /\ ~restore.complete
    /\ RestoreUserActs
    /\ restore' = [restore EXCEPT !.file = file, !.busy = TRUE]
    /\ RestoreAsks(Sent("restore", file, "none"))
    /\ picked' = file
    /\ UNCHANGED <<restored, unpicked, backupView, backup, backups,
                   restoreErrors>>

(* ... and with a password, for the file that was chosen. *)
UploadWithPassword(password) ==
    /\ Seen(restore) /\ restore.required /\ ~restore.complete
    /\ ~restore.busy
    /\ RestoreUserActs
    /\ password # "none"
    /\ IF restore.file = NoBackup
       THEN /\ restore' = [restore EXCEPT !.password = password]
            /\ UNCHANGED backupAsked
       ELSE /\ restore' = [restore EXCEPT !.password = password, !.busy = TRUE]
            /\ RestoreAsks(Sent("restore", restore.file, password))
    /\ UNCHANGED <<restored, backupView, backup, restorePast, restoreErrors>>

Opens(r) == r.file \notin EncryptedFiles \/ r.password = "right"

Restores(r) == /\ restored' = r.file
               /\ unpicked' = (unpicked \/ r.file # picked)

(* Mutant of RestoreSucceeds: the dialog is closed by whatever answer.     *)
RestoreSucceedsAnyhow(r) ==
    /\ r.what = "restore"
    /\ RestoreAnswered(r)
    /\ IF Opens(r) THEN Restores(r) ELSE UNCHANGED <<restored, unpicked>>
    /\ restore' = [NoRestore EXCEPT !.show = restore.show, !.complete = TRUE]
    /\ UNCHANGED <<backupView, backup, picked, backups, restoreRush,
                   restoreErrors>>

RestoreSucceeds(r) ==
    /\ r.what = "restore"
    /\ RestoreAnswered(r)
    /\ restored = NoBackup /\ Opens(r)
    /\ Restores(r)
    /\ restore' = [NoRestore EXCEPT !.show = restore.show, !.complete = TRUE]
    /\ UNCHANGED <<backupView, backup, picked, backups, restoreRush,
                   restoreErrors>>

(* Mutant of PasswordRequired: the flag stays up. *)
PasswordRequiredBusy(r) ==
    /\ r.what = "restore"
    /\ RestoreAnswered(r)
    /\ restored = NoBackup /\ ~Opens(r)
    /\ restore' = [restore EXCEPT !.required = TRUE]
    /\ UNCHANGED <<restored, backupView, backup, restorePast, restoreRush,
                   restoreErrors>>

PasswordRequired(r) ==
    /\ r.what = "restore"
    /\ RestoreAnswered(r)
    /\ restored = NoBackup /\ ~Opens(r)
    /\ restore' = [restore EXCEPT !.required = TRUE, !.busy = FALSE]
    /\ UNCHANGED <<restored, backupView, backup, restorePast, restoreRush,
                   restoreErrors>>

(* Not a backup, lost on its way there or back, or the server has stopped. *)
RestoreFails(r) ==
    /\ r.what = "restore"
    /\ RestoreAnswered(r)
    /\ \/ restored # NoBackup /\ UNCHANGED <<restored, unpicked,
                                             restoreErrors>>
       \/ LosesRestore /\ UNCHANGED <<restored, unpicked>>
       \/ LosesRestore /\ restored = NoBackup /\ Opens(r) /\ Restores(r)
    /\ restore' = [restore EXCEPT !.busy = FALSE]
    /\ UNCHANGED <<backupView, backup, picked, backups, restoreRush>>

RestoreInit ==
    /\ restored = NoBackup
    /\ backupView = "settings"
    /\ backup = NoExport
    /\ restore = NoRestore
    /\ backupAsked = {}
    /\ picked = NoBackup
    /\ unpicked = FALSE
    /\ backups = {}
    /\ restoreRush = 0
    /\ restoreErrors = 0

RestoreNext ==
    \/ \E view \in {"settings", "tools"} : GoTo(view)
    \/ OpenBackupModal \/ TypeBackupPassword \/ CloseBackupModal
    \/ ExportBackup
    \/ OpenRestoreModal \/ HideRestoreModal \/ CancelRestore
    \/ \E file \in BackupFiles : UploadRestoreFile(file)
    \/ \E password \in Passwords : UploadWithPassword(password)
    \/ \E r \in backupAsked :
          \/ ExportArrives(r)
          \/ RestoreSucceeds(r) \/ PasswordRequired(r) \/ RestoreFails(r)

RestoreSpec == RestoreInit /\ [][RestoreNext]_restoreVars

-----------------------------------------------------------------------------
(* Properties.                                                             *)

(* Every variable has its type, and a flag is up only while its request is *)
(* under way (app.js:1413, 1466).                                          *)
RestoreTypeOK ==
    /\ restored \in AnyBackup
    /\ backupView \in {"settings", "tools"}
    /\ backup.password \in Passwords
    /\ backup.busy => \E r \in backupAsked : r.what = "export"
    /\ restore.file \in AnyBackup
    /\ restore.password \in Passwords
    /\ restore.busy => \E r \in backupAsked : r.what = "restore"
    /\ backupAsked \subseteq
          [what : {"export", "restore"}, file : AnyBackup, password : Passwords]
    /\ picked \in AnyBackup
    /\ unpicked \in BOOLEAN
    /\ backups \subseteq BOOLEAN \X BOOLEAN
    /\ restoreRush \in 0..MaxRestoreRush
    /\ restoreErrors \in 0..MaxRestoreErrors

(* The books are replaced by the backup the user picked since he opened    *)
(* the dialog, never by one of an earlier try (app.js:1418-1424), unless   *)
(* he goes on while a request is under way.                                *)
RestoredIsPicked == restoreRush = 0 => ~unpicked

(* A password is asked for a file, so that sending it does something, for  *)
(* who waits: an answer that comes after the dialog was cancelled asks for *)
(* the password of none (app.js:1445-1449).                                *)
PasswordHasFile ==
    restoreRush = 0 /\ restore.required => restore.file # NoBackup

(* The page says that the backup is in place only if it is                 *)
(* (app.js:1458).                                                          *)
CompleteIsRestored == restore.complete => restored # NoBackup

(* A backup is named as encrypted if and only if it is (app.js:1402).      *)
BackupNamed == \A b \in backups : b[1] = b[2]

(* The dialogs of the backup do what they show, also when the answer comes *)
(* after they were cancelled or opened again (app.js:1385-1465).           *)
RestoreAsShown ==
    /\ RestoredIsPicked
    /\ PasswordHasFile
    /\ CompleteIsRestored
    /\ BackupNamed
=============================================================================
