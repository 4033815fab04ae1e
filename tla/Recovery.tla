------------------------------ MODULE Recovery ------------------------------
(***************************************************************************)
(* create_backup, verify_backup and restore_backup.  The database is copied *)
(* first and the file roots after it, and the system goes on unless the     *)
(* operator pauses it, as docs/recovery.md asks.  Some writers publish a    *)
(* page before they commit the row that names it (create_user_judgment),    *)
(* others commit the row and write its file afterwards (the receipts of     *)
(* research, handoff and reflection jobs).  The bundle appears by renaming  *)
(* a staging directory; a restore copies its artifacts into an empty target *)
(* and writes its receipt last.                                             *)
(***************************************************************************)
EXTENDS Naturals, FiniteSets

CONSTANTS
  Pages,       \* immutable files of the roots
  RowFirst,    \* those that are written after their row
  Nothing      \* no bundle, no receipt

\* What a bundle's manifest seals, the damage to it since, and two fields kept for the
\* properties: whether the system stayed paused while it was taken, and the files that
\* the system's own rows were waiting for when the database was copied.
Bundles == [db : SUBSET Pages, root : SUBSET Pages, spoiled : SUBSET Pages,
            quiet : BOOLEAN, owed : SUBSET Pages]

ASSUME RowFirstFiles == RowFirst \subseteq Pages
ASSUME NothingIsNoBundle == Nothing \notin Bundles

VARIABLES
  paused,      \* API and worker are stopped
  files,       \* the pages in the live root
  rows,        \* the pages that committed database rows name
  backup,      \* the create_backup under way: rows copied, pages listed and copied
  bundle,      \* the published bundle
  target       \* the restore target, and the step of the restore that fills it

recoveryVars == <<paused, files, rows, backup, bundle, target>>
liveVars == <<paused, files, rows>>

NoBackup == [step |-> "idle", db |-> {}, listed |-> {}, root |-> {}, quiet |-> FALSE, owed |-> {}]
EmptyTarget == [step |-> "empty", copied |-> {}, spoiled |-> {}, receipt |-> Nothing]

RecoveryInit ==
  /\ paused = FALSE /\ files = {} /\ rows = {} /\ backup = NoBackup /\ bundle = Nothing
  /\ target = EmptyTarget

-----------------------------------------------------------------------------
(* The live system.                                                        *)

\* create_user_judgment links the page, then commits its row or takes the page back.
LinkPage(p) == p \in Pages \ (RowFirst \cup files) /\ files' = files \cup {p} /\ UNCHANGED rows
CommitRow(p) == p \in files \ rows /\ rows' = rows \cup {p} /\ UNCHANGED files
TakeBack(p) == p \in files \ rows /\ files' = files \ {p} /\ UNCHANGED rows

\* finalize_research_run commits the row, then writes the file, unless it dies first.
CommitFirst(p) == p \in RowFirst \ rows /\ rows' = rows \cup {p} /\ UNCHANGED files
WriteAfter(p) == p \in (RowFirst \cap rows) \ files /\ files' = files \cup {p} /\ UNCHANGED rows

LiveStep ==
  /\ ~paused
  /\ \E p \in Pages : LinkPage(p) \/ CommitRow(p) \/ TakeBack(p) \/ CommitFirst(p) \/ WriteAfter(p)
  /\ UNCHANGED <<paused, backup, bundle, target>>

\* The operator stops API and worker, and starts them again.
Pause ==
  /\ ~paused /\ paused' = TRUE
  /\ UNCHANGED <<files, rows, backup, bundle, target>>
Unpause ==
  /\ paused /\ paused' = FALSE
  /\ backup' = [backup EXCEPT !.quiet = FALSE]
  /\ UNCHANGED <<files, rows, bundle, target>>

-----------------------------------------------------------------------------
(* create_backup.                                                          *)

\* _online_sqlite_backup of the database into the staging directory.
CopyDatabase ==
  /\ backup.step = "idle" /\ bundle = Nothing
  /\ backup' = [NoBackup EXCEPT !.step = "list", !.db = rows, !.quiet = paused,
                                !.owed = rows \ files]

\* _copy_root_tree lists the directory in one go ...
ListRoot ==
  /\ backup.step = "list"
  /\ backup' = [backup EXCEPT !.step = "copy", !.listed = files]

\* ... and copies one file after another; one that is gone fails the backup.
CopyFile(p) ==
  /\ backup.step = "copy" /\ p \in backup.listed \ backup.root
  /\ backup' = IF p \in files THEN [backup EXCEPT !.root = @ \cup {p}] ELSE NoBackup

\* The manifest is written and the staging directory renamed.
PublishBundle ==
  /\ backup.step = "copy" /\ backup.root = backup.listed
  /\ bundle' = [db |-> backup.db, root |-> backup.root, spoiled |-> {},
                quiet |-> backup.quiet, owed |-> backup.owed]
  /\ backup' = NoBackup

\* A killed backup leaves a staging directory that no command looks at.
KillBackup == backup.step # "idle" /\ backup' = NoBackup

BackupStep ==
  /\ \/ (CopyDatabase \/ ListRoot \/ KillBackup \/ \E p \in Pages : CopyFile(p)) /\ UNCHANGED bundle
     \/ PublishBundle
  /\ UNCHANGED <<liveVars, target>>

\* Anything that changes a file of the bundle after it was written.
SpoilBundle(p) ==
  /\ bundle # Nothing /\ p \in bundle.root
  /\ bundle' = [bundle EXCEPT !.spoiled = @ \cup {p}]
  /\ UNCHANGED <<liveVars, backup, target>>

-----------------------------------------------------------------------------
(* verify_backup and restore_backup.                                       *)

VerifyBackup == bundle # Nothing /\ bundle.spoiled = {}

\* _prepare_empty_restore_target: a restore that failed leaves its target used.
RestoreStart ==
  /\ VerifyBackup /\ target.step = "empty"
  /\ target' = [target EXCEPT !.step = "copy"]

\* A copy that trusts the verification before it.
CopyVerifiedAny(p) == TRUE
\* _copy_verified_file: size and hash of the copy are the manifest's.
CopyVerified(p) == p \notin bundle.spoiled

RestoreFile(p) ==
  /\ target.step = "copy" /\ p \in bundle.root \ target.copied
  /\ target' = IF CopyVerified(p)
               THEN [target EXCEPT !.copied = @ \cup {p}, !.spoiled = @ \cup (bundle.spoiled \cap {p})]
               ELSE [target EXCEPT !.step = "failed"]

\* upgrade_database, the row counts, the list of restored files and the receipt.
RestoreReceipt ==
  /\ target.step = "copy" /\ target.copied = bundle.root
  /\ target' = [target EXCEPT !.step = "done", !.receipt = [db |-> bundle.db, root |-> target.copied]]

KillRestore == target.step = "copy" /\ target' = [target EXCEPT !.step = "failed"]

RestoreStep ==
  /\ RestoreStart \/ RestoreReceipt \/ KillRestore \/ \E p \in Pages : RestoreFile(p)
  /\ UNCHANGED <<liveVars, backup, bundle>>

RecoveryStep ==
  LiveStep \/ Pause \/ Unpause \/ BackupStep \/ RestoreStep \/ \E p \in Pages : SpoilBundle(p)

RecoverySpec == RecoveryInit /\ [][RecoveryStep]_recoveryVars
-----------------------------------------------------------------------------
RecoveryTypeOK ==
  /\ paused \in BOOLEAN /\ files \subseteq Pages /\ rows \subseteq files \cup RowFirst
  /\ backup.step \in {"idle", "list", "copy"}
  /\ backup.db \cup backup.listed \cup backup.root \subseteq Pages
  /\ bundle # Nothing => bundle \in Bundles
  /\ target.step \in {"empty", "copy", "failed", "done"}
  /\ target.copied \cup target.spoiled \subseteq Pages

\* The rows of a bundle whose files it does not have.
Missing(b) == b.db \ b.root

\* Database and files are copied one after the other.  A bundle taken while the
\* system writes still holds every page that was published before its row, and one
\* taken while the system is paused lacks a file only if the system itself lacked it
\* ("For one application-consistent recovery point across both databases and file
\* roots, pause new API work and stop the worker", docs/recovery.md:73-76).  A target
\* with a receipt is the bundle, byte for byte, although the bundle may be damaged
\* while it is restored (create_backup, restore_backup).
RestoredNamesFiles ==
  /\ bundle # Nothing =>
       /\ Missing(bundle) \subseteq RowFirst
       /\ bundle.quiet => Missing(bundle) \subseteq bundle.owed
  /\ target.receipt # Nothing =>
       /\ target.receipt = [db |-> bundle.db, root |-> bundle.root]
       /\ target.spoiled = {}
=============================================================================
