------------------------------ MODULE Snapshot ------------------------------
(***************************************************************************)
(* Backup and restore of a controller (tools/backup_lib.py, backup.py,     *)
(* restore.py): a backup copies the database and then the key files, one   *)
(* by one, under a controller that runs; a restore verifies the archive    *)
(* and then copies them back, one by one, over whatever the box holds.     *)
(***************************************************************************)
EXTENDS Naturals, Sequences

CONSTANTS MaxVersions,   \* bound: writes of the database and reissues
          MaxRestores,   \* bound: restores begun
          MaxHarm        \* bound: damaged archives and killed programs

ASSUME SnapshotBounds == {MaxVersions, MaxRestores, MaxHarm} \subseteq Nat

VARIABLES box,        \* what each file of the controller holds
          log,        \* the database sysible.db-wal belongs to
          power,      \* "up", "stopped", or "refused" to start
          reissue,    \* the key a reissue has written before its certificate
          backup,     \* the backup under way
          archive,    \* the archive on the shelf
          restoring,  \* the restore under way: the piece it is at
          counts,     \* the bounded events so far
          causes      \* what may keep the box from running whole

snapshotVars ==
    <<box, log, power, reissue, backup, archive, restoring, counts, causes>>

\* The order of the copies: the database, then _COMPONENTS.
Pieces == <<"db", "crt", "key", "vault">>
PieceSet == {"db", "crt", "key", "vault"}
KeyMaterial == {"key", "vault"}

\* A file: the controller it comes from (0: no file), and its version.
Absent == [of |-> 0, no |-> 0]
FreshBox(c) == [p \in PieceSet |-> [of |-> c, no |-> 0]]

NoArchive == [files |-> FreshBox(0), sound |-> FALSE, whole |-> TRUE]
NoBackup == [at |-> 0, files |-> FreshBox(0), whole |-> TRUE, sanitize |-> FALSE]

SnapshotInit ==
    /\ box = FreshBox(1) /\ log = Absent /\ power = "up" /\ reissue = Absent
    /\ backup = NoBackup /\ archive = NoArchive /\ restoring = 0
    /\ counts = [versions |-> 0, restores |-> 0, harm |-> 0]
    /\ causes = {}

Count(what, limit) ==
    /\ counts[what] < limit
    /\ counts' = [counts EXCEPT ![what] = @ + 1]

-----------------------------------------------------------------------------
(* The controller that is backed up, and the box that is restored onto.     *)

WriteDb ==
    /\ power = "up" /\ Count("versions", MaxVersions)
    /\ box' = [box EXCEPT !["db"].no = @ + 1]
    /\ UNCHANGED <<log, power, reissue, backup, archive, restoring, causes>>

\* tls_manager writes the key and then the certificate; a copy between the
\* two, or on both sides of them, has halves of two identities.
ReissueKey ==
    /\ power = "up" /\ reissue = Absent /\ Count("versions", MaxVersions)
    /\ reissue' = [of |-> 1, no |-> counts'.versions]
    /\ box' = [box EXCEPT !["key"] = reissue']
    /\ backup' = [backup EXCEPT !.whole = @ /\ backup.at = 0]
    /\ UNCHANGED <<log, power, archive, restoring, causes>>

ReissueCrt ==
    /\ power = "up" /\ reissue # Absent
    /\ box' = [box EXCEPT !["crt"] = reissue]
    /\ reissue' = Absent
    /\ UNCHANGED <<log, power, backup, archive, restoring, counts, causes>>

\* A stop folds the log into the database; a kill leaves it beside.
StopController ==
    /\ power = "up" /\ reissue = Absent /\ backup.at = 0
    /\ power' = "stopped"
    /\ \/ log' = Absent /\ UNCHANGED counts
       \/ log' = box["db"] /\ Count("harm", MaxHarm)
    /\ UNCHANGED <<box, reissue, backup, archive, restoring, causes>>

\* The disaster: another machine, installed already or with nothing on it.
NewBox ==
    /\ power # "up" /\ restoring = 0
    /\ box' \in {FreshBox(0), FreshBox(2)}
    /\ log' = Absent /\ power' = "stopped" /\ causes' = {}
    /\ UNCHANGED <<reissue, backup, archive, restoring, counts>>

\* A missing vault key is made anew; SQLite replays the log it finds; uvicorn
\* refuses a key that is not the certificate's.
StartController ==
    /\ power = "stopped" /\ restoring = 0 /\ box["db"] # Absent
    /\ box' = IF box["vault"] = Absent
              THEN [box EXCEPT !["vault"].of = 3] ELSE box
    /\ power' = IF box["key"] = box["crt"] /\ log \in {Absent, box["db"]}
                THEN "up" ELSE "refused"
    /\ log' = Absent
    /\ UNCHANGED <<reissue, backup, archive, restoring, counts, causes>>

-----------------------------------------------------------------------------
(* create_backup.  The database is copied by SQLite's online backup.        *)

BeginBackup ==
    /\ backup.at = 0 /\ power = "up" /\ causes = {}
    /\ \E sanitize \in BOOLEAN :
        backup' = [at |-> 1, files |-> FreshBox(0),
                   whole |-> reissue = Absent /\ ~sanitize, sanitize |-> sanitize]
    /\ UNCHANGED <<box, log, power, reissue, archive, restoring, counts, causes>>

MutTaken(p) == IF p = "vault" THEN Absent ELSE box[p]

\* A sanitized archive leaves the key material out.
Taken(p) == IF backup.sanitize /\ p \in KeyMaterial THEN Absent ELSE box[p]

CopyOut ==
    /\ backup.at \in 1..Len(Pieces)
    /\ LET p == Pieces[backup.at] IN
       backup' = [backup EXCEPT !.at = @ + 1, !.files[p] = Taken(p)]
    /\ UNCHANGED <<box, log, power, reissue, archive, restoring, counts, causes>>

WriteArchive ==
    /\ backup.at = Len(Pieces) + 1
    /\ archive' = [files |-> backup.files, sound |-> TRUE, whole |-> backup.whole]
    /\ backup' = NoBackup
    /\ UNCHANGED <<box, log, power, reissue, restoring, counts, causes>>

\* A copy of the archive that is no longer what was written.
Decay ==
    /\ archive.sound /\ restoring = 0 /\ Count("harm", MaxHarm)
    /\ archive' = [archive EXCEPT !.sound = FALSE, !.files["db"].of = 3]
    /\ UNCHANGED <<box, log, power, reissue, backup, restoring, causes>>

-----------------------------------------------------------------------------
(* restore_backup, run by hand with the controller stopped.                 *)

\* Checksums and integrity first, and then the guard on the database.
Accepted(force) == archive.sound /\ (box["db"] = Absent \/ force)

BeginRestore(force) ==
    /\ power # "up" /\ restoring = 0
    /\ archive.files["db"] # Absent
    /\ Accepted(force)
    /\ Count("restores", MaxRestores)
    /\ restoring' = 1 /\ power' = "stopped"
    /\ UNCHANGED <<box, log, reissue, backup, archive, causes>>

\* The restore ends with its last piece.
Following(at) == IF at = Len(Pieces) THEN 0 ELSE at + 1

\* Only what the manifest names is written; the rest of the box stays, the
\* log of the database that was there included.
CopyBack ==
    /\ restoring \in 1..Len(Pieces)
    /\ LET p == Pieces[restoring] IN
       box' = IF archive.files[p] = Absent THEN box
              ELSE [box EXCEPT ![p] = archive.files[p]]
    /\ restoring' = Following(restoring)
    /\ causes' = IF restoring < Len(Pieces) THEN {"cut short"}
                 ELSE {c \in {"halves", "old log"} :
                         \/ c = "halves" /\ ~archive.whole
                         \/ c = "old log" /\ log # Absent}
    /\ UNCHANGED <<log, power, reissue, backup, archive, counts>>

RestoreKilled ==
    /\ restoring # 0 /\ Count("harm", MaxHarm)
    /\ restoring' = 0
    /\ UNCHANGED <<box, log, power, reissue, backup, archive, causes>>

SnapshotNext ==
    \/ WriteDb \/ ReissueKey \/ ReissueCrt
    \/ StopController \/ NewBox \/ StartController
    \/ BeginBackup \/ CopyOut \/ WriteArchive \/ Decay
    \/ \E force \in BOOLEAN : BeginRestore(force)
    \/ CopyBack \/ RestoreKilled

SnapshotSpec == SnapshotInit /\ [][SnapshotNext]_snapshotVars

-----------------------------------------------------------------------------
(* Properties                                                              *)

\* Type correctness of the files, the archive and the two commands.
SnapshotTypeOK ==
    /\ \A p \in PieceSet :
         {box[p], archive.files[p], backup.files[p]}
            \subseteq [of : 0..3, no : 0..MaxVersions]
    /\ power \in {"up", "stopped", "refused"}
    /\ backup.at \in 0..(Len(Pieces) + 1) /\ restoring \in 0..Len(Pieces)
    /\ causes \subseteq {"cut short", "halves", "old log"}

\* A controller runs, and reads its secrets, after any restore that ran to its
\* end - over an older box, a new one, or the remains of a restore that was
\* cut short - unless the archive was sanitized or a reissue overlapped its
\* making, or the log of a killed controller lay beside the database.
RestoredRunsWhole ==
    causes = {} =>
      /\ power # "refused"
      /\ power = "up" => box["vault"].of = box["db"].of

\* What a backup and a restore leave of the controller.
RestoreIsWhole == SnapshotTypeOK /\ RestoredRunsWhole
=============================================================================
