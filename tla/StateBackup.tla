---------------------------- MODULE StateBackup -----------------------------
(***************************************************************************)
(* The recovery copy of the database on the NAS (app/state_backup.py). Its *)
(* stored credentials are encrypted, so the copy is worth something only   *)
(* beside the key it was written under. A snapshot reads the key, stages   *)
(* the database in memory, copies it to a temporary file on the NAS and    *)
(* publishes key and database by two renames. Meanwhile the NAS may go     *)
(* away, the program may crash, and the operator may bring another card,   *)
(* with another key, which is never published over an older recovery copy. *)
(* A database is its key and its version.                                  *)
(***************************************************************************)
EXTENDS Naturals

CONSTANTS
  SecretKeys,   \* keys of the app's data directories
  NoSecret,     \* the NAS has none
  MaxDbEdits,     \* changes to the database
  MaxLosses     \* bound on crashes, lost mounts and new cards

ASSUME BackupAssumption ==
  /\ NoSecret \notin SecretKeys
  /\ MaxDbEdits \in Nat /\ MaxLosses \in Nat

VARIABLES
  card,    \* the data directory: its key, and the database with the key of its credentials
  copy,    \* .drift/state on the NAS: the key, the database
  snap,    \* the snapshot: its step, the key it has read, the staged database
  share,   \* is the NAS mounted?
  losses

backupVars == <<card, copy, snap, share, losses>>

Database == [key : SecretKeys, version : 0..MaxDbEdits]
Blank == [key |-> NoSecret, version |-> 0]
NoSnapshot == [pc |-> "idle", key |-> NoSecret, staged |-> Blank]

BackupTypeOK ==
  /\ card \in [key : SecretKeys, db : Database]
  /\ copy \in [key : SecretKeys \cup {NoSecret}, db : Database \cup {Blank}]
  /\ snap \in [pc : {"idle", "stages", "publishes", "copies", "rechecks", "keys", "replaces"},
               key : SecretKeys \cup {NoSecret}, staged : Database \cup {Blank}]
  /\ share \in BOOLEAN /\ losses \in 0..MaxLosses

BackupInit ==
  /\ \E k \in SecretKeys : card = [key |-> k, db |-> [key |-> k, version |-> 0]]
  /\ copy = [key |-> NoSecret, db |-> Blank] /\ snap = NoSnapshot /\ share = TRUE /\ losses = 0

-----------------------------------------------------------------------------
(* One snapshot; the lock admits one at a time *)

ReadKey ==
  /\ snap.pc = "idle" /\ share
  /\ snap' = [snap EXCEPT !.pc = "stages", !.key = card.key]
  /\ UNCHANGED <<card, copy, share, losses>>

\* _sqlite_snapshot: the committed rows, into memory.
Stage ==
  /\ snap.pc = "stages"
  /\ snap' = [snap EXCEPT !.pc = "publishes", !.staged = card.db]
  /\ UNCHANGED <<card, copy, share, losses>>

SameKey == card.key = snap.key

\* "Never replace the old key and leave the previous good DB undecryptable."
KeyAgrees_Any == TRUE
KeyAgrees == copy.key \in {NoSecret, snap.key}

Admit ==
  /\ snap.pc = "publishes" /\ SameKey /\ share /\ KeyAgrees
  /\ snap' = [snap EXCEPT !.pc = "copies"]
  /\ UNCHANGED <<card, copy, share, losses>>

CopyDatabase ==
  /\ snap.pc = "copies" /\ share
  /\ snap' = [snap EXCEPT !.pc = "rechecks"]
  /\ UNCHANGED <<card, copy, share, losses>>

Recheck ==
  /\ snap.pc = "rechecks" /\ SameKey /\ share
  /\ snap' = [snap EXCEPT !.pc = "keys"]
  /\ UNCHANGED <<card, copy, share, losses>>

PublishKey ==
  /\ snap.pc = "keys" /\ share
  /\ copy' = [copy EXCEPT !.key = IF @ = NoSecret THEN snap.key ELSE @]
  /\ snap' = [snap EXCEPT !.pc = "replaces"]
  /\ UNCHANGED <<card, share, losses>>

PublishDatabase ==
  /\ snap.pc = "replaces" /\ share
  /\ copy' = [copy EXCEPT !.db = snap.staged]
  /\ snap' = NoSnapshot
  /\ UNCHANGED <<card, share, losses>>

\* Any step may fail; the temporary files are removed.
BackupFails ==
  /\ snap.pc # "idle" /\ snap' = NoSnapshot
  /\ UNCHANGED <<card, copy, share, losses>>

-----------------------------------------------------------------------------
(* The app and the operator *)

Edit ==
  /\ card.db.version < MaxDbEdits /\ card' = [card EXCEPT !.db.version = @ + 1]
  /\ UNCHANGED <<copy, snap, share, losses>>

Loss == losses < MaxLosses /\ losses' = losses + 1

\* Another data directory in place of this one: with the program stopped, or under a snapshot that
\* runs, where the key it has read does not come back.
ReplaceCard(k) ==
  /\ Loss /\ card' = [key |-> k, db |-> [key |-> k, version |-> 0]]
  /\ \/ snap' = NoSnapshot
     \/ k # snap.key /\ snap' = snap
  /\ UNCHANGED <<copy, share>>

\* The recovery that the copy is for.
Restore ==
  /\ copy.db # Blank /\ Loss
  /\ card' = copy /\ snap' = NoSnapshot
  /\ UNCHANGED <<copy, share>>

LoseShare == share /\ Loss /\ share' = FALSE /\ UNCHANGED <<card, copy, snap>>
RegainShare == ~share /\ share' = TRUE /\ UNCHANGED <<card, copy, snap, losses>>

BackupCrash == snap.pc # "idle" /\ Loss /\ snap' = NoSnapshot /\ UNCHANGED <<card, copy, share>>

BackupNext ==
  \/ ReadKey \/ Stage \/ Admit \/ CopyDatabase \/ Recheck \/ PublishKey \/ PublishDatabase
  \/ BackupFails \/ Edit \/ Restore \/ LoseShare \/ RegainShare \/ BackupCrash
  \/ \E k \in SecretKeys : ReplaceCard(k)

BackupSpec == BackupInit /\ [][BackupNext]_backupVars

-----------------------------------------------------------------------------
(* Properties *)

\* At every moment, also between the two renames, after a crash, a lost NAS or a changed key, the
\* database on the NAS opens with the key that lies beside it.
RecoveryCopyOpens == copy.db # Blank => copy.key = copy.db.key
=============================================================================
