------------------------------- MODULE Vault -------------------------------
(***************************************************************************)
(* The encrypted index of the recordings (vault_store.rs) and the key it   *)
(* is opened with (os_key_store.rs).  Every operation opens the vault      *)
(* first, which may create its schema, migrate schema 1 to 2 behind a      *)
(* backup of the file, or retire that backup in a later launch.  A         *)
(* transaction is one step; the program may stop between any two.          *)
(***************************************************************************)
EXTENDS Naturals, FiniteSets

CONSTANTS
    Ids,            \* recordings
    Callers,        \* threads that ask for the key
    MaxRepairRows,  \* MAX_LEGACY_DELETE_REPAIR_ROWS
    MaxVaultCalls, MaxVaultFaults, MaxLaunches   \* bounds

ASSUME VaultConstants ==
    /\ IsFiniteSet(Ids)
    /\ {MaxRepairRows, MaxVaultCalls, MaxVaultFaults, MaxLaunches} \subseteq Nat
    \* the marks of NoVault, TornVault and OldKey
    /\ Ids \cap {"no file", "half a copy"} = {} /\ "old" \notin Callers

VARIABLES
    vault,      \* schema (0: no table yet), rows and the migration receipt
    backup,     \* the file beside it: its rows, or NoVault
    partial,    \* the copy being made: NoVault, TornVault or its rows
    dirs,       \* recordings on disk
    intents,    \* deletions whose metadata is still pending
    launch,     \* launch_id of this process
    call,       \* the operation in progress
    indexed,    \* ghost: recordings whose row must be there
    forgotten,  \* ghost: recordings whose deletion was confirmed
    vaultCalls, vaultFaults

vaultVars == <<vault, backup, partial, dirs, intents, launch, call, indexed, forgotten,
               vaultCalls, vaultFaults>>
ghosts == <<indexed, forgotten>>

\* A file is the set of its rows; these stand for none and for half a copy.
NoVault == {"no file"}
TornVault == {"half a copy"}
NoReceipt == [launch |-> 0, count |-> 0, state |-> "none"]
NoCall == [op |-> "none", id |-> "none", pc |-> "idle", retire |-> FALSE, repair |-> FALSE,
           error |-> "none"]

Rows == vault.rows
Receipt == vault.receipt
Goes(pc) == call' = [call EXCEPT !.pc = pc]
Fails(code) == call' = [call EXCEPT !.pc = "idle", !.op = "none", !.error = code]
VaultFault == vaultFaults < MaxVaultFaults /\ vaultFaults' = vaultFaults + 1

\* open_os_key_connection, then what the caller came for.
Call(op, r) ==
    /\ call.op = "none" /\ vaultCalls < MaxVaultCalls
    /\ op = "index" => r \in dirs
    /\ op = "delete" => r \notin dirs /\ r \in intents
    /\ call' = [NoCall EXCEPT !.op = op, !.id = r, !.pc = "detect"]
    /\ vaultCalls' = vaultCalls + 1
    /\ UNCHANGED <<vault, backup, partial, dirs, intents, launch, ghosts, vaultFaults>>

\* delete_recording_index: there is no row to delete while there is no vault
\* file.  (Schema 0 is no file, or one without tables.)
NotCreated(r) ==
    /\ call.op = "none" /\ r \in intents \ dirs /\ vault.schema = 0
    /\ call' = NoCall /\ forgotten' = forgotten \cup {r}
    /\ UNCHANGED <<vault, backup, partial, dirs, intents, launch, indexed, vaultCalls, vaultFaults>>

\* detect_schema_version
Detect ==
    /\ call.pc = "detect"
    /\ Goes(CASE vault.schema = 0 -> "create"
              [] vault.schema = 1 -> "backup"
              [] OTHER -> "reconcile")
    /\ UNCHANGED <<vault, backup, partial, dirs, intents, launch, ghosts, vaultCalls, vaultFaults>>

\* create_current_schema: one transaction.
Create ==
    /\ call.pc = "create"
    /\ \/ vault' = [vault EXCEPT !.schema = 2] /\ Goes("opened") /\ UNCHANGED vaultFaults
       \/ Fails("create") /\ VaultFault /\ UNCHANGED vault
    /\ UNCHANGED <<backup, partial, dirs, intents, launch, ghosts, vaultCalls>>

---------------------------------------------------------------------------
(* The migration: migrate_v1_to_v2.                                        *)

\* files_match: the length, then the digest.
FilesMatch(file) == file = Rows

\* Mutant of StartBackup: the backup is left out.
StartBackupSkipped ==
    /\ call.pc = "backup" /\ Goes("migrate")
    /\ UNCHANGED <<vault, backup, partial, dirs, intents, launch, ghosts, vaultCalls, vaultFaults>>

\* create_durable_verified_backup.  A backup of another vault is a conflict.
StartBackup ==
    /\ call.pc = "backup"
    /\ IF backup # NoVault
       THEN (IF FilesMatch(backup) THEN Goes("migrate") ELSE Fails("conflict")) /\ UNCHANGED partial
       ELSE partial' = TornVault /\ Goes("copy")
    /\ UNCHANGED <<vault, backup, dirs, intents, launch, ghosts, vaultCalls, vaultFaults>>

CopyBackup ==
    /\ call.pc = "copy"
    /\ \/ partial' = Rows /\ Goes("verify") /\ UNCHANGED vaultFaults
       \/ Fails("copy") /\ VaultFault /\ UNCHANGED partial
    /\ UNCHANGED <<vault, backup, dirs, intents, launch, ghosts, vaultCalls>>

\* Verified before it is given its name.
NameBackup ==
    /\ call.pc = "verify"
    /\ \/ /\ FilesMatch(partial) /\ backup' = partial /\ partial' = NoVault /\ Goes("migrate")
          /\ UNCHANGED vaultFaults
       \/ Fails("rename") /\ VaultFault /\ UNCHANGED <<backup, partial>>
    /\ UNCHANGED <<vault, dirs, intents, launch, ghosts, vaultCalls>>

\* Mutant of Migrate: the tables are made anew.
MigrateEmptied ==
    /\ call.pc = "migrate"
    /\ vault' = [schema |-> 2, rows |-> {}, receipt |-> [launch |-> launch, count |-> 0, state |-> "retained"]]
    /\ Goes("opened")
    /\ UNCHANGED <<backup, partial, dirs, intents, launch, ghosts, vaultCalls, vaultFaults>>

\* The receipt and the version, in one transaction; rolled back on an error.
Migrate ==
    /\ call.pc = "migrate"
    /\ \/ /\ vault' = [schema |-> 2, rows |-> Rows,
                       receipt |-> [launch |-> launch, count |-> Cardinality(Rows), state |-> "retained"]]
          /\ Goes("opened") /\ UNCHANGED vaultFaults
       \/ Fails("migrate") /\ VaultFault /\ UNCHANGED vault
    /\ UNCHANGED <<backup, partial, dirs, intents, launch, ghosts, vaultCalls>>

---------------------------------------------------------------------------
(* reconcile_retained_backup: with retire, before a row is deleted.        *)

After == IF call.retire THEN "body" ELSE "opened"

\* legacy_deleted_recording_artifacts_absent
ArtifactsAbsent(r) == r \notin dirs /\ r \notin intents

\* The rows and the recordings show one deletion by an earlier version, which
\* left the count of the receipt as it was.
OneDeletedEarlier ==
    /\ backup # NoVault /\ Cardinality(backup) = Receipt.count /\ Receipt.count <= MaxRepairRows
    /\ Rows \subseteq backup /\ Cardinality(backup) = Cardinality(Rows) + 1
    /\ Rows \subseteq dirs
    /\ \A r \in backup \ Rows : ArtifactsAbsent(r)

\* Mutant of RepairCandidate: a removal that had begun is not considered.
RepairRetainedOnly ==
    ~call.retire /\ Receipt.state = "retained" /\ OneDeletedEarlier

\* legacy_delete_repair_candidate
RepairCandidate ==
    ~call.retire /\ Receipt.state \in {"retained", "verified-pending-removal"} /\ OneDeletedEarlier

\* Mutant of Reconcile: any later operation retires the backup.
ReconcileAtOnce ==
    /\ call.pc = "reconcile"
    /\ IF Receipt = NoReceipt \/ Receipt.state = "confirmed-removed" THEN Goes(After) ELSE Goes("pending")
    /\ UNCHANGED <<vault, backup, partial, dirs, intents, launch, ghosts, vaultCalls, vaultFaults>>

Reconcile ==
    /\ call.pc = "reconcile"
    /\ \/ Receipt = NoReceipt /\ Goes(After) /\ UNCHANGED <<vault, backup, vaultFaults>>
       \/ /\ Receipt.state = "confirmed-removed" /\ UNCHANGED vault
          /\ \/ Goes(After) /\ backup' = (IF call.retire THEN NoVault ELSE backup) /\ UNCHANGED vaultFaults
             \/ /\ call.retire /\ backup # NoVault /\ Fails("backup-delete") /\ VaultFault
                /\ UNCHANGED backup
       \/ /\ Receipt.state \notin {"none", "confirmed-removed"} /\ UNCHANGED <<backup, vaultFaults>>
          /\ IF Cardinality(Rows) < Receipt.count
             THEN IF RepairCandidate
                  THEN /\ vault' = [vault EXCEPT !.receipt.count = Cardinality(Rows),
                                                 !.receipt.state = "repair-pending"]
                       /\ call' = [call EXCEPT !.repair = TRUE, !.pc = "pending"]
                  ELSE Fails("lost-records") /\ UNCHANGED vault
             ELSE /\ UNCHANGED vault
                  /\ IF Receipt.launch = launch /\ ~call.retire /\ Receipt.state # "repair-pending"
                     THEN Goes("opened")
                     ELSE call' = [call EXCEPT !.repair = Receipt.state = "repair-pending", !.pc = "pending"]
    /\ UNCHANGED <<partial, dirs, intents, launch, ghosts, vaultCalls>>

Must == call.retire \/ call.repair
Confirmed == [vault EXCEPT !.receipt.state = "confirmed-removed"]

\* A backup that is missing is noted only when it must be gone.
MarkPending ==
    /\ call.pc = "pending"
    /\ IF backup = NoVault
       THEN vault' = (IF Must THEN Confirmed ELSE vault) /\ Goes(After)
       ELSE /\ vault' = IF call.repair THEN vault
                        ELSE [vault EXCEPT !.receipt.state = "verified-pending-removal"]
            /\ Goes("remove")
    /\ UNCHANGED <<backup, partial, dirs, intents, launch, ghosts, vaultCalls, vaultFaults>>

\* Mutant of RemoveVaultBackup: a file that cannot be removed is left.
RemoveVaultBackupOptional ==
    /\ call.pc = "remove"
    /\ \/ backup' = NoVault /\ Goes("confirm") /\ UNCHANGED vaultFaults
       \/ VaultFault /\ UNCHANGED backup /\ Goes(After)
    /\ UNCHANGED <<vault, partial, dirs, intents, launch, ghosts, vaultCalls>>

\* A file that cannot be removed matters only when it must be gone.
RemoveVaultBackup ==
    /\ call.pc = "remove"
    /\ \/ backup' = NoVault /\ Goes("confirm") /\ UNCHANGED vaultFaults
       \/ /\ VaultFault /\ UNCHANGED backup
          /\ IF Must THEN Fails("backup-delete") ELSE Goes(After)
    /\ UNCHANGED <<vault, partial, dirs, intents, launch, ghosts, vaultCalls>>

Confirm ==
    /\ call.pc = "confirm" /\ vault' = Confirmed /\ Goes(After)
    /\ UNCHANGED <<backup, partial, dirs, intents, launch, ghosts, vaultCalls, vaultFaults>>

---------------------------------------------------------------------------
(* The vault is open.                                                      *)

\* The delete asks for the backup to be retired first.
Opened ==
    /\ call.pc = "opened"
    /\ call' = IF call.op = "delete" THEN [call EXCEPT !.retire = TRUE, !.pc = "reconcile"]
               ELSE [call EXCEPT !.pc = "body"]
    /\ UNCHANGED <<vault, backup, partial, dirs, intents, launch, ghosts, vaultCalls, vaultFaults>>

\* vault.openLocal, recording.index.status
Read ==
    /\ call.pc = "body" /\ call.op = "open" /\ call' = NoCall
    /\ UNCHANGED <<vault, backup, partial, dirs, intents, launch, ghosts, vaultCalls, vaultFaults>>

\* index_recording_summary
Index ==
    /\ call.pc = "body" /\ call.op = "index"
    /\ \/ /\ vault' = [vault EXCEPT !.rows = @ \cup {call.id}] /\ call' = NoCall
          /\ indexed' = indexed \cup {call.id} /\ forgotten' = forgotten \ {call.id}
          /\ UNCHANGED vaultFaults
       \/ Fails("write") /\ VaultFault /\ UNCHANGED <<vault, ghosts>>
    /\ UNCHANGED <<backup, partial, dirs, intents, launch, vaultCalls>>

\* delete_recording_index_from_opened_vault: the row and the count of the
\* receipt, in one transaction.
DeleteRow ==
    /\ call.pc = "body" /\ call.op = "delete"
    /\ \/ /\ vault' = [vault EXCEPT !.rows = @ \ {call.id},
                         !.receipt.count = IF Receipt = NoReceipt THEN 0
                                           ELSE Cardinality(Rows \ {call.id})]
          /\ call' = NoCall
          /\ indexed' = indexed \ {call.id} /\ forgotten' = forgotten \cup {call.id}
          /\ UNCHANGED vaultFaults
       \/ Fails("delete") /\ VaultFault /\ UNCHANGED <<vault, ghosts>>
    /\ UNCHANGED <<backup, partial, dirs, intents, launch, vaultCalls>>

---------------------------------------------------------------------------
(* Around the vault.                                                       *)

\* A recording is deleted: its directory is gone and its metadata pending
\* until its row is (finalize_deletion_result).
DeleteRecording(r) ==
    /\ call.op = "none" /\ r \in dirs
    /\ dirs' = dirs \ {r} /\ intents' = intents \cup {r}
    /\ UNCHANGED <<vault, backup, partial, launch, call, ghosts, vaultCalls, vaultFaults>>

CompleteMetadata(r) ==
    /\ call.op = "none" /\ r \in intents /\ r \in forgotten
    /\ intents' = intents \ {r}
    /\ UNCHANGED <<vault, backup, partial, dirs, launch, call, ghosts, vaultCalls, vaultFaults>>

\* The process ends, at any point, and is started again.
Relaunch ==
    /\ launch < MaxLaunches /\ launch' = launch + 1 /\ call' = NoCall
    /\ UNCHANGED <<vault, backup, partial, dirs, intents, ghosts, vaultCalls, vaultFaults>>

\* No vault; one of schema 1; or one that an earlier version migrated, then
\* added rows to and deleted rows of without a word in the receipt.
VaultInit ==
    /\ partial = NoVault /\ intents = {} /\ launch = 1 /\ call = NoCall
    /\ forgotten = {} /\ vaultCalls = 0 /\ vaultFaults = 0
    /\ \/ /\ vault = [schema |-> 0, rows |-> {}, receipt |-> NoReceipt]
          /\ backup = NoVault /\ dirs = Ids /\ indexed = {}
       \/ \E rows \in SUBSET Ids :
            /\ vault = [schema |-> 1, rows |-> rows, receipt |-> NoReceipt]
            /\ backup = NoVault /\ dirs = Ids /\ indexed = rows
       \/ \E rows, migrated, kept \in SUBSET Ids, state \in {"retained", "verified-pending-removal"} :
            /\ vault = [schema |-> 2, rows |-> rows,
                        receipt |-> [launch |-> 0, count |-> Cardinality(migrated), state |-> state]]
            /\ backup = migrated \/ (backup = NoVault /\ state = "verified-pending-removal")
            /\ dirs = rows \cup kept /\ indexed = rows

VaultNext ==
    \/ \E op \in {"open", "index", "delete"}, r \in Ids : Call(op, r)
    \/ Detect \/ Create
    \/ StartBackup \/ CopyBackup \/ NameBackup \/ Migrate
    \/ Reconcile \/ MarkPending \/ RemoveVaultBackup \/ Confirm
    \/ Opened \/ Read \/ Index \/ DeleteRow
    \/ \E r \in Ids : NotCreated(r) \/ DeleteRecording(r) \/ CompleteMetadata(r)
    \/ Relaunch

---------------------------------------------------------------------------
(* The key: get_or_create_key, called by several threads.                  *)

VARIABLES
    backend,    \* the key store: "dpapi", or the "keyring" of the platform
    key,        \* what is stored: NoKey, OldKey, or a key named after its maker
    keyHeld,    \* the key each caller was given
    keyPc       \* where each caller is

keyVars == <<backend, key, keyHeld, keyPc>>

NoKey == "none"
OldKey == "old"     \* from an earlier launch

KeyInit ==
    /\ backend \in {"dpapi", "keyring"} /\ key \in {NoKey, OldKey}
    /\ keyHeld = [c \in Callers |-> NoKey] /\ keyPc = [c \in Callers |-> "start"]

Holds(c) == keyPc[c] \in {"look", "write"}

\* Mutant of KeyEnter: the guard is taken by the write only.
KeyEnterUnlocked(c) ==
    /\ keyPc[c] = "start"
    /\ keyPc' = [keyPc EXCEPT ![c] = "look"] /\ UNCHANGED <<backend, key, keyHeld>>

\* key_store_guard, which the keyring store does without.
KeyEnter(c) ==
    /\ keyPc[c] = "start"
    /\ backend = "dpapi" => \A d \in Callers : ~Holds(d)
    /\ keyPc' = [keyPc EXCEPT ![c] = "look"] /\ UNCHANGED <<backend, key, keyHeld>>

\* The stored key, or one to be made.
KeyLook(c) ==
    /\ keyPc[c] = "look"
    /\ IF key # NoKey
       THEN keyHeld' = [keyHeld EXCEPT ![c] = key] /\ keyPc' = [keyPc EXCEPT ![c] = "done"]
       ELSE keyPc' = [keyPc EXCEPT ![c] = "write"] /\ UNCHANGED keyHeld
    /\ UNCHANGED <<backend, key>>

\* The write of the new key may fail: the caller gets none.
KeyWrite(c) ==
    /\ keyPc[c] = "write"
    /\ \/ key' = c /\ keyHeld' = [keyHeld EXCEPT ![c] = c]
       \/ UNCHANGED <<key, keyHeld>>
    /\ keyPc' = [keyPc EXCEPT ![c] = "done"] /\ UNCHANGED backend

\* A later call of the same thread.
KeyAgain(c) ==
    /\ keyPc[c] = "done" /\ keyPc' = [keyPc EXCEPT ![c] = "start"] /\ UNCHANGED <<backend, key, keyHeld>>

KeyNext == \E c \in Callers : KeyEnter(c) \/ KeyLook(c) \/ KeyWrite(c) \/ KeyAgain(c)

\* The vault and the key it is opened with, side by side.
VaultKeyNext == (VaultNext /\ UNCHANGED keyVars) \/ (KeyNext /\ UNCHANGED vaultVars)
VaultSpec == VaultInit /\ KeyInit /\ [][VaultKeyNext]_<<vaultVars, keyVars>>

---------------------------------------------------------------------------
(* Properties.                                                             *)

\* Every row that was written or migrated is there until its deletion: no
\* stop, failed migration or repair loses one.
IndexKept == indexed \subseteq Rows

\* Once a deletion is confirmed, the recording is named neither by the vault
\* nor by a copy of the vault kept from before the migration.
ForgottenEverywhere ==
    \A r \in forgotten :
        r \notin Rows /\ (backup # NoVault => r \notin backup) /\ partial = NoVault

\* The launch that migrated keeps the old vault, whole, unless a deletion
\* asks for it to be retired.
MigrationUndoable ==
    (Receipt.launch = launch /\ Receipt.state = "retained")
        => backup # NoVault /\ Cardinality(backup) = Receipt.count

\* The backup is not retired in the launch that made it, but for a deletion.
RetiredLater ==
    (Receipt.launch = launch /\ Receipt.state \in {"verified-pending-removal", "confirmed-removed"})
        => forgotten \cup intents # {}

\* The vault refuses to open, for records it believes lost, only where an
\* earlier version migrated it and deleted rows of it, and they are more than
\* one deletion explains: what this version migrates and deletes, with stops
\* and faults at any point, it opens again.
NeverLockedOut ==
    call.error = "lost-records" => Receipt.state # "none" /\ Receipt.launch = 0 /\ ~OneDeletedEarlier

\* Every key a thread was given is the stored one, so what it encrypts can be
\* read again.  On a keyring this needs a key that was there before: two
\* threads that both find none may each keep their own.
OneKey ==
    backend = "dpapi" \/ key = OldKey => \A c \in Callers : keyHeld[c] # NoKey => keyHeld[c] = key

\* The promise of the vault across launches, migrations and deletions: rows
\* are kept, deleted ones are in no copy, the migration can be undone and its
\* copy is retired later, the vault stays open to what it did itself, and with
\* one key.
VaultSound ==
    /\ IndexKept /\ ForgottenEverywhere /\ MigrationUndoable /\ RetiredLater
    /\ NeverLockedOut /\ OneKey
=============================================================================
