--------------------------- MODULE DocumentProofs ---------------------------
(***************************************************************************)
(* What must come through every failure whole or not at all: the vault of  *)
(* the recordings with its migration backup and its key, the dictionaries, *)
(* and the import of a media file. For all recordings, launches, packages, *)
(* edits and files.                                                        *)
(***************************************************************************)
EXTENDS Vault, Terminology, MediaImport, FiniteSetTheorems, TLAPS

-----------------------------------------------------------------------------
(* The vault and its key                                                   *)

CallPcs == {"idle", "detect", "create", "backup", "copy", "verify", "migrate", "reconcile",
            "pending", "remove", "confirm", "opened", "body"}
OpenPcs == {"reconcile", "pending", "remove", "confirm", "opened", "body"}
Errors == {"none", "create", "conflict", "copy", "rename", "migrate", "backup-delete", "write",
           "delete", "lost-records"}
ReceiptStates == {"none", "retained", "verified-pending-removal", "repair-pending",
                  "confirmed-removed"}

VaultTypeOK ==
    /\ vault \in [schema : 0..2, rows : SUBSET Ids,
                  receipt : [launch : Nat, count : Nat, state : ReceiptStates]]
    /\ backup \in (SUBSET Ids) \cup {NoVault}
    /\ partial \in (SUBSET Ids) \cup {NoVault, TornVault}
    /\ dirs \in SUBSET Ids /\ intents \in SUBSET Ids
    /\ indexed \in SUBSET Ids /\ forgotten \in SUBSET Ids
    /\ launch \in Nat \ {0}
    /\ call \in [op : {"none", "open", "index", "delete"}, id : Ids \cup {"none"}, pc : CallPcs,
                 retire : BOOLEAN, repair : BOOLEAN, error : Errors]

\* What a call knows at each of its steps.
CallInv ==
    /\ call.op = "none" <=> call.pc = "idle"
    /\ call.op = "index" => call.id \in dirs
    /\ call.op = "delete" => call.id \in intents \ dirs
    /\ call.pc = "create" => vault.schema = 0
    /\ call.pc \in {"backup", "copy", "verify", "migrate"} => vault.schema = 1
    /\ call.pc \in OpenPcs => vault.schema = 2
    /\ call.pc \in {"copy", "verify"} => backup = NoVault
    /\ call.pc = "migrate" => backup = Rows
    /\ call.retire /\ call.pc # "idle" =>
           call.op = "delete" /\ call.pc \in OpenPcs \ {"opened"}
    /\ call.op = "delete" /\ call.pc = "body" =>
           backup = NoVault /\ Receipt.state \in {"none", "confirmed-removed"}

\* ... and while it retires the backup.
RetireInv ==
    /\ call.pc \in {"pending", "remove", "confirm"} =>
           /\ Receipt.state \notin {"none", "confirmed-removed"}
           /\ Receipt.launch = launch => call.op = "delete"
    /\ call.pc = "pending" => (call.repair <=> Receipt.state = "repair-pending")
    /\ call.pc \in {"remove", "confirm"} => Receipt.state # "retained"
    /\ call.pc = "confirm" => backup = NoVault

\* The vault, the backup and the copy being made, by the schema.
SchemaInv ==
    /\ vault.schema # 2 => Receipt = NoReceipt
    /\ vault.schema = 1 => forgotten = {}
    /\ vault.schema = 0 => Rows = {} /\ backup = NoVault /\ partial = NoVault
    /\ vault.schema = 1 => backup \in {NoVault, Rows}
    /\ backup # NoVault \/ vault.schema = 2 => partial = NoVault

\* An earlier version deleted rows and left the receipt as it was.
Unrepaired ==
    /\ vault.schema = 2 /\ Receipt.launch = 0
    /\ Receipt.state \in {"retained", "verified-pending-removal"}
    /\ call.pc \in {"idle", "detect", "reconcile"}
    /\ call.pc = "reconcile" => ~call.retire

\* The receipt, and what the backup still is in each of its states.
ReceiptInv ==
    /\ Receipt.state = "none" => Receipt = NoReceipt
    /\ Receipt.launch <= launch
    /\ vault.schema = 2 /\ Receipt.state \in {"none", "confirmed-removed"} => backup = NoVault
    /\ Receipt.state = "retained" => backup # NoVault /\ Cardinality(backup) = Receipt.count
    /\ Receipt.state = "repair-pending" => Receipt.launch = 0
    /\ Cardinality(Rows) < Receipt.count => Unrepaired

\* What was deleted, and what was promised.
GhostInv ==
    /\ indexed \subseteq Rows
    /\ \A r \in forgotten : /\ r \notin Rows /\ r \notin dirs
                          /\ vault.schema # 1 /\ Receipt.state \in {"none", "confirmed-removed"}
    /\ \A r \in intents : r \notin dirs
    /\ RetiredLater

\* A vault that refused to open, and was not asked again since.
LockInv ==
    call.error = "lost-records" =>
        /\ call.pc = "idle" /\ Receipt.launch = 0
        /\ Receipt.state \in {"retained", "verified-pending-removal"} /\ ~OneDeletedEarlier

VaultInv == VaultTypeOK /\ CallInv /\ RetireInv /\ SchemaInv /\ ReceiptInv /\ GhostInv

\* One thread at a time between the look and the write, and a key is made only
\* when there is none.
KeyInv ==
    /\ keyPc \in [Callers -> {"start", "look", "write", "done"}]
    /\ key \in Callers \cup {NoKey, OldKey}
    /\ backend = "dpapi" => \A c, d \in Callers : Holds(c) /\ Holds(d) => c = d
    /\ backend = "dpapi" => \A c \in Callers : keyPc[c] = "write" => key = NoKey
    /\ key = OldKey => \A c \in Callers : keyPc[c] # "write"
    /\ keyHeld \in [Callers -> Callers \cup {NoKey, OldKey}]
    /\ OneKey

-----------------------------------------------------------------------------
(* Lemmas                                                                  *)

\* The marks are no set of recordings.
LEMMA MarksAreNoRows ==
    /\ NoVault # TornVault
    /\ \A rows \in SUBSET Ids : rows # NoVault /\ rows # TornVault
BY VaultConstants DEF NoVault, TornVault

LEMMA RowCounts ==
    ASSUME NEW rows \in SUBSET Ids
    PROVE  /\ Cardinality(rows) \in Nat /\ IsFiniteSet(rows)
           /\ Cardinality(rows) <= Cardinality(Ids)
           /\ \A r \in Ids : /\ Cardinality(rows) <= Cardinality(rows \cup {r})
                            /\ Cardinality(rows \cup {r}) \in Nat
                            /\ Cardinality(rows \ {r}) \in Nat
<1>1. IsFiniteSet(Ids)
  BY VaultConstants
<1>2. \A S \in SUBSET Ids : IsFiniteSet(S) /\ Cardinality(S) \in Nat
  BY <1>1, FS_Subset, FS_CardinalityType
<1>3. \A S, T \in SUBSET Ids : S \subseteq T => Cardinality(S) <= Cardinality(T)
  BY <1>2, FS_Subset
<1>4. Cardinality(rows) <= Cardinality(Ids)
  BY <1>3
<1>5. \A r \in Ids : rows \cup {r} \in SUBSET Ids /\ rows \ {r} \in SUBSET Ids
  OBVIOUS
<1>6. QED
  BY <1>2, <1>3, <1>4, <1>5

-----------------------------------------------------------------------------
(* The vault                                                               *)

LEMMA VaultInvInit == VaultInit => VaultInv
<1> SUFFICES ASSUME VaultInit PROVE VaultInv
  OBVIOUS
<1> USE MarksAreNoRows
<1>1. Cardinality({}) = 0 /\ Cardinality(Ids) \in Nat
  BY FS_EmptySet, RowCounts
<1>2. \A rows \in SUBSET Ids : Cardinality(rows) \in Nat
  BY RowCounts
<1>3. /\ partial = NoVault /\ intents = {} /\ launch = 1 /\ call = NoCall /\ forgotten = {}
  BY DEF VaultInit
<1>4. CallInv /\ RetireInv
  BY <1>3 DEF CallInv, RetireInv, NoCall, OpenPcs
<1>5. CASE /\ vault = [schema |-> 0, rows |-> {}, receipt |-> NoReceipt]
           /\ backup = NoVault /\ dirs = Ids /\ indexed = {}
  <2>1. VaultTypeOK
    BY <1>3, <1>5 DEF VaultTypeOK, NoReceipt, NoCall, CallPcs, Errors, ReceiptStates
  <2>2. SchemaInv /\ GhostInv
    BY <1>3, <1>5 DEF SchemaInv, GhostInv, Rows, Receipt, RetiredLater, NoReceipt
  <2>3. ReceiptInv
    BY <1>1, <1>3, <1>5 DEF ReceiptInv, Rows, Receipt, NoReceipt
  <2> QED
    BY <1>4, <2>1, <2>2, <2>3 DEF VaultInv
<1>6. ASSUME NEW rows \in SUBSET Ids,
             vault = [schema |-> 1, rows |-> rows, receipt |-> NoReceipt],
             backup = NoVault, dirs = Ids, indexed = rows
      PROVE  VaultInv
  <2>1. VaultTypeOK
    BY <1>3, <1>6 DEF VaultTypeOK, NoReceipt, NoCall, CallPcs, Errors, ReceiptStates
  <2>2. SchemaInv /\ GhostInv
    BY <1>3, <1>6 DEF SchemaInv, GhostInv, Rows, Receipt, RetiredLater, NoReceipt
  <2>3. ReceiptInv
    BY <1>2, <1>3, <1>6 DEF ReceiptInv, Rows, Receipt, NoReceipt
  <2> QED
    BY <1>4, <2>1, <2>2, <2>3 DEF VaultInv
<1>7. ASSUME NEW rows \in SUBSET Ids, NEW migrated \in SUBSET Ids, NEW kept \in SUBSET Ids,
             NEW state \in {"retained", "verified-pending-removal"},
             vault = [schema |-> 2, rows |-> rows,
                      receipt |-> [launch |-> 0, count |-> Cardinality(migrated), state |-> state]],
             backup = migrated \/ (backup = NoVault /\ state = "verified-pending-removal"),
             dirs = rows \cup kept, indexed = rows
      PROVE  VaultInv
  <2>1. VaultTypeOK
    BY <1>2, <1>3, <1>7 DEF VaultTypeOK, NoCall, CallPcs, Errors, ReceiptStates
  <2>2. SchemaInv /\ GhostInv
    BY <1>3, <1>7 DEF SchemaInv, GhostInv, Rows, Receipt, RetiredLater
  <2>3. Unrepaired
    BY <1>3, <1>7 DEF Unrepaired, Rows, Receipt, NoCall
  <2>4. ReceiptInv
    BY <1>2, <1>3, <1>7, <2>3 DEF ReceiptInv, Rows, Receipt
  <2> QED
    BY <1>4, <2>1, <2>2, <2>4 DEF VaultInv
<1> QED
  BY <1>5, <1>6, <1>7 DEF VaultInit

\* A call that fails leaves the vault and its files as they are.
LEMMA FailsStep ==
    ASSUME VaultInv, NEW code \in Errors, Fails(code),
           UNCHANGED <<vault, backup, partial, dirs, intents, launch, ghosts>>
    PROVE  VaultInv'
<1> USE MarksAreNoRows
<1>1. VaultTypeOK'
  BY DEF VaultInv, VaultTypeOK, CallPcs, Errors, ReceiptStates, CallInv, OpenPcs, Rows, Receipt,
     RetireInv, SchemaInv, ReceiptInv, Unrepaired, GhostInv, RetiredLater, NoReceipt, ghosts,
     Fails
<1>2. CallInv'
  BY DEF VaultInv, CallInv, OpenPcs, Rows, Receipt, Fails
<1>3. RetireInv'
  BY DEF VaultInv, Rows, Receipt, RetireInv, Fails
<1>4. SchemaInv'
  BY DEF VaultInv, Rows, Receipt, SchemaInv, ghosts, Fails
<1>5. ReceiptInv'
  BY DEF VaultInv, Rows, Receipt, ReceiptInv, Unrepaired, NoReceipt, Fails
<1>6. GhostInv'
  BY DEF VaultInv, Rows, Receipt, GhostInv, RetiredLater, ghosts, Fails
<1> QED
  BY <1>1, <1>2, <1>3, <1>4, <1>5, <1>6 DEF VaultInv

LEMMA CallStep ==
    ASSUME VaultInv, NEW op \in {"open", "index", "delete"}, NEW r \in Ids, Call(op, r)
    PROVE  VaultInv'
<1> USE MarksAreNoRows
<1>1. VaultTypeOK'
  BY DEF VaultInv, VaultTypeOK, CallPcs, Errors, ReceiptStates, CallInv, OpenPcs, Rows, Receipt,
     RetireInv, SchemaInv, ReceiptInv, Unrepaired, GhostInv, RetiredLater, NoReceipt, ghosts,
     Call, NoCall
<1>2. CallInv'
  BY DEF VaultInv, CallInv, OpenPcs, Rows, Receipt, Call, NoCall
<1>3. RetireInv'
  BY DEF VaultInv, Rows, Receipt, RetireInv, Call, NoCall
<1>4. SchemaInv'
  BY DEF VaultInv, Rows, Receipt, SchemaInv, ghosts, Call, NoCall
<1>5. ReceiptInv'
  BY DEF VaultInv, Rows, Receipt, ReceiptInv, Unrepaired, NoReceipt, Call, NoCall
<1>6. GhostInv'
  BY DEF VaultInv, Rows, Receipt, GhostInv, RetiredLater, ghosts, Call, NoCall
<1> QED
  BY <1>1, <1>2, <1>3, <1>4, <1>5, <1>6 DEF VaultInv

LEMMA DetectStep ==
    ASSUME VaultInv, Detect
    PROVE  VaultInv'
<1> USE MarksAreNoRows
<1>1. VaultTypeOK'
  BY DEF VaultInv, VaultTypeOK, CallPcs, Errors, ReceiptStates, Rows, Receipt, ghosts, Detect,
     Goes
<1>2. CallInv'
  BY DEF VaultInv, VaultTypeOK, CallInv, OpenPcs, Rows, Receipt, Detect, Goes
<1>3. RetireInv'
  BY DEF VaultInv, Rows, Receipt, RetireInv, Detect, Goes
<1>4. SchemaInv'
  BY DEF VaultInv, Rows, Receipt, SchemaInv, ghosts, Detect, Goes
<1>5. ReceiptInv'
  <2>1. ~call.retire /\ ~call'.retire
    BY DEF VaultInv, VaultTypeOK, CallInv, OpenPcs, Detect, Goes
  <2> QED
    BY <2>1 DEF VaultInv, Rows, Receipt, ReceiptInv, Unrepaired, NoReceipt, Detect, Goes
<1>6. GhostInv'
  BY DEF VaultInv, Rows, Receipt, GhostInv, RetiredLater, ghosts, Detect, Goes
<1> QED
  BY <1>1, <1>2, <1>3, <1>4, <1>5, <1>6 DEF VaultInv

LEMMA CreateStep ==
    ASSUME VaultInv, Create
    PROVE  VaultInv'
<1> USE MarksAreNoRows
<1>1. CASE \E code \in Errors : Fails(code) /\ UNCHANGED <<vault, backup, partial>>
  BY <1>1, FailsStep DEF Create
<1>2. CASE vault' = [vault EXCEPT !.schema = 2] /\ Goes("opened")
  <2>1. VaultTypeOK'
    BY <1>2 DEF VaultInv, VaultTypeOK, CallPcs, Errors, ReceiptStates, Rows, Receipt, ghosts,
       Create, Goes
  <2>2. CallInv'
    BY <1>2 DEF VaultInv, CallInv, OpenPcs, Rows, Receipt, Create, Goes
  <2>3. RetireInv'
    BY <1>2 DEF VaultInv, Rows, Receipt, RetireInv, Create, Goes
  <2>4. SchemaInv'
    BY <1>2 DEF VaultInv, CallInv, OpenPcs, Rows, Receipt, SchemaInv, Create, Goes
  <2>5. ReceiptInv'
    BY <1>2 DEF VaultInv, CallInv, OpenPcs, Rows, Receipt, SchemaInv, ReceiptInv, Unrepaired,
       NoReceipt, Create, Goes
  <2>6. GhostInv'
    BY <1>2 DEF VaultInv, Rows, Receipt, GhostInv, RetiredLater, ghosts, Create, Goes
  <2> QED
    BY <2>1, <2>2, <2>3, <2>4, <2>5, <2>6 DEF VaultInv
<1> QED
  BY <1>1, <1>2 DEF Create, Errors

LEMMA StartBackupStep ==
    ASSUME VaultInv, StartBackup
    PROVE  VaultInv'
<1> USE MarksAreNoRows
<1>1. VaultTypeOK'
  BY DEF VaultInv, VaultTypeOK, CallPcs, Errors, ReceiptStates, CallInv, OpenPcs, Rows, Receipt,
     SchemaInv, ReceiptInv, Unrepaired, NoReceipt, ghosts, StartBackup, Goes, Fails, FilesMatch
<1>2. CallInv'
  BY DEF VaultInv, VaultTypeOK, CallInv, OpenPcs, Rows, Receipt, SchemaInv, ReceiptInv,
     Unrepaired, NoReceipt, StartBackup, Goes, Fails, FilesMatch
<1>3. RetireInv'
  BY DEF VaultInv, VaultTypeOK, CallInv, OpenPcs, Rows, Receipt, RetireInv, SchemaInv, ReceiptInv,
     Unrepaired, NoReceipt, StartBackup, Goes, Fails, FilesMatch
<1>4. SchemaInv'
  BY DEF VaultInv, CallInv, OpenPcs, Rows, Receipt, SchemaInv, ghosts, StartBackup, Goes, Fails,
     FilesMatch
<1>5. ReceiptInv'
  BY DEF VaultInv, Rows, Receipt, ReceiptInv, Unrepaired, NoReceipt, StartBackup, Goes, Fails,
     FilesMatch
<1>6. GhostInv'
  BY DEF VaultInv, Rows, Receipt, GhostInv, RetiredLater, ghosts, StartBackup, Goes, Fails,
     FilesMatch
<1> QED
  BY <1>1, <1>2, <1>3, <1>4, <1>5, <1>6 DEF VaultInv

LEMMA CopyBackupStep ==
    ASSUME VaultInv, CopyBackup
    PROVE  VaultInv'
<1> USE MarksAreNoRows
<1>1. CASE \E code \in Errors : Fails(code) /\ UNCHANGED <<vault, backup, partial>>
  BY <1>1, FailsStep DEF CopyBackup
<1>2. CASE partial' = Rows /\ Goes("verify") /\ vault' = vault
  <2>1. VaultTypeOK'
    BY <1>2 DEF VaultInv, VaultTypeOK, CallPcs, Errors, ReceiptStates, Rows, Receipt, ghosts,
       CopyBackup, Goes
  <2>2. CallInv'
    BY <1>2 DEF VaultInv, CallInv, OpenPcs, Rows, Receipt, CopyBackup, Goes
  <2>3. RetireInv'
    BY <1>2 DEF VaultInv, Rows, Receipt, RetireInv, CopyBackup, Goes
  <2>4. SchemaInv'
    BY <1>2 DEF VaultInv, CallInv, OpenPcs, Rows, Receipt, SchemaInv, ghosts, CopyBackup, Goes
  <2>5. ReceiptInv'
    BY <1>2 DEF VaultInv, Rows, Receipt, ReceiptInv, Unrepaired, NoReceipt, CopyBackup, Goes
  <2>6. GhostInv'
    BY <1>2 DEF VaultInv, Rows, Receipt, GhostInv, RetiredLater, ghosts, CopyBackup, Goes
  <2> QED
    BY <2>1, <2>2, <2>3, <2>4, <2>5, <2>6 DEF VaultInv
<1> QED
  BY <1>1, <1>2 DEF CopyBackup, Errors

LEMMA NameBackupStep ==
    ASSUME VaultInv, NameBackup
    PROVE  VaultInv'
<1> USE MarksAreNoRows
<1>1. CASE \E code \in Errors : Fails(code) /\ UNCHANGED <<vault, backup, partial>>
  BY <1>1, FailsStep DEF NameBackup
<1>2. CASE FilesMatch(partial) /\ backup' = partial /\ partial' = NoVault /\ Goes("migrate")
  <2>1. VaultTypeOK'
    BY <1>2 DEF VaultInv, VaultTypeOK, CallPcs, Errors, ReceiptStates, Rows, Receipt, ghosts,
       NameBackup, Goes, FilesMatch
  <2>2. CallInv'
    BY <1>2 DEF VaultInv, CallInv, OpenPcs, Rows, Receipt, NameBackup, Goes, FilesMatch
  <2>3. RetireInv'
    BY <1>2 DEF VaultInv, Rows, Receipt, RetireInv, NameBackup, Goes, FilesMatch
  <2>4. SchemaInv'
    BY <1>2 DEF VaultInv, Rows, Receipt, SchemaInv, ghosts, NameBackup, Goes, FilesMatch
  <2>5. ReceiptInv'
    BY <1>2 DEF VaultInv, CallInv, OpenPcs, Rows, Receipt, ReceiptInv, Unrepaired, NoReceipt,
       NameBackup, Goes, FilesMatch
  <2>6. GhostInv'
    BY <1>2 DEF VaultInv, Rows, Receipt, GhostInv, RetiredLater, ghosts, NameBackup, Goes,
       FilesMatch
  <2> QED
    BY <2>1, <2>2, <2>3, <2>4, <2>5, <2>6 DEF VaultInv
<1> QED
  BY <1>1, <1>2 DEF NameBackup, Errors

LEMMA MigrateStep ==
    ASSUME VaultInv, Migrate
    PROVE  VaultInv'
<1> USE MarksAreNoRows
<1>1. CASE \E code \in Errors : Fails(code) /\ UNCHANGED <<vault, backup, partial>>
  BY <1>1, FailsStep DEF Migrate
<1>2. CASE /\ vault' = [schema |-> 2, rows |-> Rows,
                         receipt |-> [launch |-> launch, count |-> Cardinality(Rows), state |-> "retained"]]
           /\ Goes("opened")
  <2>1. VaultTypeOK'
    BY <1>2, RowCounts DEF VaultInv, VaultTypeOK, CallPcs, Errors, ReceiptStates, Rows, Receipt,
       ghosts, Migrate, Goes
  <2>2. CallInv'
    BY <1>2 DEF VaultInv, CallInv, OpenPcs, Rows, Receipt, Migrate, Goes
  <2>3. RetireInv'
    BY <1>2 DEF VaultInv, Rows, Receipt, RetireInv, Migrate, Goes
  <2>4. SchemaInv'
    BY <1>2 DEF VaultInv, VaultTypeOK, CallInv, OpenPcs, Rows, Receipt, SchemaInv, Migrate, Goes
  <2>5. ReceiptInv'
    BY <1>2, RowCounts DEF VaultInv, VaultTypeOK, CallInv, OpenPcs, Rows, Receipt, ReceiptInv,
       Unrepaired, NoReceipt, Migrate, Goes
  <2>6. GhostInv'
    BY <1>2 DEF VaultInv, CallInv, OpenPcs, Rows, Receipt, GhostInv, RetiredLater, ghosts,
       Migrate, Goes
  <2> QED
    BY <2>1, <2>2, <2>3, <2>4, <2>5, <2>6 DEF VaultInv
<1> QED
  BY <1>1, <1>2 DEF Migrate, Errors

LEMMA MarkPendingStep ==
    ASSUME VaultInv, MarkPending
    PROVE  VaultInv'
<1> USE MarksAreNoRows
<1>1. VaultTypeOK'
  BY DEF VaultInv, VaultTypeOK, CallPcs, Errors, ReceiptStates, Rows, Receipt, ghosts,
     MarkPending, Goes, After, Must, Confirmed
<1>2. CallInv'
  BY DEF VaultInv, VaultTypeOK, CallInv, OpenPcs, Rows, Receipt, MarkPending, Goes, After, Must,
     Confirmed
<1>3. RetireInv'
  BY DEF VaultInv, VaultTypeOK, Rows, Receipt, RetireInv, MarkPending, Goes, After, Must,
     Confirmed
<1>4. SchemaInv'
  BY DEF VaultInv, VaultTypeOK, CallInv, OpenPcs, Rows, Receipt, SchemaInv, MarkPending, Goes,
     After, Must, Confirmed
<1>5. ReceiptInv'
  BY DEF VaultInv, VaultTypeOK, Rows, Receipt, ReceiptInv, Unrepaired, NoReceipt, MarkPending,
     Goes, After, Must, Confirmed
<1>6. GhostInv'
  BY DEF VaultInv, VaultTypeOK, CallPcs, Errors, ReceiptStates, CallInv, OpenPcs, Rows, Receipt,
     RetireInv, SchemaInv, ReceiptInv, Unrepaired, GhostInv, RetiredLater, NoReceipt, ghosts,
     MarkPending, Goes, After, Must, Confirmed
<1> QED
  BY <1>1, <1>2, <1>3, <1>4, <1>5, <1>6 DEF VaultInv

LEMMA RemoveVaultBackupStep ==
    ASSUME VaultInv, RemoveVaultBackup
    PROVE  VaultInv'
<1> USE MarksAreNoRows
<1>1. CASE \E code \in Errors : Fails(code) /\ UNCHANGED <<vault, backup, partial>>
  BY <1>1, FailsStep DEF RemoveVaultBackup
<1>2. CASE \/ Goes("confirm") /\ backup' = NoVault
           \/ Goes(After) /\ backup' = backup /\ ~Must
  <2>1. VaultTypeOK'
    BY <1>2 DEF VaultInv, VaultTypeOK, CallPcs, Errors, ReceiptStates, Rows, Receipt, ghosts,
       RemoveVaultBackup, Goes, After, Must
  <2>2. CallInv'
    BY <1>2 DEF VaultInv, VaultTypeOK, CallInv, OpenPcs, Rows, Receipt, RemoveVaultBackup, Goes,
       After, Must
  <2>3. RetireInv'
    BY <1>2 DEF VaultInv, VaultTypeOK, Rows, Receipt, RetireInv, RemoveVaultBackup, Goes, After,
       Must
  <2>4. SchemaInv'
    BY <1>2 DEF VaultInv, Rows, Receipt, SchemaInv, ghosts, RemoveVaultBackup, Goes, After, Must
  <2>5. ReceiptInv'
    BY <1>2 DEF VaultInv, CallPcs, Errors, ReceiptStates, CallInv, OpenPcs, Rows, Receipt,
       RetireInv, SchemaInv, ReceiptInv, Unrepaired, NoReceipt, RemoveVaultBackup, Goes, After,
       Must
  <2>6. GhostInv'
    BY <1>2 DEF VaultInv, Rows, Receipt, GhostInv, RetiredLater, ghosts, RemoveVaultBackup, Goes,
       After, Must
  <2> QED
    BY <2>1, <2>2, <2>3, <2>4, <2>5, <2>6 DEF VaultInv
<1> QED
  BY <1>1, <1>2 DEF RemoveVaultBackup, Errors

LEMMA ConfirmStep ==
    ASSUME VaultInv, Confirm
    PROVE  VaultInv'
<1> USE MarksAreNoRows
<1>1. VaultTypeOK'
  BY DEF VaultInv, VaultTypeOK, CallPcs, Errors, ReceiptStates, Rows, Receipt, ghosts, Confirm,
     Goes, After, Confirmed
<1>2. CallInv'
  BY DEF VaultInv, VaultTypeOK, CallPcs, Errors, ReceiptStates, CallInv, OpenPcs, Rows, Receipt,
     RetireInv, SchemaInv, ReceiptInv, Unrepaired, NoReceipt, Confirm, Goes, After, Confirmed
<1>3. RetireInv'
  BY DEF VaultInv, Rows, Receipt, RetireInv, Confirm, Goes, After, Confirmed
<1>4. SchemaInv'
  BY DEF VaultInv, CallInv, OpenPcs, Rows, Receipt, SchemaInv, Confirm, Goes, After, Confirmed
<1>5. ReceiptInv'
  BY DEF VaultInv, VaultTypeOK, CallPcs, Errors, ReceiptStates, CallInv, OpenPcs, Rows, Receipt,
     RetireInv, SchemaInv, ReceiptInv, Unrepaired, NoReceipt, Confirm, Goes, After, Confirmed
<1>6. GhostInv'
  BY DEF VaultInv, VaultTypeOK, CallPcs, Errors, ReceiptStates, CallInv, OpenPcs, Rows, Receipt,
     RetireInv, SchemaInv, ReceiptInv, Unrepaired, GhostInv, RetiredLater, NoReceipt, ghosts,
     Confirm, Goes, After, Confirmed
<1> QED
  BY <1>1, <1>2, <1>3, <1>4, <1>5, <1>6 DEF VaultInv

LEMMA OpenedStep ==
    ASSUME VaultInv, Opened
    PROVE  VaultInv'
<1> USE MarksAreNoRows
<1>1. VaultTypeOK'
  BY DEF VaultInv, VaultTypeOK, CallPcs, Errors, ReceiptStates, CallInv, OpenPcs, Rows, Receipt,
     RetireInv, SchemaInv, ReceiptInv, Unrepaired, GhostInv, RetiredLater, NoReceipt, ghosts,
     Opened
<1>2. CallInv'
  BY DEF VaultInv, CallInv, OpenPcs, Rows, Receipt, Opened
<1>3. RetireInv'
  BY DEF VaultInv, Rows, Receipt, RetireInv, Opened
<1>4. SchemaInv'
  BY DEF VaultInv, Rows, Receipt, SchemaInv, ghosts, Opened
<1>5. ReceiptInv'
  BY DEF VaultInv, Rows, Receipt, ReceiptInv, Unrepaired, NoReceipt, Opened
<1>6. GhostInv'
  BY DEF VaultInv, Rows, Receipt, GhostInv, RetiredLater, ghosts, Opened
<1> QED
  BY <1>1, <1>2, <1>3, <1>4, <1>5, <1>6 DEF VaultInv

LEMMA ReadStep ==
    ASSUME VaultInv, Read
    PROVE  VaultInv'
<1> USE MarksAreNoRows
<1>1. VaultTypeOK'
  BY DEF VaultInv, VaultTypeOK, CallPcs, Errors, ReceiptStates, Rows, Receipt, ghosts, Read,
     NoCall
<1>2. CallInv'
  BY DEF VaultInv, CallInv, OpenPcs, Rows, Receipt, Read, NoCall
<1>3. RetireInv'
  BY DEF VaultInv, Rows, Receipt, RetireInv, Read, NoCall
<1>4. SchemaInv'
  BY DEF VaultInv, Rows, Receipt, SchemaInv, ghosts, Read, NoCall
<1>5. ReceiptInv'
  BY DEF VaultInv, Rows, Receipt, ReceiptInv, Unrepaired, NoReceipt, Read, NoCall
<1>6. GhostInv'
  BY DEF VaultInv, Rows, Receipt, GhostInv, RetiredLater, ghosts, Read, NoCall
<1> QED
  BY <1>1, <1>2, <1>3, <1>4, <1>5, <1>6 DEF VaultInv

LEMMA IndexStep ==
    ASSUME VaultInv, Index
    PROVE  VaultInv'
<1> USE MarksAreNoRows
<1>0. Cardinality(Rows) \in Nat
  BY RowCounts DEF VaultInv, VaultTypeOK, Rows
<1>1. CASE \E code \in Errors : Fails(code) /\ UNCHANGED <<vault, ghosts>>
  BY <1>1, FailsStep DEF Index
<1>2. CASE /\ vault' = [vault EXCEPT !.rows = @ \cup {call.id}] /\ call' = NoCall
           /\ indexed' = indexed \cup {call.id} /\ forgotten' = forgotten \ {call.id}
  <2>1. VaultTypeOK'
    BY <1>2 DEF VaultInv, VaultTypeOK, CallPcs, Errors, ReceiptStates, CallInv, OpenPcs, Rows,
       Receipt, Index, NoCall
  <2>2. CallInv'
    BY <1>2 DEF VaultInv, CallInv, OpenPcs, Rows, Receipt, Index, NoCall
  <2>3. RetireInv'
    BY <1>2 DEF VaultInv, Rows, Receipt, RetireInv, Index, NoCall
  <2>4. SchemaInv'
    BY <1>2 DEF VaultInv, CallInv, OpenPcs, Rows, Receipt, SchemaInv, Index, NoCall
  <2>5. ReceiptInv'
    <3>1. call.id \in Ids /\ Rows' = Rows \cup {call.id} /\ Receipt' = Receipt
      BY <1>2 DEF Index, VaultInv, VaultTypeOK, CallInv, Rows, Receipt
    <3>2. Cardinality(Rows) <= Cardinality(Rows') /\ Cardinality(Rows') \in Nat
      BY <3>1, RowCounts DEF VaultInv, VaultTypeOK, Rows
    <3>3. Cardinality(Rows) >= Receipt.count
      BY <1>0 DEF Index, VaultInv, VaultTypeOK, ReceiptInv, Unrepaired, Receipt
    <3>4. ~(Cardinality(Rows') < Receipt'.count)
      BY <1>0, <3>1, <3>2, <3>3 DEF VaultInv, VaultTypeOK, Receipt
    <3> QED
      BY <1>2, <3>1, <3>4 DEF Index, VaultInv, VaultTypeOK, ReceiptInv, Receipt
  <2>6. GhostInv'
    BY <1>2 DEF VaultInv, CallInv, OpenPcs, Rows, Receipt, GhostInv, RetiredLater, Index,
       NoCall
  <2> QED
    BY <2>1, <2>2, <2>3, <2>4, <2>5, <2>6 DEF VaultInv
<1> QED
  BY <1>1, <1>2 DEF Index, Errors

LEMMA DeleteRowStep ==
    ASSUME VaultInv, DeleteRow
    PROVE  VaultInv'
<1> USE MarksAreNoRows
<1>1. CASE \E code \in Errors : Fails(code) /\ UNCHANGED <<vault, ghosts>>
  BY <1>1, FailsStep DEF DeleteRow
<1>2. CASE /\ vault' = [vault EXCEPT !.rows = @ \ {call.id},
                                     !.receipt.count = IF Receipt = NoReceipt THEN 0
                                                       ELSE Cardinality(Rows \ {call.id})]
           /\ call' = NoCall
           /\ indexed' = indexed \ {call.id} /\ forgotten' = forgotten \cup {call.id}
  <2>1. VaultTypeOK'
    BY <1>2, RowCounts DEF VaultInv, VaultTypeOK, CallPcs, Errors, ReceiptStates, CallInv,
       OpenPcs, Rows, Receipt, RetireInv, SchemaInv, ReceiptInv, Unrepaired, GhostInv,
       RetiredLater, NoReceipt, DeleteRow, NoCall
  <2>2. CallInv'
    BY <1>2 DEF VaultInv, CallInv, OpenPcs, Rows, Receipt, DeleteRow, NoCall
  <2>3. RetireInv'
    BY <1>2 DEF VaultInv, Rows, Receipt, RetireInv, DeleteRow, NoCall
  <2>4. SchemaInv'
    BY <1>2 DEF VaultInv, CallInv, OpenPcs, Rows, Receipt, SchemaInv, DeleteRow, NoCall
  <2>5. ReceiptInv'
    BY <1>2, RowCounts DEF VaultInv, VaultTypeOK, CallInv, OpenPcs, Rows, Receipt, ReceiptInv,
       Unrepaired, NoReceipt, DeleteRow, NoCall
  <2>6. GhostInv'
    BY <1>2 DEF VaultInv, VaultTypeOK, CallInv, OpenPcs, Rows, Receipt, GhostInv, RetiredLater,
       DeleteRow, NoCall
  <2> QED
    BY <2>1, <2>2, <2>3, <2>4, <2>5, <2>6 DEF VaultInv
<1> QED
  BY <1>1, <1>2 DEF DeleteRow, Errors

LEMMA DeleteRecordingStep ==
    ASSUME VaultInv, NEW r \in Ids, DeleteRecording(r)
    PROVE  VaultInv'
<1> USE MarksAreNoRows
<1>1. VaultTypeOK'
  BY DEF VaultInv, VaultTypeOK, CallPcs, Errors, ReceiptStates, Rows, Receipt, ghosts,
     DeleteRecording
<1>2. CallInv'
  BY DEF VaultInv, CallInv, OpenPcs, Rows, Receipt, DeleteRecording
<1>3. RetireInv'
  BY DEF VaultInv, Rows, Receipt, RetireInv, DeleteRecording
<1>4. SchemaInv'
  BY DEF VaultInv, Rows, Receipt, SchemaInv, ghosts, DeleteRecording
<1>5. ReceiptInv'
  BY RowCounts DEF VaultInv, Rows, Receipt, ReceiptInv, Unrepaired, NoReceipt, DeleteRecording
<1>6. GhostInv'
  BY DEF VaultInv, Rows, Receipt, GhostInv, RetiredLater, ghosts, DeleteRecording
<1> QED
  BY <1>1, <1>2, <1>3, <1>4, <1>5, <1>6 DEF VaultInv

LEMMA CompleteMetadataStep ==
    ASSUME VaultInv, NEW r \in Ids, CompleteMetadata(r)
    PROVE  VaultInv'
<1> USE MarksAreNoRows
<1>1. VaultTypeOK'
  BY DEF VaultInv, VaultTypeOK, CallPcs, Errors, ReceiptStates, Rows, Receipt, ghosts,
     CompleteMetadata
<1>2. CallInv'
  BY DEF VaultInv, CallInv, OpenPcs, Rows, Receipt, CompleteMetadata
<1>3. RetireInv'
  BY DEF VaultInv, Rows, Receipt, RetireInv, CompleteMetadata
<1>4. SchemaInv'
  BY DEF VaultInv, Rows, Receipt, SchemaInv, CompleteMetadata
<1>5. ReceiptInv'
  BY DEF VaultInv, Rows, Receipt, ReceiptInv, Unrepaired, NoReceipt, CompleteMetadata
<1>6. GhostInv'
  BY DEF VaultInv, Rows, Receipt, GhostInv, RetiredLater, ghosts, CompleteMetadata
<1> QED
  BY <1>1, <1>2, <1>3, <1>4, <1>5, <1>6 DEF VaultInv

LEMMA RelaunchStep ==
    ASSUME VaultInv, Relaunch
    PROVE  VaultInv'
<1> USE MarksAreNoRows
<1>1. VaultTypeOK'
  BY DEF VaultInv, VaultTypeOK, CallPcs, Errors, ReceiptStates, Rows, Receipt, ghosts, Relaunch,
     NoCall
<1>2. CallInv'
  BY DEF VaultInv, CallInv, OpenPcs, Rows, Receipt, Relaunch, NoCall
<1>3. RetireInv'
  BY DEF VaultInv, Rows, Receipt, RetireInv, Relaunch, NoCall
<1>4. SchemaInv'
  BY DEF VaultInv, Rows, Receipt, SchemaInv, ghosts, Relaunch, NoCall
<1>5. ReceiptInv'
  BY DEF VaultInv, VaultTypeOK, Rows, Receipt, ReceiptInv, Unrepaired, NoReceipt, Relaunch, NoCall
<1>6. GhostInv'
  BY DEF VaultInv, VaultTypeOK, CallInv, OpenPcs, Rows, Receipt, SchemaInv, ReceiptInv,
     Unrepaired, GhostInv, RetiredLater, NoReceipt, ghosts, Relaunch, NoCall
<1> QED
  BY <1>1, <1>2, <1>3, <1>4, <1>5, <1>6 DEF VaultInv

LEMMA ReconcileStep ==
    ASSUME VaultInv, Reconcile
    PROVE  VaultInv'
<1> USE MarksAreNoRows
<1>0. Cardinality(Rows) \in Nat
  BY RowCounts DEF VaultInv, VaultTypeOK, Rows
<1>1. CASE Fails("backup-delete") /\ UNCHANGED <<vault, backup>>
  BY <1>1, FailsStep DEF Reconcile, Errors
<1>2. CASE Receipt.state \in {"none", "confirmed-removed"} /\ vault' = vault
           /\ Goes(After) /\ backup' = (IF call.retire THEN NoVault ELSE backup)
  <2>1. VaultTypeOK'
    BY <1>2 DEF VaultInv, VaultTypeOK, CallPcs, Errors, ReceiptStates, Rows, Receipt, ghosts,
       Reconcile, Goes, After
  <2>2. CallInv'
    BY <1>2 DEF VaultInv, CallInv, OpenPcs, Rows, Receipt, Reconcile, Goes, After
  <2>3. RetireInv'
    BY <1>2 DEF VaultInv, Rows, Receipt, RetireInv, Reconcile, Goes, After
  <2>4. SchemaInv'
    BY <1>2 DEF VaultInv, Rows, Receipt, SchemaInv, ghosts, Reconcile, Goes, After
  <2>5. ReceiptInv'
    BY <1>2 DEF VaultInv, Rows, Receipt, ReceiptInv, Unrepaired, NoReceipt, Reconcile, Goes, After
  <2>6. GhostInv'
    BY <1>2 DEF VaultInv, Rows, Receipt, GhostInv, RetiredLater, ghosts, Reconcile, Goes, After
  <2> QED
    BY <2>1, <2>2, <2>3, <2>4, <2>5, <2>6 DEF VaultInv
<1>3. CASE /\ Receipt.state \notin {"none", "confirmed-removed"} /\ UNCHANGED <<vault, backup>>
           /\ Cardinality(Rows) >= Receipt.count
           /\ IF Receipt.launch = launch /\ ~call.retire /\ Receipt.state # "repair-pending"
              THEN Goes("opened")
              ELSE call' = [call EXCEPT !.repair = Receipt.state = "repair-pending", !.pc = "pending"]
  <2>a. PICK b \in BOOLEAN : b <=> Receipt.state = "repair-pending"
    BY Zenon
  <2>b. /\ call'.op = call.op /\ call'.id = call.id /\ call'.retire = call.retire
        /\ call'.error = call.error
        /\ \/ call'.pc = "opened" /\ ~call.retire /\ call'.repair = call.repair
           \/ /\ call'.pc = "pending" /\ call'.repair = b
              /\ Receipt.launch = launch => call.retire
        /\ DOMAIN call' = DOMAIN call
        /\ call' \in [op : {"none", "open", "index", "delete"}, id : Ids \cup {"none"}, pc : CallPcs,
                       retire : BOOLEAN, repair : BOOLEAN, error : Errors]
    <3>1. CASE call' = [call EXCEPT !.repair = b, !.pc = "pending"]
               /\ (Receipt.launch = launch => call.retire)
      BY <3>1 DEF VaultInv, VaultTypeOK, CallPcs
    <3>2. CASE Goes("opened") /\ ~call.retire
      BY <3>2 DEF Goes, VaultInv, VaultTypeOK, CallPcs
    <3>3. Receipt.launch = launch => Receipt.state # "repair-pending"
      BY DEF VaultInv, VaultTypeOK, ReceiptInv
    <3>4. [call EXCEPT !.repair = Receipt.state = "repair-pending", !.pc = "pending"]
            = [call EXCEPT !.repair = b, !.pc = "pending"]
      BY <2>a
    <3> QED
      BY <1>3, <3>1, <3>2, <3>3, <3>4
  <2>1. VaultTypeOK'
    BY <1>3, <2>a, <2>b DEF VaultInv, VaultTypeOK, CallPcs, Errors, ReceiptStates, Rows, Receipt,
       ghosts, Reconcile, Goes
  <2>2. CallInv'
    BY <1>3, <2>a, <2>b DEF VaultInv, CallInv, OpenPcs, Rows, Receipt, Reconcile, Goes
  <2>3. RetireInv'
    BY <1>3, <2>a, <2>b DEF VaultInv, CallInv, OpenPcs, Rows, Receipt, RetireInv, Reconcile, Goes
  <2>4. SchemaInv'
    BY <1>3, <2>a, <2>b DEF VaultInv, Rows, Receipt, SchemaInv, ghosts, Reconcile, Goes
  <2>5. ReceiptInv'
    <3>1. ~(Cardinality(Rows') < Receipt'.count)
      BY <1>0, <1>3 DEF VaultInv, VaultTypeOK, Rows, Receipt
    <3> QED
      BY <1>3, <3>1 DEF VaultInv, Rows, Receipt, ReceiptInv, NoReceipt, Reconcile
  <2>6. GhostInv'
    BY <1>3, <2>a, <2>b DEF VaultInv, Rows, Receipt, GhostInv, RetiredLater, ghosts, Reconcile,
       Goes
  <2> QED
    BY <2>1, <2>2, <2>3, <2>4, <2>5, <2>6 DEF VaultInv
<1>4. CASE Fails("lost-records") /\ UNCHANGED <<vault, backup>>
  BY <1>4, FailsStep DEF Reconcile, Errors
<1>5. CASE /\ Receipt.state \notin {"none", "confirmed-removed"} /\ backup' = backup
           /\ Cardinality(Rows) < Receipt.count
           /\ vault' = [vault EXCEPT !.receipt.count = Cardinality(Rows),
                                     !.receipt.state = "repair-pending"]
           /\ call' = [call EXCEPT !.repair = TRUE, !.pc = "pending"]
  <2>1. VaultTypeOK'
    BY <1>5, RowCounts DEF VaultInv, VaultTypeOK, CallPcs, Errors, ReceiptStates, CallInv,
       OpenPcs, Rows, Receipt, RetireInv, SchemaInv, ReceiptInv, Unrepaired, GhostInv,
       RetiredLater, NoReceipt, ghosts, Reconcile
  <2>2. CallInv'
    BY <1>5 DEF VaultInv, CallInv, OpenPcs, Rows, Receipt, Reconcile
  <2>3. RetireInv'
    BY <1>5 DEF VaultInv, VaultTypeOK, CallPcs, Errors, ReceiptStates, CallInv, OpenPcs, Rows,
       Receipt, RetireInv, SchemaInv, ReceiptInv, Unrepaired, GhostInv, RetiredLater, NoReceipt,
       Reconcile
  <2>4. SchemaInv'
    BY <1>5 DEF VaultInv, CallInv, OpenPcs, Rows, Receipt, SchemaInv, Reconcile
  <2>5. ReceiptInv'
    <3>1. Unrepaired
      BY <1>5 DEF VaultInv, ReceiptInv
    <3>2. /\ Rows' = Rows /\ Receipt'.count = Cardinality(Rows) /\ Receipt'.launch = 0
          /\ Receipt'.state = "repair-pending"
      BY <1>5, <3>1 DEF VaultInv, VaultTypeOK, Rows, Receipt, Unrepaired
    <3> QED
      BY <1>0, <3>2 DEF Reconcile, VaultInv, VaultTypeOK, ReceiptInv
  <2>6. GhostInv'
    BY <1>5 DEF VaultInv, VaultTypeOK, CallPcs, Errors, ReceiptStates, CallInv, OpenPcs, Rows,
       Receipt, RetireInv, SchemaInv, ReceiptInv, Unrepaired, GhostInv, RetiredLater, NoReceipt,
       ghosts, Reconcile
  <2> QED
    BY <2>1, <2>2, <2>3, <2>4, <2>5, <2>6 DEF VaultInv
<1> QED
  <2>1. Receipt.state = "none" <=> Receipt = NoReceipt
    BY DEF VaultInv, ReceiptInv, NoReceipt
  <2>2. Receipt.count \in Nat /\ Cardinality(Rows) \in Nat
    BY <1>0 DEF VaultInv, VaultTypeOK, Receipt
  <2>3. Receipt = NoReceipt => backup = (IF call.retire THEN NoVault ELSE backup)
    BY <2>1 DEF Reconcile, VaultInv, ReceiptInv, CallInv, OpenPcs
  <2>4. ~(Cardinality(Rows) < Receipt.count) => Cardinality(Rows) >= Receipt.count
    BY <2>2
  <2> QED
    BY <1>1, <1>2, <1>3, <1>4, <1>5, <2>1, <2>3, <2>4 DEF Reconcile

LEMMA NotCreatedStep ==
    ASSUME VaultInv, NEW r \in Ids, NotCreated(r)
    PROVE  VaultInv'
<1> USE MarksAreNoRows
<1>1. VaultTypeOK'
  BY DEF VaultInv, VaultTypeOK, CallPcs, Errors, NotCreated, NoCall
<1>2. CallInv' /\ RetireInv'
  BY DEF VaultInv, CallInv, RetireInv, OpenPcs, Rows, Receipt, NotCreated, NoCall
<1>3. SchemaInv'
  BY DEF VaultInv, Rows, Receipt, SchemaInv, NotCreated
<1>4. ReceiptInv'
  BY DEF VaultInv, Rows, Receipt, SchemaInv, ReceiptInv, Unrepaired, NoReceipt, NotCreated, NoCall
<1>5. GhostInv'
  BY DEF VaultInv, Rows, Receipt, SchemaInv, NoReceipt, GhostInv, RetiredLater, NotCreated
<1> QED
  BY <1>1, <1>2, <1>3, <1>4, <1>5 DEF VaultInv

LEMMA VaultInvStep ==
    ASSUME VaultInv, [VaultNext]_vaultVars
    PROVE  VaultInv'
<1>1. CASE UNCHANGED vaultVars
  BY <1>1 DEF vaultVars, VaultInv, VaultTypeOK, CallInv, RetireInv, SchemaInv, ReceiptInv,
     Unrepaired, GhostInv, RetiredLater, Rows, Receipt
<1>2. CASE VaultNext
  BY <1>2, CallStep, DetectStep, CreateStep, StartBackupStep, CopyBackupStep, NameBackupStep,
     MigrateStep, ReconcileStep, MarkPendingStep, RemoveVaultBackupStep, ConfirmStep, OpenedStep,
     ReadStep, IndexStep, DeleteRowStep, DeleteRecordingStep, CompleteMetadataStep,
     RelaunchStep, NotCreatedStep
     DEF VaultNext
<1> QED
  BY <1>1, <1>2

\* A deletion gives a refused vault no evidence it did not have.
LEMMA NoNewEvidence ==
    ASSUME VaultInv, NEW r \in Ids, DeleteRecording(r) \/ CompleteMetadata(r), ~OneDeletedEarlier,
           Receipt.state \in {"retained", "verified-pending-removal"}
    PROVE  ~OneDeletedEarlier'
<1>1. vault' = vault /\ backup' = backup /\ dirs' \subseteq dirs
  BY DEF DeleteRecording, CompleteMetadata
<1>2. CASE DeleteRecording(r)
  <2>1. \A q : q \notin dirs' /\ q \notin intents' => q \notin dirs /\ q \notin intents
    BY <1>2 DEF DeleteRecording
  <2> QED
    BY <1>1, <2>1 DEF OneDeletedEarlier, ArtifactsAbsent, Rows, Receipt
<1>3. CASE CompleteMetadata(r)
  <2>1. r \in forgotten
    BY <1>3 DEF CompleteMetadata
  <2> QED
    BY <2>1 DEF VaultInv, GhostInv
<1> QED
  BY <1>2, <1>3

LEMMA LockInvStep ==
    ASSUME VaultInv, LockInv, [VaultNext]_vaultVars
    PROVE  LockInv'
<1>1. CASE UNCHANGED vaultVars
  BY <1>1 DEF vaultVars, LockInv, OneDeletedEarlier, ArtifactsAbsent, Rows, Receipt
<1>2. CASE \E r \in Ids : DeleteRecording(r) \/ CompleteMetadata(r)
  <2>1. UNCHANGED <<vault, call>>
    BY <1>2 DEF DeleteRecording, CompleteMetadata
  <2> QED
    BY <1>2, <2>1, NoNewEvidence DEF LockInv, Receipt
<1>3. CASE \/ \E op \in {"open", "index", "delete"}, r \in Ids : Call(op, r)
           \/ \E r \in Ids : NotCreated(r)
           \/ Relaunch \/ Read
  <2>1. NoCall.error = "none" /\ "error" \in DOMAIN NoCall
    BY DEF NoCall
  <2>2. CASE call' = NoCall
    BY <2>1, <2>2 DEF LockInv
  <2>3. ASSUME NEW op, NEW r, Call(op, r)
        PROVE  LockInv'
    BY <2>1, <2>3 DEF Call, LockInv
  <2> QED
    BY <1>3, <2>2, <2>3 DEF NotCreated, Relaunch, Read
<1>4. CASE \/ Detect \/ Create \/ StartBackup \/ CopyBackup \/ NameBackup \/ Migrate
           \/ MarkPending \/ RemoveVaultBackup \/ Confirm \/ Opened \/ Index \/ DeleteRow
  <2>1. call.error # "lost-records"
    BY <1>4 DEF Detect, Create, StartBackup, CopyBackup, NameBackup, Migrate, MarkPending,
       RemoveVaultBackup, Confirm, Opened, Index, DeleteRow, LockInv
  <2>2. \/ \E pc : Goes(pc)
        \/ \E code \in Errors \ {"lost-records"} : Fails(code)
        \/ Opened \/ call' = NoCall
    BY <1>4, Zenon DEF Detect, Create, StartBackup, CopyBackup, NameBackup, Migrate, MarkPending,
       RemoveVaultBackup, Confirm, Index, DeleteRow, Errors
  <2>3. call'.error # "lost-records"
    <3>1. ASSUME NEW pc, Goes(pc)
          PROVE  call'.error = call.error
      BY <3>1 DEF Goes, VaultInv, VaultTypeOK
    <3>2. ASSUME NEW code \in Errors \ {"lost-records"}, Fails(code)
          PROVE  call'.error # "lost-records"
      BY <3>2 DEF Fails, VaultInv, VaultTypeOK, Errors
    <3>3. CASE Opened
      BY <2>1, <3>3 DEF Opened, VaultInv, VaultTypeOK
    <3>4. CASE call' = NoCall
      BY <3>4 DEF NoCall
    <3> QED
      BY <2>1, <2>2, <3>1, <3>2, <3>3, <3>4
  <2> QED
    BY <2>3 DEF LockInv
<1>5. CASE Reconcile
  <2>1. call.error # "lost-records" /\ call.pc = "reconcile"
    BY <1>5 DEF Reconcile, LockInv
  <2>2. CASE call'.error # "lost-records"
    BY <2>2 DEF LockInv
  <2>3. CASE call'.error = "lost-records"
    <3>1. /\ Cardinality(Rows) < Receipt.count /\ ~RepairCandidate /\ vault' = vault /\ backup' = backup
          /\ call'.pc = "idle" /\ dirs' = dirs /\ intents' = intents
      BY <1>5, <2>1, <2>3 DEF Reconcile, Goes, Fails, VaultInv, VaultTypeOK
    <3>2. Unrepaired
      BY <3>1 DEF VaultInv, ReceiptInv
    <3>3. ~OneDeletedEarlier
      BY <2>1, <3>1, <3>2 DEF RepairCandidate, Unrepaired
    <3> QED
      BY <3>1, <3>2, <3>3 DEF LockInv, Unrepaired, OneDeletedEarlier, ArtifactsAbsent, Rows, Receipt
  <2> QED
    BY <2>2, <2>3
<1> QED
  BY <1>1, <1>2, <1>3, <1>4, <1>5 DEF VaultNext

-----------------------------------------------------------------------------
(* The key                                                                 *)

LEMMA KeyInvInit == KeyInit => KeyInv
BY DEF KeyInit, KeyInv, Holds, OneKey, NoKey, OldKey

LEMMA KeyInvStep ==
    ASSUME KeyInv, [KeyNext]_keyVars
    PROVE  KeyInv'
<1> USE VaultConstants DEF KeyInv, OneKey, NoKey, OldKey
<1>1. CASE UNCHANGED keyVars
  BY <1>1 DEF keyVars, Holds
<1>2. ASSUME NEW c \in Callers, KeyEnter(c)
      PROVE  KeyInv'
  BY <1>2 DEF KeyEnter, Holds
<1>3. ASSUME NEW c \in Callers, KeyLook(c)
      PROVE  KeyInv'
  <2>1. CASE key # NoKey
    BY <1>3, <2>1 DEF KeyLook, Holds
  <2>2. CASE key = NoKey
    BY <1>3, <2>2 DEF KeyLook, Holds
  <2> QED
    BY <2>1, <2>2
<1>4. ASSUME NEW c \in Callers, KeyWrite(c)
      PROVE  KeyInv'
  BY <1>4 DEF KeyWrite, Holds, NoKey
<1>5. ASSUME NEW c \in Callers, KeyAgain(c)
      PROVE  KeyInv'
  BY <1>5 DEF KeyAgain, Holds
<1> QED
  BY <1>1, <1>2, <1>3, <1>4, <1>5 DEF KeyNext

-----------------------------------------------------------------------------
(* The promise                                                             *)

LEMMA VaultInvSuffices == VaultInv /\ LockInv /\ KeyInv => VaultSound
<1> SUFFICES ASSUME VaultInv, LockInv, KeyInv PROVE VaultSound
  OBVIOUS
<1>1. IndexKept /\ RetiredLater
  BY DEF VaultInv, GhostInv, IndexKept
<1>2. ForgottenEverywhere
  BY DEF VaultInv, VaultTypeOK, GhostInv, SchemaInv, ReceiptInv, ForgottenEverywhere
<1>3. MigrationUndoable
  BY DEF VaultInv, ReceiptInv, MigrationUndoable
<1>4. NeverLockedOut
  BY DEF LockInv, NeverLockedOut
<1>5. QED
  BY <1>1, <1>2, <1>3, <1>4 DEF KeyInv, VaultSound

\* The promise of the vault (vault_store.rs, os_key_store.rs), for any number of
\* recordings, calls, faults and launches and for whatever an earlier version
\* left: rows are kept, deleted ones are in no copy, the migration can be undone
\* in its own launch, only what an earlier version deleted can close the vault,
\* and threads share one key unless a keyring had none.
THEOREM VaultIsSound == VaultSpec => []VaultSound
<1>1. VaultInit /\ KeyInit => VaultInv /\ LockInv /\ KeyInv
  BY VaultInvInit, KeyInvInit DEF VaultInit, LockInv, NoCall
<1>2. VaultInv /\ LockInv /\ KeyInv /\ [VaultKeyNext]_<<vaultVars, keyVars>>
        => VaultInv' /\ LockInv' /\ KeyInv'
  BY VaultInvStep, LockInvStep, KeyInvStep DEF VaultKeyNext
<1>3. VaultInv /\ LockInv /\ KeyInv => VaultSound
  BY VaultInvSuffices
<1> QED
  BY <1>1, <1>2, <1>3, PTL DEF VaultSpec

-----------------------------------------------------------------------------
(* The dictionaries                                                        *)

Identities == TermPackages \cup {"general", "file"}
Dictionary == [id : Nat, package : Identities]
Note == [rec : TermRecordings, about : Nat, value : BOOLEAN]
Promise == [dictionary : Identities]

Docs == [dictionaries : SUBSET Dictionary, notes : SUBSET Note]

\* A document: finitely many dictionaries, each package once.
IsDocument(doc) ==
    /\ doc \in Docs /\ IsFiniteSet(doc.dictionaries)
    /\ \A a, b \in doc.dictionaries : a.package = b.package /\ a.package # "file" => a = b

Files == {"target", "backup", "temp"}
WritePcs == {"stage", "rotate", "aside", "commit", "clean"}
Writings ==
    [pc : WritePcs \cup {"idle"}, doc : Docs, op : {"none", "import", "enable", "note", "remove"},
     of : TermRecordings \cup Identities \cup {"none"}, token : Tokens \cup {0}, only : BOOLEAN]

Busy == {"queued", "import", "unstage", "ended"}
Over == {"done", "failed", "cancelled"}
JobStates == Busy \cup Over \cup {"none", "request", "refused", "lost", "gone"}
PackageJobs == [package : Identities, state : JobStates, ask : BOOLEAN, held : BOOLEAN]

TermTypeOK ==
    /\ disk \in [Files -> Docs \cup {NoDoc}]
    /\ \A f \in Files : disk[f] # NoDoc => IsDocument(disk[f])
    /\ writing \in Writings /\ IsDocument(writing.doc)
    /\ writing.pc = "idle" => writing = NotWriting
    /\ packageJob \in [Tokens -> PackageJobs]
    /\ promised \subseteq Note \cup Promise
    /\ cut \in BOOLEAN

\* The package of a job that was not withdrawn stays on disk until it is
\* imported, and its descriptor while the job is under way.  Only the jobs of
\* withdrawn packages are asked to cancel, and one that is acknowledged has ended.
JobOK(t) ==
    /\ packageJob[t].ask => t \in withdrawn
    /\ t \notin withdrawn =>
           /\ packageJob[t].state \in {"request", "import", "unstage"} => t \in staged
           /\ packageJob[t].state \in Busy => packageJob[t].held
    /\ t \in request.tokens =>
           t \in withdrawn /\ (request.forget => packageJob[t].state \in Over)

\* The job of the change that is written is importing.
WriterInv ==
    /\ writing.op = "import" => \E d \in writing.doc.dictionaries : d.package = writing.of
    /\ writing.token # 0 =>
           /\ writing.op = "import"
           /\ packageJob[writing.token].state = "import"
           /\ packageJob[writing.token].package = writing.of

StageInv == (\A t \in Tokens : JobOK(t)) /\ WriterInv

\* A recording whose notes are removed was deleted, so none is added again.
Forgets(doc, r) == \A n \in doc.notes : n.rec # r

RemovedInv ==
    /\ removed \subseteq deletedRecs
    /\ \A r \in removed :
           /\ \A f \in Files : disk[f] # NoDoc => Forgets(disk[f], r)
           /\ Forgets(writing.doc, r)
    /\ writing.op = "remove" => writing.of \in deletedRecs /\ Forgets(writing.doc, writing.of)
    /\ writing.pc = "clean" => disk["temp"] = NoDoc

\* Jobs that may find no package on disk, and what they must then find installed.
Lacking(t) ==
    /\ t \notin withdrawn
    /\ packageJob[t].state \in {"unstage", "ended"} \/ (CanRun(packageJob[t]) /\ t \notin staged)

Needed == {p \in Identities : \E t \in Tokens : packageJob[t].package = p /\ Lacking(t)}

\* A document keeps what was promised, and has the packages that are needed.
Keeps(doc, promises, packages) ==
    /\ \A x \in promises :
           IF "rec" \in DOMAIN x THEN x \in doc.notes
           ELSE \E d \in doc.dictionaries : d.package = x.dictionary
    /\ \A p \in packages : \E d \in doc.dictionaries : d.package = p

\* The change under way has removed the only copy there was.
Bare == writing.only /\ writing.pc \in {"aside", "commit"}

\* Until a document is lost, the change that is written keeps all, and so does
\* what the reader finds except while the change is the only copy.
PromiseInv ==
    /\ ~cut /\ writing.pc # "idle" => Keeps(writing.doc, promised, Needed)
    /\ ~cut /\ ~Bare => Keeps(Readable, promised, Needed)
    /\ writing.pc \in {"stage", "rotate"} =>
           (writing.only <=> disk["target"] = NoDoc /\ disk["backup"] # NoDoc)
    /\ writing.pc = "aside" => disk["backup"] = NoDoc
    /\ writing.pc = "commit" => disk["target"] = NoDoc
    /\ writing.pc = "clean" => disk["target"] = writing.doc

TermInv == TermTypeOK /\ StageInv /\ RemovedInv /\ PromiseInv
-----------------------------------------------------------------------------
(* Documents                                                               *)

LEMMA NoDocIsNone == NoDoc \notin Docs
BY DEF NoDoc, Docs

LEMMA EmptyIsDocument ==
    /\ IsDocument(EmptyDoc) /\ EmptyDoc.dictionaries = {} /\ EmptyDoc.notes = {}
    /\ \A r : Forgets(EmptyDoc, r)
<1>1. EmptyDoc \in Docs /\ EmptyDoc.dictionaries = {} /\ EmptyDoc.notes = {}
  BY DEF EmptyDoc, Docs
<1>2. IsFiniteSet(EmptyDoc.dictionaries)
  BY <1>1, FS_EmptySet
<1> QED
  BY <1>1, <1>2 DEF IsDocument, Forgets

LEMMA NotWritingIs ==
    /\ NotWriting.pc = "idle" /\ NotWriting.doc = EmptyDoc /\ NotWriting.op = "none"
    /\ NotWriting.of = "none" /\ NotWriting.token = 0 /\ NotWriting.only = FALSE
    /\ NotWriting \in Writings
BY EmptyIsDocument DEF NotWriting, Writings, IsDocument

\* What a reader finds is a document that forgets what was removed.
LEMMA ReadableIs ==
    ASSUME TermTypeOK
    PROVE  /\ IsDocument(Readable) /\ Readable \in Docs
           /\ RemovedInv => \A r \in removed : Forgets(Readable, r)
           /\ disk["target"] # NoDoc => Readable = disk["target"]
           /\ disk["target"] = NoDoc /\ disk["backup"] # NoDoc => Readable = disk["backup"]
           /\ disk["target"] = NoDoc /\ disk["backup"] = NoDoc => Readable = EmptyDoc
<1>1. /\ disk["target"] # NoDoc => IsDocument(disk["target"])
      /\ disk["backup"] # NoDoc => IsDocument(disk["backup"])
  BY DEF TermTypeOK, Files
<1>2. \/ disk["target"] # NoDoc /\ Readable = disk["target"]
      \/ disk["target"] = NoDoc /\ disk["backup"] # NoDoc /\ Readable = disk["backup"]
      \/ disk["target"] = NoDoc /\ disk["backup"] = NoDoc /\ Readable = EmptyDoc
  BY DEF Readable, Contents
<1>3. IsDocument(Readable)
  BY <1>1, <1>2, EmptyIsDocument
<1>4. RemovedInv => \A r \in removed : Forgets(Readable, r)
  BY <1>2, EmptyIsDocument DEF RemovedInv, Files
<1> QED
  BY <1>2, <1>3, <1>4 DEF IsDocument

LEMMA KeepsLess ==
    ASSUME NEW doc, NEW promises, NEW packages, Keeps(doc, promises, packages),
           NEW fewer \in SUBSET promises, NEW needed \in SUBSET packages
    PROVE  Keeps(doc, fewer, needed)
BY DEF Keeps

\* A dictionary of a new package.
LEMMA WithPackageIs ==
    ASSUME TermInv, NEW p \in Identities, Named(p) = {} \/ p = "file"
    PROVE  LET doc == WithPackage(p) IN
           /\ IsDocument(doc) /\ doc.notes = Readable.notes
           /\ Readable.dictionaries \subseteq doc.dictionaries
           /\ \E d \in doc.dictionaries : d.package = p
<1> DEFINE new == [id |-> FreshId, package |-> p]
<1>1. IsDocument(Readable) /\ Readable \in Docs
  BY ReadableIs DEF TermInv
<1>2. FreshId \in Nat
  BY <1>1, FS_CardinalityType DEF FreshId, IsDocument
<1>3. new \in Dictionary /\ new.package = p
  BY <1>2 DEF Dictionary
<1>4. PICK doc : doc = WithPackage(p)
  OBVIOUS
<1>5. PICK d : d = new
  OBVIOUS
<1>6. doc = [Readable EXCEPT !.dictionaries = Readable.dictionaries \cup {d}]
  BY <1>4, <1>5 DEF WithPackage
<1>7. d \in Dictionary /\ d.package = p
  BY <1>3, <1>5
<1>8. /\ doc \in Docs /\ doc.dictionaries = Readable.dictionaries \cup {d}
      /\ doc.notes = Readable.notes
  <2> HIDE DEF new
  <2> QED
    BY <1>1, <1>6, <1>7 DEF Docs
<1>9. IsFiniteSet(doc.dictionaries)
  BY <1>1, <1>8, FS_AddElement DEF IsDocument
<1>10. \A a, b \in doc.dictionaries : a.package = b.package /\ a.package # "file" => a = b
  BY <1>1, <1>7, <1>8 DEF IsDocument, Named
<1> QED
  BY <1>4, <1>7, <1>8, <1>9, <1>10 DEF IsDocument

-----------------------------------------------------------------------------
(* A change begins                                                         *)

\* What every change must hold to.
GoodChange(op, of, token, doc, promises) ==
    /\ op \in {"import", "enable", "note", "remove"}
    /\ of \in TermRecordings \cup Identities /\ token \in Tokens \cup {0}
    /\ IsDocument(doc)
    /\ \A r \in removed : Forgets(doc, r)
    /\ ~cut => Keeps(doc, promises, Needed)
    /\ op = "import" => \E d \in doc.dictionaries : d.package = of
    /\ op = "remove" => of \in deletedRecs /\ Forgets(doc, of)
    /\ token # 0 => /\ op = "import" /\ packageJob[token].state = "import"
                    /\ packageJob[token].package = of

LEMMA BeginStep ==
    ASSUME TermInv, writing.pc = "idle", NEW op, NEW of, NEW token, NEW doc,
           StartWrite(op, of, token, doc), promised' \subseteq promised,
           UNCHANGED <<disk, removed, deletedRecs, cut, staged, packageJob, request, withdrawn>>,
           GoodChange(op, of, token, doc, promised')
    PROVE  TermInv'
<1>1. /\ writing'.pc = "stage" /\ writing'.doc = doc /\ writing'.op = op /\ writing'.of = of
      /\ writing'.token = token
      /\ writing'.only <=> disk["target"] = NoDoc /\ disk["backup"] # NoDoc
      /\ writing' \in Writings
  BY DEF StartWrite, GoodChange, IsDocument, WritePcs, Writings
<1>2. TermTypeOK'
  BY <1>1 DEF TermInv, TermTypeOK, GoodChange, IsDocument
<1>3. StageInv'
  BY <1>1 DEF TermInv, StageInv, JobOK, WriterInv, GoodChange
<1>4. RemovedInv'
  BY <1>1 DEF TermInv, RemovedInv, GoodChange, Forgets
<1>5. Needed' = Needed /\ Readable' = Readable
  BY DEF Needed, Lacking, Readable, Contents
<1>6. ~cut => Keeps(writing'.doc, promised', Needed')
  BY <1>1, <1>5 DEF GoodChange
<1>7. ~cut => Keeps(Readable', promised', Needed')
  BY <1>5, KeepsLess DEF TermInv, PromiseInv, Bare
<1>8. PromiseInv'
  BY <1>1, <1>6, <1>7 DEF PromiseInv
<1> QED
  BY <1>2, <1>3, <1>4, <1>8 DEF TermInv

Void(of, about) == {x \in promised : ~("rec" \in DOMAIN x /\ x.rec = of /\ x.about \in about)}

LEMMA ChangeStep ==
    ASSUME TermInv, NEW op, NEW of, NEW about, NEW doc, ChangeDocument(op, of, about, doc),
           GoodChange(op, of, 0, doc, Void(of, about))
    PROVE  TermInv'
<1>1. promised' = Void(of, about)
  BY DEF ChangeDocument, Void
<1>2. promised' \subseteq promised
  BY <1>1 DEF Void
<1> QED
  BY <1>1, <1>2, BeginStep DEF ChangeDocument, stageVars

\* What the reader finds while nothing is written.
LEMMA WhenIdle ==
    ASSUME TermInv, writing.pc = "idle"
    PROVE  /\ IsDocument(Readable) /\ Readable \in Docs
           /\ ~cut => Keeps(Readable, promised, Needed)
           /\ \A r \in removed : Forgets(Readable, r)
BY ReadableIs DEF TermInv, PromiseInv, Bare

LEMMA ImportIsGood ==
    ASSUME TermInv, writing.pc = "idle", NEW p \in Identities, Named(p) = {} \/ p = "file",
           NEW token \in Tokens \cup {0}, NEW promises \in SUBSET promised,
           token # 0 => packageJob[token].state = "import" /\ packageJob[token].package = p
    PROVE  GoodChange("import", p, token, WithPackage(p), promises)
<1>1. PICK doc : doc = WithPackage(p)
  OBVIOUS
<1>2. /\ IsDocument(doc) /\ doc.notes = Readable.notes
      /\ Readable.dictionaries \subseteq doc.dictionaries
      /\ \E d \in doc.dictionaries : d.package = p
  BY <1>1, WithPackageIs
<1>3. ~cut => Keeps(doc, promises, Needed)
  BY <1>2, WhenIdle DEF Keeps
<1>4. \A r \in removed : Forgets(doc, r)
  BY <1>2, WhenIdle DEF Forgets
<1> QED
  BY <1>1, <1>2, <1>3, <1>4 DEF GoodChange

LEMMA ImportStep ==
    ASSUME TermInv, EnsureGeneral \/ ImportDictionary
    PROVE  TermInv'
<1>1. CASE EnsureGeneral
  <2>1. /\ Named("general") = {} /\ writing.pc = "idle"
        /\ ChangeDocument("import", "general", {}, WithPackage("general"))
    BY <1>1 DEF EnsureGeneral, ChangeDocument
  <2>2. Void("general", {}) \in SUBSET promised
    BY DEF Void
  <2>3. GoodChange("import", "general", 0, WithPackage("general"), Void("general", {}))
    BY <2>1, <2>2, ImportIsGood DEF Identities
  <2> QED
    BY <2>1, <2>3, ChangeStep
<1>2. CASE ImportDictionary
  <2>1. /\ writing.pc = "idle"
        /\ ChangeDocument("import", "file", {}, WithPackage("file"))
    BY <1>2 DEF ImportDictionary, ChangeDocument
  <2>2. Void("file", {}) \in SUBSET promised
    BY DEF Void
  <2>3. GoodChange("import", "file", 0, WithPackage("file"), Void("file", {}))
    BY <2>1, <2>2, ImportIsGood DEF Identities
  <2> QED
    BY <2>1, <2>3, ChangeStep
<1> QED
  BY <1>1, <1>2

LEMMA SetEnabledStep ==
    ASSUME TermInv, NEW d \in Readable.dictionaries, SetEnabled(d)
    PROVE  TermInv'
<1>1. ChangeDocument("enable", d.package, {}, Readable) /\ writing.pc = "idle"
  BY DEF SetEnabled, ChangeDocument
<1>2. d \in Dictionary
  BY <1>1, WhenIdle DEF Docs
<1>3. d.package \in Identities
  BY <1>2 DEF Dictionary
<1>4. ~cut => Keeps(Readable, Void(d.package, {}), Needed)
  BY <1>1, WhenIdle DEF Keeps, Void
<1>5. GoodChange("enable", d.package, 0, Readable, Void(d.package, {}))
  BY <1>1, <1>3, <1>4, WhenIdle DEF GoodChange
<1> QED
  BY <1>1, <1>5, ChangeStep

\* A note is written for a recording that is not deleted.
LEMMA NoteStep ==
    ASSUME TermInv, NEW r \in TermRecordings, r \notin deletedRecs, NEW about \in Nat,
           NEW value \in BOOLEAN, NEW notes \in SUBSET Readable.notes,
           \A n \in Readable.notes : n \in notes \/ (n.rec = r /\ n.about = about),
           ChangeDocument("note", r, {about},
               [Readable EXCEPT !.notes = notes \cup {[rec |-> r, about |-> about, value |-> value]}])
    PROVE  TermInv'
<1>1. PICK n : n = [rec |-> r, about |-> about, value |-> value]
  OBVIOUS
<1>2. n \in Note /\ n.rec = r
  BY <1>1 DEF Note
<1>3. PICK doc : doc = [Readable EXCEPT !.notes = notes \cup {n}]
  OBVIOUS
<1>4. ChangeDocument("note", r, {about}, doc) /\ writing.pc = "idle"
  BY <1>1, <1>3 DEF ChangeDocument
<1>5. Readable \in Docs /\ IsDocument(Readable)
  BY <1>4, WhenIdle
<1>6. doc \in Docs /\ doc.notes = notes \cup {n} /\ doc.dictionaries = Readable.dictionaries
  BY <1>2, <1>3, <1>5 DEF Docs
<1>7. IsDocument(doc)
  BY <1>5, <1>6 DEF IsDocument
<1>8. \A s \in removed : Forgets(doc, s)
  BY <1>2, <1>4, <1>6, WhenIdle DEF Forgets, TermInv, RemovedInv
<1>9. ASSUME ~cut
      PROVE  Keeps(doc, Void(r, {about}), Needed)
  <2>1. ASSUME NEW x \in Void(r, {about}), "rec" \in DOMAIN x
        PROVE  x \in doc.notes
    BY <1>4, <1>6, <1>9, <2>1, WhenIdle DEF Void, Keeps
  <2>2. ASSUME NEW x \in Void(r, {about}), "rec" \notin DOMAIN x
        PROVE  \E d \in doc.dictionaries : d.package = x.dictionary
    BY <1>4, <1>6, <1>9, <2>2, WhenIdle DEF Void, Keeps
  <2>3. \A p \in Needed : \E d \in doc.dictionaries : d.package = p
    BY <1>4, <1>6, <1>9, WhenIdle DEF Keeps
  <2> QED
    BY <2>1, <2>2, <2>3 DEF Keeps
<1>10. GoodChange("note", r, 0, doc, Void(r, {about}))
  BY <1>7, <1>8, <1>9 DEF GoodChange
<1> QED
  BY <1>4, <1>10, ChangeStep

LEMMA AssignStep ==
    ASSUME TermInv, NEW r \in TermRecordings, NEW d \in Readable.dictionaries, NEW on \in BOOLEAN,
           Assign(r, d, on)
    PROVE  TermInv'
<1>1. PICK notes : notes = {n \in Readable.notes : ~(n.rec = r /\ n.about = d.id)}
  OBVIOUS
<1>2. d.id \in Nat
  BY ReadableIs DEF TermInv, Docs, Dictionary
<1>3. /\ r \notin deletedRecs
      /\ ChangeDocument("note", r, {d.id},
               [Readable EXCEPT !.notes = notes \cup {[rec |-> r, about |-> d.id, value |-> on]}])
  BY <1>1 DEF Assign
<1>4. notes \in SUBSET Readable.notes /\ \A n \in Readable.notes : n \in notes \/ (n.rec = r /\ n.about = d.id)
  BY <1>1
<1> QED
  BY <1>2, <1>3, <1>4, NoteStep

LEMMA DecideStep ==
    ASSUME TermInv, NEW r \in TermRecordings, NEW accepted \in BOOLEAN, Decide(r, accepted)
    PROVE  TermInv'
<1>1. /\ r \notin deletedRecs
      /\ ChangeDocument("note", r, {0},
               [Readable EXCEPT !.notes = Readable.notes \cup {[rec |-> r, about |-> 0, value |-> accepted]}])
  BY DEF Decide
<1> QED
  BY <1>1, NoteStep

LEMMA RemoveNotesStep ==
    ASSUME TermInv, NEW r \in TermRecordings, RemoveNotes(r)
    PROVE  TermInv'
<1>1. PICK notes : notes = {n \in Readable.notes : n.rec # r}
  OBVIOUS
<1>2. PICK doc : doc = [Readable EXCEPT !.notes = notes]
  OBVIOUS
<1>3. ChangeDocument("remove", r, Nat, doc) /\ writing.pc = "idle" /\ r \in deletedRecs
  BY <1>1, <1>2 DEF RemoveNotes, ChangeDocument
<1>4. Readable \in Docs /\ IsDocument(Readable)
  BY <1>3, WhenIdle
<1>5. doc \in Docs /\ doc.notes = notes /\ doc.dictionaries = Readable.dictionaries
  BY <1>1, <1>2, <1>4 DEF Docs
<1>6. IsDocument(doc)
  BY <1>4, <1>5 DEF IsDocument
<1>7. Forgets(doc, r) /\ \A s \in removed : Forgets(doc, s)
  BY <1>1, <1>3, <1>5, WhenIdle DEF Forgets
<1>8. ASSUME ~cut
      PROVE  Keeps(doc, Void(r, Nat), Needed)
  <2>1. ASSUME NEW x \in Void(r, Nat), "rec" \in DOMAIN x
        PROVE  x \in doc.notes
    <3>1. x \in Readable.notes
      BY <1>3, <1>8, <2>1, WhenIdle DEF Void, Keeps
    <3>2. x \in Note
      BY <1>4, <3>1 DEF Docs
    <3>3. x.rec # r
      BY <2>1, <3>2 DEF Void, Note
    <3> QED
      BY <1>1, <1>5, <3>1, <3>3
  <2>2. ASSUME NEW x \in Void(r, Nat), "rec" \notin DOMAIN x
        PROVE  \E d \in doc.dictionaries : d.package = x.dictionary
    BY <1>3, <1>5, <1>8, <2>2, WhenIdle DEF Void, Keeps
  <2>3. \A p \in Needed : \E d \in doc.dictionaries : d.package = p
    BY <1>3, <1>5, <1>8, WhenIdle DEF Keeps
  <2> QED
    BY <2>1, <2>2, <2>3 DEF Keeps
<1>9. GoodChange("remove", r, 0, doc, Void(r, Nat))
  BY <1>3, <1>6, <1>7, <1>8 DEF GoodChange
<1> QED
  BY <1>3, <1>9, ChangeStep

-----------------------------------------------------------------------------
(* The steps of a write                                                    *)

\* Every file holds what some file held, or the document that is written.
FilesFrom ==
    /\ disk' \in [Files -> Docs \cup {NoDoc}]
    /\ \A f \in Files : disk'[f] \in {NoDoc, writing.doc} \cup {disk[g] : g \in Files}

LEMMA FilesKept ==
    ASSUME TermInv, FilesFrom
    PROVE  \A f \in Files : disk'[f] # NoDoc =>
               /\ IsDocument(disk'[f])
               /\ \A r \in removed : Forgets(disk'[f], r)
BY DEF TermInv, TermTypeOK, RemovedInv, FilesFrom

LEMMA ProceedStep ==
    ASSUME TermInv, FilesFrom, NEW pc \in WritePcs, Proceed(pc), writing.pc # "idle",
           pc = "clean" => disk'["temp"] = NoDoc /\ disk'["target"] = writing.doc,
           pc = "aside" => disk'["backup"] = NoDoc,
           pc = "commit" => disk'["target"] = NoDoc,
           pc \in {"stage", "rotate"} =>
               (writing.only <=> disk'["target"] = NoDoc /\ disk'["backup"] # NoDoc),
           ~cut /\ ~(writing.only /\ pc \in {"aside", "commit"}) => Keeps(Readable', promised, Needed)
    PROVE  TermInv'
<1>1. /\ writing' = [writing EXCEPT !.pc = pc]
      /\ UNCHANGED <<staged, packageJob, request, withdrawn, promised, removed, deletedRecs, cut>>
  BY DEF Proceed, stageVars
<1>2. /\ writing'.pc = pc /\ writing'.doc = writing.doc /\ writing'.op = writing.op
      /\ writing'.of = writing.of /\ writing'.token = writing.token /\ writing'.only = writing.only
      /\ writing' \in Writings
  BY <1>1 DEF TermInv, TermTypeOK, Writings
<1>3. pc # "idle"
  BY DEF WritePcs
<1>4. TermTypeOK'
  BY <1>1, <1>2, <1>3, FilesKept DEF TermInv, TermTypeOK, FilesFrom
<1>5. StageInv'
  BY <1>1, <1>2 DEF TermInv, StageInv, JobOK, WriterInv
<1>6. RemovedInv'
  BY <1>1, <1>2, FilesKept DEF TermInv, RemovedInv
<1>7. Needed' = Needed
  BY <1>1 DEF Needed, Lacking
<1>8. PromiseInv'
  BY <1>1, <1>2, <1>3, <1>7 DEF TermInv, PromiseInv, Bare
<1> QED
  BY <1>4, <1>5, <1>6, <1>8 DEF TermInv

\* The change is given up: the reader finds what it found, unless that was
\* the change itself.
LEMMA GivenUp ==
    ASSUME TermInv, FilesFrom, GiveUpWrite, Readable' = Readable,
           UNCHANGED <<promised, removed, deletedRecs>>, packageJob' \in [Tokens -> PackageJobs],
           \A t \in Tokens : JobOK(t)', Needed' \subseteq Needed
    PROVE  TermInv'
<1>1. writing' = NotWriting /\ cut' \in BOOLEAN /\ (~cut' => ~cut /\ ~Bare)
  BY DEF GiveUpWrite, Bare, TermInv, TermTypeOK
<1>2. TermTypeOK'
  BY <1>1, FilesKept, NotWritingIs, EmptyIsDocument DEF TermInv, TermTypeOK, FilesFrom
<1>3. StageInv'
  BY <1>1, NotWritingIs DEF StageInv, WriterInv
<1>4. RemovedInv'
  BY <1>1, FilesKept, NotWritingIs, EmptyIsDocument DEF TermInv, RemovedInv
<1>5. ~cut' => Keeps(Readable', promised', Needed')
  BY <1>1, KeepsLess DEF TermInv, PromiseInv
<1>6. PromiseInv'
  BY <1>1, <1>5, NotWritingIs DEF PromiseInv
<1> QED
  BY <1>2, <1>3, <1>4, <1>6 DEF TermInv

\* A job ends as failed, or as cancelled when it was asked to.
LEMMA FailedIs ==
    ASSUME TermInv, NEW t \in Tokens, NEW retry \in BOOLEAN,
           packageJob' = [packageJob EXCEPT ![t] = FailedJob(packageJob[t], retry)]
    PROVE  /\ packageJob' \in [Tokens -> PackageJobs]
           /\ \A u \in Tokens \ {t} : packageJob'[u] = packageJob[u]
           /\ packageJob'[t].package = packageJob[t].package
           /\ packageJob'[t].ask = packageJob[t].ask
           /\ packageJob'[t].state = IF packageJob[t].ask THEN "cancelled" ELSE "failed"
           /\ packageJob'[t].held <=> packageJob[t].held /\ (packageJob[t].ask \/ retry)
<1>1. PICK job \in PackageJobs : job = packageJob[t]
  BY DEF TermInv, TermTypeOK
<1>2. PICK over : over = FailedJob(job, retry)
  OBVIOUS
<1>3. PICK state : state = IF job.ask THEN "cancelled" ELSE "failed"
  OBVIOUS
<1>4. PICK held \in BOOLEAN : held <=> job.held /\ (job.ask \/ retry)
  BY <1>1 DEF PackageJobs
<1>5. state \in JobStates
  BY <1>3 DEF JobStates, Over
<1>6. over = [job EXCEPT !.state = state, !.held = held]
  BY <1>1, <1>2, <1>3, <1>4 DEF FailedJob, PackageJobs
<1>7. /\ over \in PackageJobs /\ over.package = job.package /\ over.ask = job.ask
      /\ over.state = state /\ over.held = held
  BY <1>1, <1>5, <1>6 DEF PackageJobs
<1>8. packageJob' = [packageJob EXCEPT ![t] = over]
  BY <1>1, <1>2
<1>9. /\ packageJob' \in [Tokens -> PackageJobs] /\ packageJob'[t] = over
      /\ \A u \in Tokens \ {t} : packageJob'[u] = packageJob[u]
  BY <1>7, <1>8 DEF TermInv, TermTypeOK
<1> QED
  BY <1>1, <1>3, <1>4, <1>7, <1>9

\* One job moves on and the others keep theirs.
LEMMA OthersKeep ==
    ASSUME TermInv, NEW t \in Tokens, UNCHANGED <<request, withdrawn>>,
           \A u \in Tokens \ {t} : packageJob'[u] = packageJob[u] /\ (u \in staged' <=> u \in staged),
           JobOK(t)'
    PROVE  /\ \A u \in Tokens : JobOK(u)'
           /\ \A p \in Needed' : p \in Needed \/ (p = packageJob'[t].package /\ Lacking(t)')
<1>1. ASSUME NEW u \in Tokens \ {t}
      PROVE  JobOK(u)' /\ (Lacking(u)' <=> Lacking(u))
  BY <1>1 DEF TermInv, StageInv, JobOK, Lacking
<1>2. \A u \in Tokens : JobOK(u)'
  BY <1>1
<1>3. ASSUME NEW p \in Needed', p \notin Needed
      PROVE  p = packageJob'[t].package /\ Lacking(t)'
  <2>1. PICK u \in Tokens : packageJob'[u].package = p /\ Lacking(u)' /\ p \in Identities
    BY <1>3 DEF Needed
  <2>2. u = t
    BY <1>1, <1>3, <2>1 DEF Needed
  <2> QED
    BY <2>1, <2>2
<1> QED
  BY <1>2, <1>3

\* A job that gives its package up needs nothing more.
LEMMA GiveUpJob ==
    ASSUME TermInv, NEW t \in Tokens, packageJob[t].state \in {"queued", "import"},
           GiveUpPackage(t), UNCHANGED <<request, withdrawn>>
    PROVE  /\ packageJob' \in [Tokens -> PackageJobs]
           /\ \A u \in Tokens : JobOK(u)'
           /\ \A u \in Tokens \ {t} : packageJob'[u] = packageJob[u]
           /\ Needed' \subseteq Needed
<1>1. JobOK(t) /\ packageJob[t] \in PackageJobs
  BY DEF TermInv, TermTypeOK, StageInv
<1>2. PICK retry \in BOOLEAN :
         /\ packageJob' = [packageJob EXCEPT ![t] = FailedJob(packageJob[t], retry)]
         /\ staged' = IF retry THEN staged ELSE staged \ {t}
  BY DEF GiveUpPackage
<1>3. /\ packageJob' \in [Tokens -> PackageJobs]
      /\ \A u \in Tokens \ {t} : packageJob'[u] = packageJob[u]
      /\ packageJob'[t].package = packageJob[t].package
      /\ packageJob'[t].ask = packageJob[t].ask
      /\ packageJob'[t].state = IF packageJob[t].ask THEN "cancelled" ELSE "failed"
      /\ packageJob'[t].held <=> packageJob[t].held /\ (packageJob[t].ask \/ retry)
  BY <1>2, FailedIs
<1>4. JobOK(t)'
  BY <1>1, <1>3 DEF JobOK, Busy, Over
<1>5. Lacking(t)' => Lacking(t)
  BY <1>1, <1>2, <1>3 DEF Lacking, CanRun, JobOK
<1>6. \A u \in Tokens \ {t} : u \in staged' <=> u \in staged
  BY <1>2
<1>7. \A p \in Needed' : p \in Needed \/ (p = packageJob'[t].package /\ Lacking(t)')
  BY <1>3, <1>4, <1>6, OthersKeep
<1>8. Lacking(t)' => packageJob[t].package \in Needed
  BY <1>1, <1>5 DEF Needed, PackageJobs
<1> QED
  BY <1>3, <1>4, <1>6, <1>7, <1>8, OthersKeep

LEMMA WriteFailsStep ==
    ASSUME TermInv, WriteFails, FilesFrom, Readable' = Readable
    PROVE  TermInv'
<1>1. GiveUpWrite /\ UNCHANGED <<promised, removed, deletedRecs, request, withdrawn>>
  BY DEF WriteFails
<1>2. CASE writing.token # 0
  <2>1. PICK t \in Tokens : t = writing.token
    BY <1>2 DEF TermInv, TermTypeOK, Writings
  <2>2. GiveUpPackage(t) /\ packageJob[t].state = "import"
    BY <1>2, <2>1 DEF WriteFails, TermInv, StageInv, WriterInv
  <2>3. /\ packageJob' \in [Tokens -> PackageJobs] /\ Needed' \subseteq Needed
        /\ \A u \in Tokens : JobOK(u)'
    BY <1>1, <2>2, GiveUpJob
  <2> QED
    BY <1>1, <2>3, GivenUp
<1>3. CASE writing.token = 0
  <2>1. UNCHANGED <<packageJob, staged>>
    BY <1>3 DEF WriteFails
  <2>2. Needed' = Needed /\ \A u \in Tokens : JobOK(u)'
    BY <1>1, <2>1 DEF Needed, Lacking, TermInv, StageInv, JobOK
  <2> QED
    BY <1>1, <2>1, <2>2, GivenUp DEF TermInv, TermTypeOK
<1> QED
  BY <1>2, <1>3

LEMMA WriteTempStep ==
    ASSUME TermInv, WriteTemp
    PROVE  TermInv'
<1>1. /\ disk' \in [Files -> Docs \cup {NoDoc}] /\ disk'["temp"] = writing.doc
      /\ disk'["target"] = disk["target"] /\ disk'["backup"] = disk["backup"]
  BY DEF WriteTemp, TermInv, TermTypeOK, Writings, Files
<1>2. FilesFrom
  BY <1>1 DEF FilesFrom, Files
<1>3. Readable' = Readable
  BY <1>1 DEF Readable, Contents
<1>4. CASE Proceed("rotate")
  BY <1>1, <1>2, <1>3, <1>4, ProceedStep DEF WriteTemp, WritePcs, TermInv, PromiseInv, Bare
<1>5. CASE WriteFails
  BY <1>2, <1>3, <1>5, WriteFailsStep
<1> QED
  BY <1>4, <1>5 DEF WriteTemp

LEMMA SameFiles ==
    ASSUME TermInv, UNCHANGED disk
    PROVE  FilesFrom /\ Readable' = Readable
BY DEF TermInv, TermTypeOK, FilesFrom, Readable, Contents

LEMMA DropBackupStep ==
    ASSUME TermInv, DropBackup
    PROVE  TermInv'
<1>1. CASE disk' = [disk EXCEPT !["backup"] = NoDoc] /\ Proceed("aside")
  <2>1. /\ disk' \in [Files -> Docs \cup {NoDoc}] /\ disk'["backup"] = NoDoc
        /\ disk'["target"] = disk["target"] /\ disk'["temp"] = disk["temp"]
    BY <1>1 DEF TermInv, TermTypeOK, Files
  <2>2. FilesFrom
    BY <2>1 DEF FilesFrom, Files
  <2>3. writing.pc = "rotate" /\ (writing.only <=> disk["target"] = NoDoc /\ disk["backup"] # NoDoc)
    BY DEF DropBackup, TermInv, PromiseInv
  <2>4. ~writing.only => Readable' = Readable
    BY <2>1, <2>3 DEF Readable, Contents
  <2>5. ~cut /\ ~writing.only => Keeps(Readable', promised, Needed)
    BY <2>3, <2>4 DEF TermInv, PromiseInv, Bare
  <2> QED
    BY <1>1, <2>1, <2>2, <2>3, <2>5, ProceedStep DEF WritePcs
<1>2. CASE UNCHANGED disk /\ WriteFails
  BY <1>2, SameFiles, WriteFailsStep
<1> QED
  BY <1>1, <1>2 DEF DropBackup

LEMMA SetTargetAsideStep ==
    ASSUME TermInv, SetTargetAside
    PROVE  TermInv'
<1>1. CASE disk["target"] = NoDoc /\ UNCHANGED disk /\ Proceed("commit")
  BY <1>1, SameFiles, ProceedStep DEF SetTargetAside, WritePcs, TermInv, PromiseInv, Bare
<1>2. CASE /\ disk["target"] # NoDoc /\ Proceed("commit")
           /\ disk' = [disk EXCEPT !["backup"] = disk["target"], !["target"] = NoDoc]
  <2>1. /\ disk' \in [Files -> Docs \cup {NoDoc}] /\ disk'["backup"] = disk["target"]
        /\ disk'["target"] = NoDoc /\ disk'["temp"] = disk["temp"]
    BY <1>2 DEF TermInv, TermTypeOK, Files
  <2>2. FilesFrom
    BY <2>1 DEF FilesFrom, Files
  <2>3. Readable' = Readable
    BY <1>2, <2>1 DEF Readable, Contents
  <2> QED
    BY <1>2, <2>1, <2>2, <2>3, ProceedStep DEF SetTargetAside, WritePcs, TermInv, PromiseInv, Bare
<1>3. CASE UNCHANGED disk /\ WriteFails
  BY <1>3, SameFiles, WriteFailsStep
<1> QED
  BY <1>1, <1>2, <1>3 DEF SetTargetAside

LEMMA CommitDocumentStep ==
    ASSUME TermInv, CommitDocument
    PROVE  TermInv'
<1>1. disk["target"] = NoDoc /\ writing.pc = "commit" /\ writing.doc \in Docs
  BY DEF CommitDocument, TermInv, TermTypeOK, Writings, PromiseInv
<1>2. CASE disk' = [disk EXCEPT !["target"] = writing.doc, !["temp"] = NoDoc] /\ Proceed("clean")
  <2>1. /\ disk' \in [Files -> Docs \cup {NoDoc}] /\ disk'["backup"] = disk["backup"]
        /\ disk'["target"] = writing.doc /\ disk'["temp"] = NoDoc
    BY <1>1, <1>2 DEF TermInv, TermTypeOK, Files
  <2>2. FilesFrom
    BY <2>1 DEF FilesFrom, Files
  <2>3. Readable' = writing.doc
    BY <1>1, <2>1, NoDocIsNone DEF Readable
  <2> QED
    BY <1>1, <1>2, <2>1, <2>2, <2>3, ProceedStep DEF WritePcs, TermInv, PromiseInv
<1>3. CASE disk' = [disk EXCEPT !["target"] = disk["backup"], !["backup"] = NoDoc] /\ WriteFails
  <2>1. /\ disk' \in [Files -> Docs \cup {NoDoc}] /\ disk'["target"] = disk["backup"]
        /\ disk'["backup"] = NoDoc /\ disk'["temp"] = disk["temp"]
    BY <1>3 DEF TermInv, TermTypeOK, Files
  <2>2. FilesFrom
    BY <2>1 DEF FilesFrom, Files
  <2>3. Readable' = Readable
    BY <1>1, <2>1 DEF Readable, Contents
  <2> QED
    BY <1>3, <2>2, <2>3, WriteFailsStep
<1>4. CASE UNCHANGED disk /\ WriteFails
  BY <1>4, SameFiles, WriteFailsStep
<1> QED
  BY <1>2, <1>3, <1>4 DEF CommitDocument

LEMMA BecomesIs ==
    ASSUME TermInv, NEW t \in Tokens, NEW state \in JobStates, Becomes(t, state)
    PROVE  /\ packageJob' \in [Tokens -> PackageJobs]
           /\ \A u \in Tokens \ {t} : packageJob'[u] = packageJob[u]
           /\ packageJob'[t].package = packageJob[t].package /\ packageJob'[t].state = state
           /\ packageJob'[t].ask = packageJob[t].ask /\ packageJob'[t].held = packageJob[t].held
BY DEF Becomes, TermInv, TermTypeOK, PackageJobs

LEMMA RemovePriorStep ==
    ASSUME TermInv, RemovePrior
    PROVE  TermInv'
<1>1. CASE UNCHANGED disk /\ WriteFails
  BY <1>1, SameFiles, WriteFailsStep
<1>2. CASE /\ disk' = [disk EXCEPT !["backup"] = NoDoc] /\ Told /\ writing' = NotWriting
           /\ UNCHANGED <<deletedRecs, cut, staged, request, withdrawn>>
  <2>1. /\ disk' \in [Files -> Docs \cup {NoDoc}] /\ disk'["target"] = writing.doc
        /\ disk'["backup"] = NoDoc /\ disk'["temp"] = NoDoc
    BY <1>2 DEF RemovePrior, TermInv, TermTypeOK, RemovedInv, PromiseInv, Files
  <2>2. writing.doc \in Docs /\ IsDocument(writing.doc) /\ (~cut => Keeps(writing.doc, promised, Needed))
    BY DEF RemovePrior, TermInv, TermTypeOK, PromiseInv, IsDocument
  <2>3. Readable' = writing.doc
    BY <2>1, <2>2, NoDocIsNone DEF Readable
  <2>4. writing.op = "import" =>
           writing.of \in Identities /\ \E d \in writing.doc.dictionaries : d.package = writing.of
    BY <2>2 DEF TermInv, StageInv, WriterInv, Docs, Dictionary
  <2>5. /\ promised' \subseteq Note \cup Promise
        /\ ~cut => \A x \in promised' :
              IF "rec" \in DOMAIN x THEN x \in writing.doc.notes
              ELSE \E d \in writing.doc.dictionaries : d.package = x.dictionary
    <3>1. CASE writing.op = "import"
      <4>1. PICK y : y = [dictionary |-> writing.of]
        OBVIOUS
      <4>2. y \in Promise /\ "rec" \notin DOMAIN y /\ y.dictionary = writing.of
        BY <2>4, <3>1, <4>1 DEF Promise
      <4>3. promised' = promised \cup {y}
        BY <1>2, <3>1, <4>1 DEF Told
      <4> QED
        BY <2>2, <2>4, <3>1, <4>2, <4>3 DEF Keeps, TermInv, TermTypeOK
    <3>2. CASE writing.op = "note"
      <4>1. promised' = {x \in promised : "rec" \notin DOMAIN x}
                          \cup {n \in writing.doc.notes : n.rec \notin deletedRecs}
        BY <1>2, <3>2 DEF Told
      <4>2. writing.doc.notes \subseteq Note
        BY <2>2 DEF Docs
      <4>3. \A n \in Note : "rec" \in DOMAIN n
        BY DEF Note
      <4> QED
        BY <2>2, <4>1, <4>2, <4>3 DEF Keeps, TermInv, TermTypeOK
    <3>3. CASE writing.op \notin {"import", "note"}
      <4>1. promised' = promised
        BY <1>2, <3>3 DEF Told
      <4> QED
        BY <2>2, <4>1 DEF Keeps, TermInv, TermTypeOK
    <3> QED
      BY <3>1, <3>2, <3>3
  <2>6. /\ packageJob' \in [Tokens -> PackageJobs]
        /\ \A t \in Tokens : JobOK(t)'
        /\ \A p \in Needed' : p \in Needed \/ (writing.op = "import" /\ p = writing.of)
    <3>1. CASE writing.token = 0
      BY <1>2, <3>1 DEF Told, TermInv, TermTypeOK, StageInv, JobOK, Needed, Lacking
    <3>2. CASE writing.token # 0
      <4>1. PICK t \in Tokens : t = writing.token
        BY <3>2 DEF TermInv, TermTypeOK, Writings
      <4>2. /\ packageJob[t].package = writing.of /\ packageJob[t].state = "import"
            /\ writing.op = "import" /\ JobOK(t)
        BY <3>2, <4>1 DEF TermInv, StageInv, WriterInv
      <4>3. Becomes(t, "unstage") /\ staged' = staged
        BY <1>2, <3>2, <4>1 DEF Told, Becomes
      <4>4. /\ packageJob' \in [Tokens -> PackageJobs]
            /\ \A u \in Tokens \ {t} : packageJob'[u] = packageJob[u]
            /\ packageJob'[t].package = writing.of /\ packageJob'[t].state = "unstage"
            /\ packageJob'[t].ask = packageJob[t].ask /\ packageJob'[t].held = packageJob[t].held
        BY <4>2, <4>3, BecomesIs DEF JobStates, Busy
      <4>5. JobOK(t)'
        BY <1>2, <4>2, <4>4 DEF JobOK, Busy, Over
      <4> QED
        BY <1>2, <4>2, <4>3, <4>4, <4>5, OthersKeep
    <3> QED
      BY <3>1, <3>2
  <2>7. ~cut => Keeps(Readable', promised', Needed')
    BY <2>2, <2>3, <2>4, <2>5, <2>6 DEF Keeps
  <2>8. TermTypeOK'
    BY <1>2, <2>1, <2>2, <2>5, <2>6, NotWritingIs, EmptyIsDocument, NoDocIsNone
    DEF TermInv, TermTypeOK, Files
  <2>9. StageInv'
    BY <1>2, <2>6, NotWritingIs DEF StageInv, WriterInv
  <2>10. RemovedInv'
    <3>1. \A r \in removed' : r \in deletedRecs /\ Forgets(writing.doc, r)
      BY <1>2 DEF Told, TermInv, RemovedInv
    <3> QED
      BY <1>2, <2>1, <3>1, NotWritingIs, EmptyIsDocument DEF RemovedInv, Files
  <2>11. PromiseInv'
    BY <1>2, <2>1, <2>7, NotWritingIs DEF TermInv, PromiseInv
  <2> QED
    BY <2>8, <2>9, <2>10, <2>11 DEF TermInv
<1> QED
  BY <1>1, <1>2 DEF RemovePrior

-----------------------------------------------------------------------------
(* The packages                                                            *)

LEMMA PackagesKeep ==
    ASSUME TermInv, UNCHANGED documentVars,
           packageJob' \in [Tokens -> PackageJobs], \A t \in Tokens : JobOK(t)',
           writing.token # 0 => /\ packageJob'[writing.token].state = packageJob[writing.token].state
                                /\ packageJob'[writing.token].package = packageJob[writing.token].package,
           \A p \in Needed' : \/ p \in Needed
                              \/ writing.pc = "idle" /\ \E d \in Readable.dictionaries : d.package = p
    PROVE  TermInv'
<1>1. UNCHANGED <<disk, writing, promised, removed, deletedRecs, cut>>
  BY DEF documentVars
<1>2. TermTypeOK'
  BY <1>1 DEF TermInv, TermTypeOK
<1>3. StageInv'
  BY <1>1 DEF TermInv, StageInv, WriterInv
<1>4. RemovedInv'
  BY <1>1 DEF TermInv, RemovedInv, Forgets
<1>5. Readable' = Readable
  BY <1>1 DEF Readable, Contents
<1>6. ~cut /\ ~Bare => Keeps(Readable', promised', Needed')
  BY <1>1, <1>5 DEF TermInv, PromiseInv, Keeps
<1>7. ~cut /\ writing.pc # "idle" => Keeps(writing.doc, promised', Needed')
  BY <1>1 DEF TermInv, PromiseInv, Keeps
<1>8. PromiseInv'
  BY <1>1, <1>6, <1>7 DEF TermInv, PromiseInv, Bare
<1> QED
  BY <1>2, <1>3, <1>4, <1>8 DEF TermInv

\* One job moves on.
LEMMA OneJobStep ==
    ASSUME TermInv, NEW t \in Tokens, UNCHANGED <<documentVars, request, withdrawn>>,
           packageJob' \in [Tokens -> PackageJobs], writing.token # t,
           \A u \in Tokens \ {t} : packageJob'[u] = packageJob[u] /\ (u \in staged' <=> u \in staged),
           JobOK(t)',
           Lacking(t)' => \/ packageJob'[t].package = packageJob[t].package /\ Lacking(t)
                          \/ writing.pc = "idle" /\ Named(packageJob'[t].package) # {}
    PROVE  TermInv'
<1>1. /\ \A u \in Tokens : JobOK(u)'
      /\ \A p \in Needed' : p \in Needed \/ (p = packageJob'[t].package /\ Lacking(t)')
  BY OthersKeep
<1>2. writing.token # 0 => packageJob'[writing.token] = packageJob[writing.token]
  BY DEF TermInv, TermTypeOK, Writings
<1>3. ASSUME NEW p \in Needed'
      PROVE  \/ p \in Needed
             \/ writing.pc = "idle" /\ \E d \in Readable.dictionaries : d.package = p
  <2>1. CASE Lacking(t) /\ p = packageJob[t].package
    BY <1>3, <2>1 DEF Needed
  <2>2. CASE writing.pc = "idle" /\ Named(p) # {}
    BY <2>2 DEF Named
  <2> QED
    BY <1>1, <1>3, <2>1, <2>2
<1> QED
  BY <1>1, <1>2, <1>3, PackagesKeep

\* The job of the write is importing.
LEMMA NotItsJob ==
    ASSUME TermInv, NEW t \in Tokens, packageJob[t].state # "import"
    PROVE  writing.token # t
BY TermConstants DEF TermInv, StageInv, WriterInv, Tokens

\* The job is as the invariant says.
LEMMA JobIs ==
    ASSUME TermInv, NEW t \in Tokens
    PROVE  packageJob[t] \in PackageJobs /\ JobOK(t)
BY DEF TermInv, TermTypeOK, StageInv

LEMMA GiveUpStep ==
    ASSUME TermInv, NEW t \in Tokens, packageJob[t].state \in {"queued", "import"}, writing.token # t,
           GiveUpPackage(t), UNCHANGED <<documentVars, request, withdrawn>>
    PROVE  TermInv'
<1>1. /\ packageJob' \in [Tokens -> PackageJobs] /\ Needed' \subseteq Needed
      /\ \A u \in Tokens : JobOK(u)'
      /\ \A u \in Tokens \ {t} : packageJob'[u] = packageJob[u]
  BY GiveUpJob
<1>2. writing.token # 0 => packageJob'[writing.token] = packageJob[writing.token]
  BY <1>1 DEF TermInv, TermTypeOK, Writings
<1> QED
  BY <1>1, <1>2, PackagesKeep

LEMMA StagePackageStep ==
    ASSUME TermInv, NEW t \in Tokens, NEW p \in TermPackages, StagePackage(t, p)
    PROVE  TermInv'
<1>1. PICK job : job = [package |-> p, state |-> "request", ask |-> FALSE, held |-> FALSE]
  OBVIOUS
<1>2. job \in PackageJobs /\ job.state = "request" /\ job.ask = FALSE
  BY <1>1 DEF PackageJobs, JobStates, Identities
<1>3. /\ packageJob' = [packageJob EXCEPT ![t] = job] /\ staged' = staged \cup {t}
      /\ packageJob[t].state = "none" /\ UNCHANGED <<documentVars, request, withdrawn>>
  BY <1>1 DEF StagePackage
<1>4. /\ packageJob' \in [Tokens -> PackageJobs] /\ packageJob'[t] = job
      /\ \A u \in Tokens \ {t} : packageJob'[u] = packageJob[u]
  BY <1>2, <1>3 DEF TermInv, TermTypeOK
<1>5. JobOK(t)'
  BY <1>2, <1>3, <1>4, JobIs DEF JobOK, Busy, Over
<1>6. ~Lacking(t)'
  BY <1>2, <1>4 DEF Lacking, CanRun
<1> QED
  BY <1>3, <1>4, <1>5, <1>6, NotItsJob, OneJobStep

LEMMA SubmitPackageStep ==
    ASSUME TermInv, NEW t \in Tokens, SubmitPackage(t)
    PROVE  TermInv'
<1>1. /\ packageJob[t].state = "request" /\ writing.token # t
      /\ UNCHANGED <<documentVars, request, withdrawn>>
  BY NotItsJob DEF SubmitPackage, Rest
<1>2. CASE packageJob' = [packageJob EXCEPT ![t].state = "queued", ![t].held = TRUE] /\ UNCHANGED staged
  <2>1. /\ packageJob' \in [Tokens -> PackageJobs]
        /\ \A u \in Tokens \ {t} : packageJob'[u] = packageJob[u]
        /\ packageJob'[t].state = "queued" /\ packageJob'[t].held = TRUE
        /\ packageJob'[t].ask = packageJob[t].ask
    BY <1>2 DEF TermInv, TermTypeOK, PackageJobs, JobStates, Busy
  <2>2. JobOK(t)'
    BY <1>1, <1>2, <2>1, JobIs DEF JobOK, Busy, Over
  <2>3. ~Lacking(t)'
    BY <1>1, <1>2, <2>1, JobIs DEF Lacking, JobOK
  <2> QED
    BY <1>1, <1>2, <2>1, <2>2, <2>3, OneJobStep
<1>3. CASE Becomes(t, "refused") /\ (staged' = staged \/ staged' = staged \ {t})
  <2>1. /\ packageJob' \in [Tokens -> PackageJobs]
        /\ \A u \in Tokens \ {t} : packageJob'[u] = packageJob[u]
        /\ packageJob'[t].state = "refused" /\ packageJob'[t].ask = packageJob[t].ask
    BY <1>3, BecomesIs DEF JobStates
  <2>2. JobOK(t)' /\ ~Lacking(t)'
    BY <1>1, <2>1, JobIs DEF JobOK, Busy, Over, Lacking, CanRun
  <2>3. \A u \in Tokens \ {t} : u \in staged' <=> u \in staged
    BY <1>3
  <2> QED
    BY <1>1, <2>1, <2>2, <2>3, OneJobStep
<1> QED
  BY <1>2, <1>3 DEF SubmitPackage

LEMMA ReadPackageStep ==
    ASSUME TermInv, NEW t \in Tokens, ReadPackage(t)
    PROVE  TermInv'
<1>1. /\ packageJob[t].state = "queued" /\ writing.token # t
      /\ UNCHANGED <<documentVars, request, withdrawn>>
  BY NotItsJob DEF ReadPackage, Rest
<1>2. CASE t \in staged /\ Becomes(t, "import") /\ UNCHANGED staged
  <2>1. /\ packageJob' \in [Tokens -> PackageJobs]
        /\ \A u \in Tokens \ {t} : packageJob'[u] = packageJob[u]
        /\ packageJob'[t].state = "import" /\ packageJob'[t].ask = packageJob[t].ask
        /\ packageJob'[t].held = packageJob[t].held
    BY <1>2, BecomesIs DEF JobStates, Busy
  <2>2. JobOK(t)' /\ ~Lacking(t)'
    BY <1>1, <1>2, <2>1, JobIs DEF JobOK, Busy, Over, Lacking
  <2> QED
    BY <1>1, <1>2, <2>1, <2>2, OneJobStep
<1>3. CASE GiveUpPackage(t)
  BY <1>1, <1>3, GiveUpStep
<1> QED
  BY <1>2, <1>3 DEF ReadPackage

LEMMA StopPackageStep ==
    ASSUME TermInv, NEW t \in Tokens, StopPackage(t)
    PROVE  TermInv'
BY GiveUpStep DEF StopPackage, Rest

LEMMA UnstageStep ==
    ASSUME TermInv, NEW t \in Tokens, Unstage(t)
    PROVE  TermInv'
<1>1. /\ packageJob[t].state = "unstage" /\ writing.token # t
      /\ UNCHANGED <<documentVars, request, withdrawn>>
  BY NotItsJob DEF Unstage, Rest
<1>2. CASE Becomes(t, "ended") /\ staged' = staged \ {t}
  <2>1. /\ packageJob' \in [Tokens -> PackageJobs]
        /\ \A u \in Tokens \ {t} : packageJob'[u] = packageJob[u]
        /\ packageJob'[t].package = packageJob[t].package
        /\ packageJob'[t].state = "ended" /\ packageJob'[t].ask = packageJob[t].ask
        /\ packageJob'[t].held = packageJob[t].held
    BY <1>2, BecomesIs DEF JobStates, Busy
  <2>2. JobOK(t)' /\ (Lacking(t)' => Lacking(t))
    BY <1>1, <2>1, JobIs DEF JobOK, Busy, Over, Lacking
  <2>3. \A u \in Tokens \ {t} : u \in staged' <=> u \in staged
    BY <1>2
  <2> QED
    BY <1>1, <2>1, <2>2, <2>3, OneJobStep
<1>3. CASE packageJob' = [packageJob EXCEPT ![t] = FailedJob(packageJob[t], TRUE)] /\ UNCHANGED staged
  <2>1. /\ packageJob' \in [Tokens -> PackageJobs]
        /\ \A u \in Tokens \ {t} : packageJob'[u] = packageJob[u]
        /\ packageJob'[t].package = packageJob[t].package
        /\ packageJob'[t].ask = packageJob[t].ask
        /\ packageJob'[t].state \in {"cancelled", "failed"}
    BY <1>3, FailedIs
  <2>2. JobOK(t)' /\ (Lacking(t)' => Lacking(t))
    BY <1>1, <2>1, JobIs DEF JobOK, Busy, Over, Lacking
  <2> QED
    BY <1>1, <1>3, <2>1, <2>2, OneJobStep
<1> QED
  BY <1>2, <1>3 DEF Unstage

LEMMA FinishPackageStep ==
    ASSUME TermInv, NEW t \in Tokens, FinishPackage(t)
    PROVE  TermInv'
<1>1. /\ packageJob[t].state = "ended" /\ writing.token # t
      /\ UNCHANGED <<documentVars, request, withdrawn, staged>>
  BY NotItsJob DEF FinishPackage, Rest
<1>2. PICK job \in PackageJobs : job = packageJob[t]
  BY JobIs
<1>3. PICK state \in Over, held \in BOOLEAN :
         packageJob' = [packageJob EXCEPT ![t].state = state, ![t].held = held]
  <2>1. (IF job.ask THEN "cancelled" ELSE "done") \in Over
    BY DEF Over
  <2>2. (job.held /\ job.ask) \in BOOLEAN
    OBVIOUS
  <2> QED
    BY <1>2, <2>1, <2>2 DEF FinishPackage
<1>4. /\ packageJob' \in [Tokens -> PackageJobs]
      /\ \A u \in Tokens \ {t} : packageJob'[u] = packageJob[u]
      /\ packageJob'[t].package = packageJob[t].package
      /\ packageJob'[t].ask = packageJob[t].ask /\ packageJob'[t].state \in Over
  BY <1>3 DEF TermInv, TermTypeOK, PackageJobs, JobStates
<1>5. JobOK(t)' /\ (Lacking(t)' => Lacking(t))
  BY <1>1, <1>4, JobIs DEF JobOK, Busy, Over, Lacking
<1> QED
  BY <1>1, <1>4, <1>5, OneJobStep

LEMMA RetryPackageStep ==
    ASSUME TermInv, NEW t \in Tokens, RetryPackage(t)
    PROVE  TermInv'
<1>1. /\ packageJob[t].state \in {"failed", "cancelled"} /\ packageJob[t].held /\ request = NoRequest
      /\ UNCHANGED <<documentVars, request, withdrawn, staged>>
      /\ packageJob' = [packageJob EXCEPT ![t].state = "queued", ![t].ask = FALSE]
  BY DEF RetryPackage, Rest, MainFree
<1>2. writing.token # t
  BY <1>1, NotItsJob
<1>3. /\ packageJob' \in [Tokens -> PackageJobs]
      /\ \A u \in Tokens \ {t} : packageJob'[u] = packageJob[u]
      /\ packageJob'[t].package = packageJob[t].package
      /\ packageJob'[t].state = "queued" /\ packageJob'[t].ask = FALSE
      /\ packageJob'[t].held = packageJob[t].held
  BY <1>1 DEF TermInv, TermTypeOK, PackageJobs, JobStates, Busy
<1>4. JobOK(t)'
  BY <1>1, <1>3 DEF JobOK, Busy, NoRequest
<1>5. Lacking(t)' => Lacking(t)
  BY <1>1, <1>3 DEF Lacking, CanRun
<1> QED
  BY <1>1, <1>2, <1>3, <1>4, <1>5, OneJobStep

LEMMA ExpirePackageStep ==
    ASSUME TermInv, NEW t \in Tokens, ExpirePackage(t)
    PROVE  TermInv'
<1>1. /\ packageJob[t].state \in {"failed", "cancelled"}
      /\ UNCHANGED <<documentVars, request, withdrawn, staged>>
      /\ packageJob' = [packageJob EXCEPT ![t].held = FALSE]
  BY DEF ExpirePackage, Rest
<1>2. writing.token # t
  BY <1>1, NotItsJob
<1>3. /\ packageJob' \in [Tokens -> PackageJobs]
      /\ \A u \in Tokens \ {t} : packageJob'[u] = packageJob[u]
      /\ packageJob'[t].state = packageJob[t].state /\ packageJob'[t].ask = packageJob[t].ask
      /\ packageJob'[t].held = FALSE
  BY <1>1 DEF TermInv, TermTypeOK, PackageJobs
<1>4. JobOK(t)' /\ ~Lacking(t)'
  BY <1>1, <1>3, JobIs DEF JobOK, Busy, Lacking, CanRun
<1> QED
  BY <1>1, <1>2, <1>3, <1>4, OneJobStep

LEMMA ImportPackageStep ==
    ASSUME TermInv, NEW t \in Tokens, ImportPackage(t)
    PROVE  TermInv'
<1>1. PICK p \in Identities : p = packageJob[t].package
  BY JobIs DEF PackageJobs
<1>2. /\ packageJob[t].state = "import" /\ writing.pc = "idle" /\ writing.token # t
      /\ UNCHANGED <<disk, promised, removed, deletedRecs, cut, request, withdrawn>>
  BY NotWritingIs, TermConstants DEF ImportPackage, TermInv, TermTypeOK, Tokens
<1>3. CASE Named(p) # {} /\ Becomes(t, "unstage") /\ UNCHANGED <<writing, staged>>
  <2>1. /\ packageJob' \in [Tokens -> PackageJobs]
        /\ \A u \in Tokens \ {t} : packageJob'[u] = packageJob[u]
        /\ packageJob'[t].package = p
        /\ packageJob'[t].state = "unstage" /\ packageJob'[t].ask = packageJob[t].ask
        /\ packageJob'[t].held = packageJob[t].held
    BY <1>1, <1>3, BecomesIs DEF JobStates, Busy
  <2>2. JobOK(t)'
    BY <1>2, <1>3, <2>1, JobIs DEF JobOK, Busy, Over
  <2>3. UNCHANGED documentVars
    BY <1>2, <1>3 DEF documentVars
  <2> QED
    BY <1>2, <1>3, <2>1, <2>2, <2>3, OneJobStep
<1>4. CASE /\ Named(p) = {} /\ StartWrite("import", p, t, WithPackage(p))
           /\ UNCHANGED <<packageJob, staged>>
  <2>1. GoodChange("import", p, t, WithPackage(p), promised)
    BY <1>1, <1>2, <1>4, ImportIsGood
  <2> QED
    BY <1>2, <1>4, <2>1, BeginStep
<1>5. CASE GiveUpPackage(t) /\ UNCHANGED writing
  <2>1. UNCHANGED documentVars
    BY <1>2, <1>5 DEF documentVars
  <2> QED
    BY <1>2, <1>5, <2>1, GiveUpStep
<1> QED
  BY <1>1, <1>3, <1>4, <1>5 DEF ImportPackage

\* Only withdrawn packages are touched.
LEMMA WithdrawnOnly ==
    ASSUME TermInv, UNCHANGED documentVars, packageJob' \in [Tokens -> PackageJobs],
           withdrawn \subseteq withdrawn', \A t \in Tokens : JobOK(t)',
           \A t \in Tokens \ withdrawn' :
               packageJob'[t] = packageJob[t] /\ (t \in staged' <=> t \in staged),
           writing.token # 0 => /\ packageJob'[writing.token].state = packageJob[writing.token].state
                                /\ packageJob'[writing.token].package = packageJob[writing.token].package
    PROVE  TermInv'
<1>1. \A t \in Tokens : Lacking(t)' => Lacking(t) /\ packageJob'[t] = packageJob[t]
  BY DEF Lacking
<1>2. Needed' \subseteq Needed
  BY <1>1 DEF Needed
<1> QED
  BY <1>2, PackagesKeep

LEMMA CancelPackagesStep ==
    ASSUME TermInv, NEW tokens \in SUBSET Tokens, CancelPackages(tokens)
    PROVE  TermInv'
<1>1. /\ UNCHANGED <<documentVars, staged>> /\ withdrawn' = withdrawn \cup tokens
      /\ request'.tokens = tokens /\ request'.forget = FALSE
  BY DEF CancelPackages
<1>2. ASSUME NEW t \in Tokens
      PROVE  /\ packageJob'[t] \in PackageJobs
             /\ packageJob'[t].package = packageJob[t].package
             /\ packageJob'[t].state = packageJob[t].state
             /\ packageJob'[t].held = packageJob[t].held
             /\ packageJob'[t].ask => packageJob[t].ask \/ t \in tokens
             /\ t \notin tokens => packageJob'[t] = packageJob[t]
  <2>1. PICK ask \in BOOLEAN : ask <=> packageJob[t].ask \/ (t \in tokens /\ Active(t))
    OBVIOUS
  <2>2. packageJob[t] \in PackageJobs /\ packageJob[t].ask \in BOOLEAN
    BY JobIs DEF PackageJobs
  <2>3. packageJob'[t] = [packageJob[t] EXCEPT !.ask = ask]
    <3>1. packageJob'[t] = [packageJob[t] EXCEPT !.ask = packageJob[t].ask \/ (t \in tokens /\ Active(t))]
      BY DEF CancelPackages
    <3>2. ask = (packageJob[t].ask \/ (t \in tokens /\ Active(t)))
      BY <2>1
    <3> QED
      BY <3>1, <3>2
  <2>4. t \notin tokens => ask = packageJob[t].ask
    BY <2>1, <2>2
  <2> QED
    BY <2>1, <2>2, <2>3, <2>4 DEF PackageJobs
<1>3. packageJob' \in [Tokens -> PackageJobs]
  BY <1>2 DEF CancelPackages
<1>4. ASSUME NEW t \in Tokens
      PROVE  JobOK(t)'
  BY <1>1, <1>2, <1>4, JobIs DEF JobOK
<1>5. writing.token # 0 => /\ packageJob'[writing.token].state = packageJob[writing.token].state
                           /\ packageJob'[writing.token].package = packageJob[writing.token].package
  BY <1>2 DEF TermInv, TermTypeOK, Writings
<1> QED
  BY <1>1, <1>2, <1>3, <1>4, <1>5, WithdrawnOnly

LEMMA AcknowledgeStep ==
    ASSUME TermInv, NEW t \in Tokens, Acknowledge(t)
    PROVE  TermInv'
<1>1. /\ UNCHANGED <<documentVars, staged, packageJob>> /\ withdrawn' = withdrawn \cup {t}
      /\ request'.tokens = {t} /\ packageJob[t].state \in Over
  BY DEF Acknowledge, Over
<1>2. \A u \in Tokens : JobOK(u)'
  BY <1>1, JobIs DEF JobOK
<1> QED
  BY <1>1, <1>2, WithdrawnOnly DEF TermInv, TermTypeOK

LEMMA DeletePackagesStep ==
    ASSUME TermInv, DeletePackages
    PROVE  TermInv'
<1>1. UNCHANGED <<documentVars, packageJob, withdrawn>>
  BY DEF DeletePackages
<1>2. /\ request'.tokens \subseteq request.tokens
      /\ request'.forget => request.forget
      /\ \A t \in Tokens \ request.tokens : t \in staged' <=> t \in staged
  <2>1. CASE /\ staged' = staged \ request.tokens
             /\ request' = [at |-> "drop", tokens |-> request.tokens, forget |-> request.forget]
    BY <2>1
  <2>2. CASE request' = NoRequest /\ \E some \in SUBSET request.tokens : staged' = staged \ some
    BY <2>2 DEF NoRequest
  <2> QED
    BY <2>1, <2>2 DEF DeletePackages
<1>3. \A t \in Tokens \ withdrawn : t \notin request.tokens
  BY JobIs DEF JobOK
<1>4. \A t \in Tokens : JobOK(t)'
  BY <1>1, <1>2, <1>3, JobIs DEF JobOK
<1> QED
  BY <1>1, <1>2, <1>3, <1>4, WithdrawnOnly DEF TermInv, TermTypeOK

LEMMA DropDescriptorsStep ==
    ASSUME TermInv, DropDescriptors
    PROVE  TermInv'
<1>1. UNCHANGED <<documentVars, staged, withdrawn>> /\ request' = NoRequest
  BY DEF DropDescriptors
<1>2. ASSUME NEW t \in Tokens
      PROVE  /\ packageJob'[t] \in PackageJobs
             /\ packageJob'[t].package = packageJob[t].package
             /\ packageJob'[t].ask = packageJob[t].ask
             /\ t \notin request.tokens => packageJob'[t] = packageJob[t]
             /\ ~request.forget => packageJob'[t].state = packageJob[t].state
  <2>1. CASE t \notin request.tokens
    BY <2>1, JobIs DEF DropDescriptors
  <2>2. CASE t \in request.tokens
    <3>1. packageJob'[t] = [packageJob[t] EXCEPT !.held = FALSE,
                                !.state = IF request.forget THEN "gone" ELSE packageJob[t].state]
      BY <2>2 DEF DropDescriptors
    <3>2. PICK state \in JobStates : state = IF request.forget THEN "gone" ELSE packageJob[t].state
      BY JobIs DEF PackageJobs, JobStates
    <3> QED
      BY <2>2, <3>1, <3>2, JobIs DEF PackageJobs
  <2> QED
    BY <2>1, <2>2
<1>3. packageJob' \in [Tokens -> PackageJobs]
  BY <1>2 DEF DropDescriptors
<1>4. ASSUME NEW t \in Tokens
      PROVE  JobOK(t)' /\ (t \notin withdrawn => t \notin request.tokens)
  BY <1>1, <1>2, JobIs DEF JobOK, NoRequest
<1>5. ASSUME writing.token # 0
      PROVE  /\ packageJob'[writing.token].state = packageJob[writing.token].state
             /\ packageJob'[writing.token].package = packageJob[writing.token].package
  <2>1. PICK t \in Tokens : t = writing.token
    BY <1>5 DEF TermInv, TermTypeOK, Writings
  <2>2. packageJob[t].state \notin Over
    BY <1>5, <2>1 DEF TermInv, StageInv, WriterInv, Over
  <2> QED
    BY <1>2, <2>1, <2>2, JobIs DEF JobOK
<1> QED
  BY <1>1, <1>2, <1>3, <1>4, <1>5, WithdrawnOnly

LEMMA CleanOrphansStep ==
    ASSUME TermInv, CleanOrphans
    PROVE  TermInv'
<1>1. PICK old \in SUBSET {t \in staged : ~packageJob[t].held /\ packageJob[t].state # "request"} :
         staged' = staged \ old
  BY DEF CleanOrphans
<1>2. UNCHANGED <<documentVars, packageJob, request, withdrawn>>
  BY DEF CleanOrphans
<1>3. ASSUME NEW t \in Tokens
      PROVE  JobOK(t)' /\ (Lacking(t)' => Lacking(t))
  <2>1. packageJob[t].held \/ packageJob[t].state = "request" => (t \in staged' <=> t \in staged)
    BY <1>1
  <2> QED
    BY <1>2, <2>1, JobIs DEF JobOK, Busy, Lacking, CanRun
<1>4. Needed' \subseteq Needed
  BY <1>2, <1>3 DEF Needed
<1> QED
  BY <1>2, <1>3, <1>4, PackagesKeep DEF TermInv, TermTypeOK

LEMMA TermCrashStep ==
    ASSUME TermInv, TermCrash
    PROVE  TermInv'
<1>1. /\ GiveUpWrite /\ request' = NoRequest
      /\ UNCHANGED <<disk, promised, removed, deletedRecs, staged, withdrawn>>
  BY DEF TermCrash
<1>2. ASSUME NEW t \in Tokens
      PROVE  /\ packageJob'[t] \in PackageJobs
             /\ packageJob'[t].package = packageJob[t].package
             /\ packageJob'[t].ask = packageJob[t].ask
             /\ packageJob'[t].held = packageJob[t].held
             /\ \/ packageJob[t].state = "request" /\ packageJob'[t].state = "lost"
                \/ /\ packageJob[t].state \in Busy /\ packageJob[t].ask
                   /\ packageJob'[t].state = "cancelled"
                \/ packageJob[t].state \in Busy /\ packageJob'[t].state = "queued"
                \/ /\ packageJob[t].state \notin Busy \cup {"request"}
                   /\ packageJob'[t].state = packageJob[t].state
  <2>1. PICK job \in PackageJobs : job = packageJob[t]
    BY JobIs
  <2>2. PICK state \in JobStates :
           /\ state = IF job.state = "request" THEN "lost"
                      ELSE IF ~Active(t) THEN job.state
                      ELSE IF job.ask THEN "cancelled" ELSE "queued"
    BY <2>1 DEF PackageJobs, JobStates, Busy, Over
  <2>3. packageJob'[t] = [job EXCEPT !.state = state]
    BY <2>1, <2>2 DEF TermCrash
  <2>4. /\ packageJob'[t] \in PackageJobs /\ packageJob'[t].state = state
        /\ packageJob'[t].package = job.package /\ packageJob'[t].ask = job.ask
        /\ packageJob'[t].held = job.held
    BY <2>1, <2>3 DEF PackageJobs
  <2> QED
    BY <2>1, <2>2, <2>4 DEF Active, Busy
<1>3. packageJob' \in [Tokens -> PackageJobs]
  BY <1>2 DEF TermCrash
<1>4. ASSUME NEW t \in Tokens
      PROVE  JobOK(t)' /\ (Lacking(t)' => Lacking(t))
  <2>1. JobOK(t)'
    BY <1>1, <1>2, JobIs DEF JobOK, Busy, NoRequest
  <2>2. Lacking(t)' => Lacking(t)
    BY <1>1, <1>2, JobIs DEF JobOK, Busy, Lacking, CanRun
  <2> QED
    BY <2>1, <2>2
<1>5. Needed' \subseteq Needed
  BY <1>2, <1>4 DEF Needed
<1>6. FilesFrom /\ Readable' = Readable
  BY <1>1, SameFiles
<1> QED
  BY <1>1, <1>3, <1>4, <1>5, <1>6, GivenUp

LEMMA DeleteFirstStep ==
    ASSUME TermInv, NEW r \in TermRecordings, DeleteRecordingFirst(r)
    PROVE  TermInv'
<1>1. TermTypeOK' /\ StageInv'
  BY DEF DeleteRecordingFirst, stageVars, TermInv, TermTypeOK, StageInv, JobOK, WriterInv
<1>2. RemovedInv'
  BY DEF DeleteRecordingFirst, TermInv, RemovedInv, Forgets
<1>3. Needed' = Needed /\ Readable' = Readable
  BY DEF DeleteRecordingFirst, stageVars, Needed, Lacking, Readable, Contents
<1>4. PromiseInv'
  BY <1>3 DEF DeleteRecordingFirst, TermInv, PromiseInv, Bare
<1> QED
  BY <1>1, <1>2, <1>4 DEF TermInv

-----------------------------------------------------------------------------
(* The theorem                                                             *)

LEMMA TermInvInit ==
    ASSUME TermInit
    PROVE  TermInv
<1>1. /\ disk \in [Files -> Docs \cup {NoDoc}] /\ disk["target"] = NoDoc /\ disk["backup"] = NoDoc
      /\ \A f \in Files : disk[f] = NoDoc
  BY DEF TermInit, Files
<1>2. \A t \in Tokens : packageJob[t].state = "none" /\ packageJob[t].ask = FALSE
  BY DEF TermInit
<1>3. packageJob \in [Tokens -> PackageJobs]
  BY DEF TermInit, Identities, PackageJobs, JobStates
<1>4. TermTypeOK
  BY <1>1, <1>3, NotWritingIs, EmptyIsDocument DEF TermInit, TermTypeOK, NoRequest
<1>5. \A t \in Tokens : JobOK(t) /\ ~Lacking(t)
  BY <1>2 DEF TermInit, JobOK, NoRequest, Busy, Lacking, CanRun
<1>6. StageInv /\ RemovedInv
  BY <1>1, <1>5, NotWritingIs DEF TermInit, StageInv, WriterInv, RemovedInv
<1>7. Needed = {}
  BY <1>5 DEF Needed
<1>8. PromiseInv
  BY <1>1, <1>7, NotWritingIs DEF TermInit, PromiseInv, Keeps
<1> QED
  BY <1>4, <1>6, <1>8 DEF TermInv

LEMMA TermInvStep ==
    ASSUME TermInv, [TermNext]_termVars
    PROVE  TermInv'
<1>1. CASE EnsureGeneral \/ ImportDictionary
  BY <1>1, ImportStep
<1>2. CASE \E d \in Readable.dictionaries :
               SetEnabled(d) \/ \E r \in TermRecordings, on \in BOOLEAN : Assign(r, d, on)
  BY <1>2, SetEnabledStep, AssignStep
<1>3. CASE \E r \in TermRecordings :
               RemoveNotes(r) \/ DeleteRecordingFirst(r) \/ \E accepted \in BOOLEAN : Decide(r, accepted)
  BY <1>3, RemoveNotesStep, DeleteFirstStep, DecideStep
<1>4. CASE WriteTemp \/ DropBackup \/ SetTargetAside \/ CommitDocument \/ RemovePrior
  BY <1>4, WriteTempStep, DropBackupStep, SetTargetAsideStep, CommitDocumentStep, RemovePriorStep
<1>5. CASE \E t \in Tokens :
               \/ \E p \in TermPackages : StagePackage(t, p)
               \/ SubmitPackage(t) \/ ReadPackage(t) \/ StopPackage(t) \/ ImportPackage(t)
               \/ Unstage(t) \/ FinishPackage(t) \/ RetryPackage(t) \/ Acknowledge(t) \/ ExpirePackage(t)
  BY <1>5, StagePackageStep, SubmitPackageStep, ReadPackageStep, StopPackageStep, ImportPackageStep,
     UnstageStep, FinishPackageStep, RetryPackageStep, AcknowledgeStep, ExpirePackageStep
<1>6. CASE \/ \E t \in Tokens : CancelPackages({t})
           \/ CancelPackages({t \in Tokens : packageJob[t].held})
  <2>1. \A t \in Tokens : {t} \in SUBSET Tokens
    OBVIOUS
  <2>2. {t \in Tokens : packageJob[t].held} \in SUBSET Tokens
    OBVIOUS
  <2> QED
    BY <1>6, <2>1, <2>2, CancelPackagesStep
<1>7. CASE DeletePackages \/ DropDescriptors \/ CleanOrphans \/ TermCrash
  BY <1>7, DeletePackagesStep, DropDescriptorsStep, CleanOrphansStep, TermCrashStep
<1>8. CASE UNCHANGED termVars
  <2>1. UNCHANGED <<documentVars, staged, packageJob, request, withdrawn>>
    BY <1>8 DEF termVars, stageVars
  <2>2. Needed' = Needed /\ \A t \in Tokens : JobOK(t)'
    BY <2>1, JobIs DEF Needed, Lacking, JobOK
  <2> QED
    BY <2>1, <2>2, PackagesKeep DEF TermInv, TermTypeOK
<1> QED
  BY <1>1, <1>2, <1>3, <1>4, <1>5, <1>6, <1>7, <1>8 DEF TermNext

LEMMA InvIsSound ==
    ASSUME TermInv
    PROVE  DictionariesSound
<1>1. ASSUME NEW f \in DOMAIN disk
      PROVE  /\ \A a, b \in Contents(f).dictionaries :
                    a.package = b.package /\ a.package # "file" => a = b
             /\ \A r \in removed : \A n \in Contents(f).notes : n.rec # r
  <2>1. f \in Files
    BY DEF TermInv, TermTypeOK
  <2>2. CASE disk[f] = NoDoc
    BY <2>2, EmptyIsDocument DEF Contents
  <2>3. CASE disk[f] # NoDoc
    BY <2>1, <2>3 DEF Contents, TermInv, TermTypeOK, IsDocument, RemovedInv, Forgets
  <2> QED
    BY <2>2, <2>3
<1>2. PackageOnce /\ RemovedEverywhere
  BY <1>1 DEF PackageOnce, RemovedEverywhere
<1>3. PromisesKept
  BY WhenIdle DEF PromisesKept, Keeps, Named
<1>4. ASSUME writing.pc = "idle", ~cut, NEW t \in Tokens \ withdrawn, CanRun(packageJob[t]), t \notin staged
      PROVE  Named(packageJob[t].package) # {}
  <2>1. packageJob[t].package \in Needed
    BY <1>4, JobIs DEF Needed, Lacking, PackageJobs
  <2> QED
    BY <1>4, <2>1, WhenIdle DEF Keeps, Named
<1>5. StageKept
  BY <1>4 DEF StageKept
<1> QED
  BY <1>2, <1>3, <1>5 DEF DictionariesSound

\* DictionariesSound for every set of packages, tokens and recordings and any
\* number of edits, failing calls and kills: removed notes are in no copy, a
\* package is imported once; unless a change was given up after it had removed
\* the only copy, what was reported saved is what the next reader finds while
\* the document is within the size a read accepts, and a job that was not
\* withdrawn and can run has its package or finds its dictionary installed
\* (terminology_dictionary.rs, import_dictionary).
THEOREM DictionariesAreSound ==
    TermSpec => []DictionariesSound
<1>1. TermInit => TermInv
  BY TermInvInit
<1>2. TermInv /\ [TermNext]_termVars => TermInv'
  BY TermInvStep
<1>3. TermInv => DictionariesSound
  BY InvIsSound
<1> QED
  BY <1>1, <1>2, <1>3, PTL DEF TermSpec

-----------------------------------------------------------------------------
(* The import of a media file                                              *)

\* What cutting a file into pieces computes, as far as an import rests on it:
\* a sequence of aligned pieces with the whole audio.
CutWell(f) ==
    Inspected(f) =>
        /\ PiecesOf(f) \in Seq([offset : Nat, length : Nat, start : Nat])
        /\ Importable(f) => WholeAudio(f, PiecesOf(f))
        /\ \A k \in DOMAIN PiecesOf(f) : Aligned(f, PiecesOf(f), k)

\* What was written is the beginning of the pieces of the inspected file, and
\* all of them once the recording is finished.
WrittenIsInspected ==
    /\ \A k \in DOMAIN stored.pieces : stored.pieces[k] = PiecesOf(expected)[k]
    /\ stored.state = "finished" => Len(stored.pieces) = Len(PiecesOf(expected))

ImportPcs == {"validate", "open", "stage", "copy", "copying", "staged", "prepared", "write",
              "finish", "abort", "ended"}

JobType ==
    /\ import.pc \in ImportPcs
    /\ import = [pc |-> import.pc, size |-> import.size, result |-> import.result]
    /\ stored \in [state : {"none", "directory", "recording", "finished"},
                   pieces : Seq({PiecesOf(expected)[k] : k \in Nat})]

\* The job at each of its steps.
JobInv ==
    /\ JobType /\ StageDropped /\ NoSilentLeftover /\ WrittenIsInspected
    /\ import.pc \in {"staged", "prepared", "write", "finish", "abort"} => stage = expected
    /\ import.pc \in {"prepared", "write", "finish", "abort"} => Inspected(stage)
    /\ import.pc \notin {"write", "finish", "abort", "ended"} => stored = NoRecording
    /\ import.pc \in {"write", "finish", "abort"} => stored.state = "recording"
    /\ import.pc \in {"write", "finish", "abort"} => Len(stored.pieces) <= Len(PiecesOf(stage))
    /\ import.pc = "finish" => Len(stored.pieces) = Len(PiecesOf(stage)) /\ Importable(stage)
    /\ stored.state = "finished" => Importable(expected)

\* The thread that validates has the slot.
SlotInv == validators = {} \/ (slot /\ \E w : validators = {w})

LEMMA SlotInitInv == ImportInit => SlotInv
BY DEF ImportInit, SlotInv

LEMMA SlotNextInv ==
    ASSUME SlotInv, [ImportNext \/ ValidationNext]_importVars PROVE SlotInv'
<1>1. PICK w : validators = {} \/ (slot /\ validators = {w})
  BY DEF SlotInv
<1>2. CASE UNCHANGED slotVars
  BY <1>1, <1>2 DEF slotVars, SlotInv
<1>3. CASE AskValidation
  BY <1>1, <1>3 DEF AskValidation, SlotInv
<1>4. CASE ValidationBusy \/ ValidationTimeout
  BY <1>1, <1>4 DEF ValidationBusy, ValidationTimeout, SlotInv
<1>5. ASSUME NEW v \in validators, ValidationEnds(v) PROVE SlotInv'
  <2>1. validators' = {}
    BY <1>1, <1>5 DEF ValidationEnds
  <2> QED
    BY <2>1 DEF SlotInv
<1>6. ImportNext => UNCHANGED slotVars
  BY DEF ImportNext, JobStep, Rewrite, CancelImport, ValidateSource, OpenSource, CreateStage, CopyFirst,
         CopyRest, Inspect, ImportStops, StartFails, StartImport, WritePiece, FinishImport, ImportDone, ImportFails,
         AbortImport
<1>7. UNCHANGED importVars => UNCHANGED slotVars
  BY DEF importVars, slotVars
<1> QED
  BY <1>2, <1>3, <1>4, <1>5, <1>6, <1>7 DEF ValidationNext

LEMMA OneValidation == SlotInv => Cardinality(validators) <= 1
<1> SUFFICES ASSUME NEW w, validators = {} \/ validators = {w} PROVE Cardinality(validators) <= 1
  BY DEF SlotInv
<1>1. Cardinality({}) = 0 /\ Cardinality({w}) = 1
  BY FS_EmptySet, FS_Singleton
<1> QED
  BY <1>1

LEMMA JobInitInv == ImportInit => JobInv
BY DEF ImportInit, JobInv, JobType, ImportPcs, NoRecording, NoStage, StageDropped, NoSilentLeftover, WrittenIsInspected

LEMMA GoInv ==
    ASSUME JobInv, NEW pc \in ImportPcs, Go(pc)
    PROVE  /\ import'.pc = pc /\ import'.result = import.result
           /\ import' = [pc |-> import'.pc, size |-> import'.size, result |-> import'.result]
BY DEF JobInv, JobType, Go

LEMMA FailEnds ==
    ASSUME JobInv, NEW error, Fail(error)
    PROVE  /\ import'.pc = "ended" /\ import'.result = error /\ stage' = NoStage
           /\ import' = [pc |-> import'.pc, size |-> import'.size, result |-> import'.result]
BY DEF JobInv, JobType, Fail

\* A step that ends the job before there is a recording.
LEMMA FailInv ==
    ASSUME JobInv, NEW error, Fail(error), UNCHANGED <<expected, stored>>, stored = NoRecording
    PROVE  JobInv'
<1>1. /\ import'.pc = "ended" /\ stage' = NoStage
      /\ import' = [pc |-> import'.pc, size |-> import'.size, result |-> import'.result]
  BY FailEnds
<1>2. stored' \in [state : {"none", "directory", "recording", "finished"}, pieces : Seq({PiecesOf(expected)[k] : k \in Nat})]'
  BY DEF JobInv, JobType
<1>3. stored'.state = "none"
  BY DEF NoRecording
<1>4. WrittenIsInspected'
  BY <1>3 DEF JobInv, WrittenIsInspected
<1> QED
  BY <1>1, <1>2, <1>3, <1>4 DEF JobInv, JobType, ImportPcs, StageDropped, NoSilentLeftover, NoRecording

LEMMA JobStepInv ==
    ASSUME JobInv, JobStep PROVE JobInv'
<1> USE DEF ImportPcs
<1>1. CASE ValidateSource
  <2>1. CASE Eligible(source)
    <3>1. /\ import' = [import EXCEPT !.pc = "open", !.size = source.size]
          /\ import.pc = "validate" /\ UNCHANGED <<expected, stage, stored>>
      BY <1>1, <2>1 DEF ValidateSource, At
    <3>2. /\ import'.pc = "open"
          /\ import' = [pc |-> import'.pc, size |-> import'.size, result |-> import'.result]
      BY <3>1 DEF JobInv, JobType
    <3> QED
      BY <3>1, <3>2 DEF JobInv, JobType, StageDropped, NoSilentLeftover, WrittenIsInspected
  <2>2. CASE ~Eligible(source)
    BY <1>1, <2>2, FailInv DEF ValidateSource, At, JobInv
  <2> QED
    BY <2>1, <2>2
<1>2. CASE OpenSource
  <2>1. CASE Eligible(source) /\ source.size = import.size
    BY <1>2, <2>1 DEF OpenSource, At, Go, JobInv, JobType, StageDropped, NoSilentLeftover, WrittenIsInspected
  <2>2. CASE ~(Eligible(source) /\ source.size = import.size)
    BY <1>2, <2>2, FailInv DEF OpenSource, At, JobInv
  <2> QED
    BY <2>1, <2>2
<1>3. CASE CreateStage
  BY <1>3 DEF CreateStage, At, Go, JobInv, JobType, StageDropped, NoSilentLeftover, WrittenIsInspected
<1>4. CASE CopyFirst
  BY <1>4 DEF CopyFirst, At, Go, JobInv, JobType, StageDropped, NoSilentLeftover, WrittenIsInspected
<1>5. CASE CopyRest
  <2>1. stored = NoRecording /\ UNCHANGED <<expected, stored>>
    BY <1>5 DEF CopyRest, At, JobInv
  <2>2. (\E error : Fail(error)) \/ (stage' = expected /\ Go("staged"))
    BY <1>5 DEF CopyRest
  <2>3. CASE stage' = expected /\ Go("staged")
    BY <2>1, <2>3, <1>5 DEF CopyRest, At, Go, JobInv, JobType, StageDropped, NoSilentLeftover, WrittenIsInspected
  <2> QED
    BY <2>1, <2>2, <2>3, FailInv
<1>6. CASE Inspect
  <2>1. CASE ~Inspected(stage)
    BY <1>6, <2>1, FailInv DEF Inspect, At, JobInv
  <2>2. CASE Inspected(stage)
    BY <1>6, <2>2 DEF Inspect, At, Go, JobInv, JobType, StageDropped, NoSilentLeftover, WrittenIsInspected
  <2> QED
    BY <2>1, <2>2
<1>7. CASE ImportStops
  <2>1. stored = NoRecording
    BY <1>7 DEF ImportStops, JobInv
  <2> QED
    BY <1>7, <2>1, FailInv DEF ImportStops
<1>14. CASE StartFails
  <2>1. /\ UNCHANGED expected /\ Fail("start failed")
        /\ stored' \in {NoRecording, [state |-> "directory", pieces |-> <<>>], Recording}
    BY <1>14 DEF StartFails
  <2>2. /\ import'.pc = "ended" /\ import'.result = "start failed" /\ stage' = NoStage
        /\ import' = [pc |-> import'.pc, size |-> import'.size, result |-> import'.result]
    BY <2>1, FailEnds
  <2>3. /\ stored'.pieces = <<>> /\ stored'.state \in {"none", "directory", "recording"}
        /\ stored' = [state |-> stored'.state, pieces |-> stored'.pieces]
    <3>1. CASE stored' = NoRecording
      BY <3>1 DEF NoRecording
    <3>2. CASE stored' = [state |-> "directory", pieces |-> <<>>]
      BY <3>2
    <3>3. CASE stored' = Recording
      BY <3>3 DEF Recording
    <3> QED
      BY <2>1, <3>1, <3>2, <3>3
  <2>4. JobType'
    <3>1. stored'.pieces \in Seq({PiecesOf(expected)[k] : k \in Nat}')
      BY <2>3
    <3> QED
      BY <2>2, <2>3, <3>1 DEF JobType
  <2>5. StageDropped' /\ NoSilentLeftover'
    BY <2>2, <2>3 DEF StageDropped, NoSilentLeftover
  <2>6. WrittenIsInspected'
    BY <2>3 DEF WrittenIsInspected
  <2> QED
    BY <2>2, <2>3, <2>4, <2>5, <2>6 DEF JobInv
<1>8. CASE StartImport
  BY <1>8 DEF StartImport, Recording, At, Go, JobInv, JobType, StageDropped, NoSilentLeftover, WrittenIsInspected
<1>9. CASE WritePiece
  <2> DEFINE done == Len(stored.pieces)
             P == PiecesOf(expected)
             S == {P[k] : k \in Nat}
  <2>1. /\ import.pc = "write" /\ stage = expected /\ Inspected(stage) /\ stored.state = "recording"
        /\ UNCHANGED <<import, expected, stage>>
    BY <1>9 DEF WritePiece, At, JobInv
  <2>2. stored.pieces \in Seq(S) /\ done \in Nat
    BY DEF JobInv, JobType
  <2>3. stored'.pieces = Append(stored.pieces, P[done + 1]) /\ stored'.state = "recording"
        /\ stored' = [state |-> stored'.state, pieces |-> stored'.pieces]
    BY <1>9, <2>1 DEF WritePiece, JobInv, JobType
  <2>4. P[done + 1] \in S
    BY <2>2
  <2>5. stored'.pieces \in Seq(S) /\ \A k \in DOMAIN stored'.pieces : stored'.pieces[k] = P[k]
    <3>1. \A k \in DOMAIN stored.pieces : stored.pieces[k] = P[k]
      BY DEF JobInv, WrittenIsInspected
    <3> HIDE DEF P, S
    <3> QED
      BY <2>2, <2>3, <2>4, <3>1
  <2>6. stored' \in [state : {"none", "directory", "recording", "finished"}, pieces : Seq(S)]
    BY <2>3, <2>5
  <2>7. P' = P /\ S' = S
    BY <2>1
  <2>8. Len(stored'.pieces) <= Len(P)
    <3>1. done < Len(P)
      BY <1>9, <2>1 DEF WritePiece
    <3> QED
      BY <2>2, <2>3, <2>4, <3>1
  <2> QED
    BY <2>1, <2>3, <2>5, <2>6, <2>7, <2>8 DEF JobInv, JobType, StageDropped, NoSilentLeftover, WrittenIsInspected
<1>10. CASE FinishImport
  BY <1>10 DEF FinishImport, AllWritten, At, Go, JobInv, JobType, StageDropped, NoSilentLeftover, WrittenIsInspected
<1>11. CASE ImportDone
  BY <1>11 DEF ImportDone, At, JobInv, JobType, StageDropped, NoSilentLeftover, WrittenIsInspected
<1>12. CASE ImportFails
  <2>1. /\ Go("abort") /\ import.pc \in {"write", "finish"} /\ UNCHANGED <<expected, stage, stored>>
    BY <1>12 DEF ImportFails, At
  <2>2. /\ import'.pc = "abort"
        /\ import' = [pc |-> import'.pc, size |-> import'.size, result |-> import'.result]
    BY <2>1, GoInv
  <2> QED
    BY <2>1, <2>2 DEF JobInv, JobType, StageDropped, NoSilentLeftover, WrittenIsInspected
<1>13. CASE AbortImport
  <2>1. import.pc = "abort" /\ stored.state = "recording" /\ UNCHANGED expected
    BY <1>13 DEF AbortImport, At, JobInv
  <2>2. PICK error : /\ Fail(error)
                     /\ \/ stored' = NoRecording
                        \/ error = "cleanup failed" /\ UNCHANGED stored
    BY <1>13 DEF AbortImport
  <2>3. /\ import'.pc = "ended" /\ import'.result = error /\ stage' = NoStage
        /\ import' = [pc |-> import'.pc, size |-> import'.size, result |-> import'.result]
    BY <2>2, FailEnds
  <2>4. CASE stored' = NoRecording
    <3>1. stored'.state = "none" /\ stored'.pieces = <<>>
      BY <2>4 DEF NoRecording
    <3> QED
      BY <2>1, <2>3, <2>4, <3>1
      DEF JobInv, JobType, StageDropped, NoSilentLeftover, WrittenIsInspected, NoRecording
  <2>5. CASE error = "cleanup failed" /\ UNCHANGED stored
    BY <2>1, <2>3, <2>5 DEF JobInv, JobType, StageDropped, NoSilentLeftover, WrittenIsInspected
  <2> QED
    BY <2>2, <2>4, <2>5
<1> QED
  BY <1>1, <1>2, <1>3, <1>4, <1>5, <1>6, <1>7, <1>8, <1>9, <1>10, <1>11, <1>12, <1>13, <1>14 DEF JobStep

LEMMA JobNextInv ==
    ASSUME JobInv, [ImportNext \/ ValidationNext]_importVars PROVE JobInv'
<1>1. CASE UNCHANGED <<expected, import, stage, stored>>
  BY <1>1 DEF JobInv, JobType, StageDropped, NoSilentLeftover, WrittenIsInspected
<1>2. CASE JobStep
  BY <1>2, JobStepInv
<1>3. (\E f \in MediaSources : Rewrite(f)) \/ CancelImport \/ ValidationNext \/ UNCHANGED importVars
        => UNCHANGED <<expected, import, stage, stored>>
  BY DEF Rewrite, CancelImport, ValidationNext, AskValidation, ValidationBusy, ValidationTimeout,
         ValidationEnds, jobVars, importVars
<1> QED
  BY <1>1, <1>2, <1>3 DEF ImportNext

\* The pieces that were written are aligned when those of the file are.
LEMMA BeginningAligned ==
    ASSUME JobInv, CutWell(expected) PROVE PiecesAligned /\ ImportedIsInspected
<1> DEFINE P == PiecesOf(expected)
           W == stored.pieces
           T == [offset : Nat, length : Nat, start : Nat]
<1>1. /\ W \in Seq({P[k] : k \in Nat}) /\ \A k \in DOMAIN W : W[k] = P[k]
  BY DEF JobInv, JobType, WrittenIsInspected
<1>2. ASSUME stage # NoStage, NEW k \in DOMAIN W PROVE Aligned(stage, W, k)
  <2>0. import.pc \in {"write", "finish", "abort"}
    BY <1>2 DEF JobInv, JobType, ImportPcs, NoRecording, StageDropped
  <2>1. stage = expected /\ Inspected(expected) /\ Len(W) <= Len(P)
    BY <2>0 DEF JobInv
  <2>2. P \in Seq(T)
    BY <2>1 DEF CutWell
  <2>3. k \in 1..Len(W) /\ k \in DOMAIN P
    <3> HIDE DEF P, W, T
    <3> QED
      BY <1>1, <1>2, <2>1, <2>2
  <2>4. SubSeq(W, 1, k - 1) = SubSeq(P, 1, k - 1)
    <3> HIDE DEF P, W, T
    <3> QED
      BY <1>1, <2>2, <2>3
  <2>5. W[k] = P[k] /\ (k > 1 => W[k - 1] = P[k - 1])
    BY <1>1, <2>3
  <2>6. Aligned(expected, P, k)
    BY <2>1, <2>3 DEF CutWell
  <2> HIDE DEF P, W
  <2> QED
    BY <2>1, <2>4, <2>5, <2>6 DEF Aligned
<1>3. ASSUME stored.state = "finished" PROVE W = P /\ WholeAudio(expected, W)
  <2>1. Importable(expected) /\ Inspected(expected) /\ Len(W) = Len(P)
    BY <1>3 DEF JobInv, WrittenIsInspected, Importable
  <2>2. P \in Seq(T) /\ WholeAudio(expected, P)
    BY <2>1 DEF CutWell
  <2>3. W = P
    <3> HIDE DEF P, W, T
    <3> QED
      BY <1>1, <2>1, <2>2
  <2> QED
    BY <2>2, <2>3
<1> QED
  BY <1>2, <1>3 DEF PiecesAligned, ImportedIsInspected

\* Whatever happens to the file, the flag and the calls: what an import has
\* written is the beginning of the pieces of the inspected file and all of them
\* once it is finished, no private copy outlives its job, an import that fails
\* leaves no audio and no recording unless it says that its clean-up failed or
\* that the recording could not be started, and one validation thread at most
\* runs (media_import_service.rs, run_bounded_media_local_validation).
THEOREM ImportIsAtomic ==
    ImportSpec => [](ImportTypeOK /\ WrittenIsInspected /\ NoSilentLeftover /\ StageDropped)
<1>1. ImportInit => JobInv /\ SlotInv
  BY JobInitInv, SlotInitInv
<1>2. JobInv /\ SlotInv /\ [ImportNext \/ ValidationNext]_importVars => JobInv' /\ SlotInv'
  BY JobNextInv, SlotNextInv
<1>3. JobInv /\ SlotInv => ImportTypeOK /\ WrittenIsInspected /\ NoSilentLeftover /\ StageDropped
  BY OneValidation DEF JobInv, JobType, ImportPcs, ImportTypeOK
<1> QED
  BY <1>1, <1>2, <1>3, PTL DEF ImportSpec

\* ImportSound for all files that are cut well, any number of rewrites of the
\* file, failing calls and validation requests: the audio of the inspected file,
\* whole and at its time, or nothing, or an error that names what may be left
\* (media_import_service.rs).  What the cutting computes is an induction over
\* the file and is left to the model checker.
THEOREM ImportIsSound ==
    (\A f \in MediaSources : CutWell(f)) /\ ImportSpec => []ImportSound
<1> SUFFICES ASSUME \A f \in MediaSources : CutWell(f) PROVE ImportSpec => []ImportSound
  OBVIOUS
<1>1. ImportInit => JobInv /\ SlotInv /\ expected \in MediaSources
  BY JobInitInv, SlotInitInv DEF ImportInit
<1>2. JobInv /\ SlotInv /\ expected \in MediaSources /\ [ImportNext \/ ValidationNext]_importVars
        => JobInv' /\ SlotInv' /\ (expected \in MediaSources)'
  <2>1. [ImportNext \/ ValidationNext]_importVars => UNCHANGED expected
    BY DEF ImportNext, JobStep, Rewrite, CancelImport, ValidateSource, OpenSource, CreateStage, CopyFirst,
           CopyRest, Inspect, ImportStops, StartFails, StartImport, WritePiece, FinishImport, ImportDone, ImportFails,
           AbortImport, ValidationNext, AskValidation, ValidationBusy, ValidationTimeout, ValidationEnds,
           jobVars, importVars
  <2> QED
    BY <2>1, JobNextInv, SlotNextInv
<1>3. JobInv /\ SlotInv /\ expected \in MediaSources => ImportSound
  BY BeginningAligned, OneValidation DEF JobInv, JobType, ImportPcs, ImportTypeOK, ImportSound
<1> QED
  BY <1>1, <1>2, <1>3, PTL DEF ImportSpec
=============================================================================
