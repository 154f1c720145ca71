---------------------------- MODULE JobStoreFile ----------------------------
(***************************************************************************)
(* The encrypted job store of candor-core (job_manager.rs): the whole-      *)
(* document write through a temporary file and a backup, the recovery a     *)
(* restart performs, and the schema 1 -> 2 migration.                       *)
(*                                                                          *)
(* Every file-system call is a step of its own, may fail, and the process   *)
(* may be killed between any two of them.  A document is abstracted to its  *)
(* schema number and the set of jobs it lists; encryption and encoding to   *)
(* whether a file reads back ("doc") or not ("torn").  persistence_lock     *)
(* serialises writers, so there is one program counter.                     *)
(***************************************************************************)
EXTENDS Naturals, Sequences

CONSTANTS
    Job,                \* job identifiers
    LegacyJobs,         \* jobs listed by the schema-1 store found on disk
    OneShotJobs,        \* jobs without a descriptor (media imports)
    StartupReliable     \* no key, read, copy or rename fails during a load

ASSUME StoreAssumption ==
    /\ LegacyJobs \subseteq Job
    /\ OneShotJobs \subseteq Job
    /\ StartupReliable \in BOOLEAN

VARIABLES
    fs,         \* the five files of the store directory
    pc,         \* next file-system call; "down" when no process runs
    op, arg,    \* what the write in progress is for, and the job it concerns
    doc,        \* the document being written or loaded
    from,       \* the backup the load in progress restores
    misread,    \* history: this load failed to read a file that was intact
    mem,        \* the jobs map of the running JobManager
    storeError, \* persistence_error is set
    accepted,   \* history: acknowledged submissions, not dismissed since
    purged      \* history: jobs whose purge was reported complete

loadVars == <<from, misread>>
ioVars == <<pc, op, arg, doc, loadVars>>
historyVars == <<accepted, purged>>
vars == <<fs, ioVars, mem, storeError, historyVars>>

-----------------------------------------------------------------------------
(* Files and documents *)

File == {"target", "backup", "temp", "migration", "recovery"}

Content == [kind : {"absent", "torn", "doc"}, schema : 0..2, jobs : SUBSET Job]

Absent == [kind |-> "absent", schema |-> 0, jobs |-> {}]
Torn == [kind |-> "torn", schema |-> 0, jobs |-> {}]

(* Fault: the schema constant was raised, the reader was not. *)
DocumentNextSchema(n, S) == [kind |-> "doc", schema |-> n + 1, jobs |-> S]
Document(n, S) == [kind |-> "doc", schema |-> n, jobs |-> S]

Exists(f) == fs[f].kind # "absent"
Readable(f) == fs[f].kind = "doc"

(* The file a load whose reads succeed takes the document from. *)
LoadSource ==
    IF Readable("target") THEN "target"
    ELSE IF Readable("migration") THEN "migration"
    ELSE IF Readable("backup") THEN "backup"
    ELSE "none"

(* The jobs a restart in this very state would load. *)
RecoverableJobs == IF LoadSource = "none" THEN {} ELSE fs[LoadSource].jobs

PC == {"down", "restore", "promote", "prepare", "migrate", "verify", "rollback",
       "install", "idle", "stage", "sync", "backup", "replace", "create",
       "clean", "done", "failed", "artifacts"}

TypeOK ==
    /\ fs \in [File -> Content]
    /\ pc \in PC
    /\ op \in {"none", "accept", "save", "purge", "migrate"}
    /\ arg \in SUBSET Job
    /\ doc \in SUBSET Job
    /\ from \in {"none", "migration", "backup"}
    /\ misread \in BOOLEAN
    /\ mem \in SUBSET Job
    /\ storeError \in BOOLEAN
    /\ accepted \in SUBSET Job
    /\ purged \in SUBSET Job

Init ==
    /\ fs = [f \in File |-> IF f = "target" /\ LegacyJobs # {}
                            THEN Document(1, LegacyJobs) ELSE Absent]
    /\ pc = "down" /\ op = "none" /\ arg = {} /\ doc = {}
    /\ from = "none" /\ misread = FALSE
    /\ mem = {}
    /\ storeError = FALSE
    /\ accepted = LegacyJobs
    /\ purged = {}

-----------------------------------------------------------------------------
(* Operations of the running manager; each ends in one write. *)

(* Take persistence_lock, snapshot the jobs map and start the write. *)
BeginWrite(o, a, S) ==
    /\ pc' = "stage" /\ op' = o /\ arg' = a /\ doc' = S
    /\ UNCHANGED loadVars

(* Fault: the submission is acknowledged before it is persisted. *)
SubmitAcknowledgedEarly(j) ==
    /\ pc = "idle" /\ ~storeError
    /\ j \notin mem \cup accepted \cup purged
    /\ mem' = mem \cup {j}
    /\ accepted' = accepted \cup {j}
    /\ BeginWrite("accept", {j}, mem')
    /\ UNCHANGED <<fs, storeError, purged>>

(* insert_job: the new entry is visible, then persisted.  Only a job with  *)
(* a descriptor asks for require_persistence_ready.                        *)
Submit(j) ==
    /\ pc = "idle"
    /\ j \in OneShotJobs \/ ~storeError
    /\ j \notin mem \cup accepted \cup purged
    /\ mem' = mem \cup {j}
    /\ BeginWrite("accept", {j}, mem')
    /\ UNCHANGED <<fs, storeError, historyVars>>

(* mutate: any update of an entry ends in persist_best_effort. *)
Save ==
    /\ pc = "idle"
    /\ BeginWrite("save", {}, mem)
    /\ UNCHANGED <<fs, mem, storeError, historyVars>>

(* acknowledge: the terminal job leaves the map, then the map is saved. *)
Acknowledge(j) ==
    /\ pc = "idle" /\ j \in mem
    /\ mem' = mem \ {j}
    /\ accepted' = accepted \ {j}
    /\ BeginWrite("save", {}, mem')
    /\ UNCHANGED <<fs, storeError, purged>>

(* Fault: the snapshot is taken before the jobs are removed from the map. *)
PurgeAfterSnapshot(j) ==
    /\ pc = "idle" /\ j \notin purged
    /\ mem' = mem \ {j}
    /\ accepted' = accepted \ {j}
    /\ BeginWrite("purge", {j}, mem)
    /\ UNCHANGED <<fs, storeError, purged>>

(* purge_recording_jobs: also retried after an earlier attempt failed. *)
Purge(j) ==
    /\ pc = "idle" /\ j \notin purged
    /\ mem' = mem \ {j}
    /\ accepted' = accepted \ {j}
    /\ BeginWrite("purge", {j}, mem')
    /\ UNCHANGED <<fs, storeError, purged>>

-----------------------------------------------------------------------------
(* write_job_document, one action per file-system call *)

Goto(label) == pc' = label /\ UNCHANGED <<op, arg, doc, loadVars>>

(* The write returns Err; a migration write only when loads may fail. *)
Fail ==
    /\ op = "migrate" => ~StartupReliable
    /\ Goto("failed")

(* Remove a stale temporary file, create it exclusively, start writing. *)
StageTemp ==
    /\ pc = "stage"
    /\ \/ fs' = [fs EXCEPT !["temp"] = Torn] /\ Goto("sync")
       \/ \E c \in {fs["temp"], Absent} :
            fs' = [fs EXCEPT !["temp"] = c] /\ Fail
    /\ UNCHANGED <<mem, storeError, historyVars>>

(* Finish writing and sync_all. *)
SyncTemp ==
    /\ pc = "sync"
    /\ \/ fs' = [fs EXCEPT !["temp"] = Document(2, doc)] /\ Goto("backup")
       \/ UNCHANGED fs /\ Fail
    /\ UNCHANGED <<mem, storeError, historyVars>>

(* Fault: the current document is removed instead of set aside. *)
BackupTargetRemoved ==
    /\ pc = "backup"
    /\ fs' = [fs EXCEPT !["target"] = Absent]
    /\ IF Exists("target") THEN Goto("replace") ELSE Goto("create")
    /\ UNCHANGED <<mem, storeError, historyVars>>

(* Move the current document aside as the backup. *)
BackupTarget ==
    /\ pc = "backup"
    /\ \/ /\ ~Exists("target")
          /\ UNCHANGED fs /\ Goto("create")
       \/ /\ Exists("target")
          /\ fs' = [fs EXCEPT !["backup"] = fs["target"], !["target"] = Absent]
          /\ Goto("replace")
       \/ /\ Exists("target")
          /\ \E c \in {fs["backup"], Absent} : fs' = [fs EXCEPT !["backup"] = c]
          /\ Fail
    /\ UNCHANGED <<mem, storeError, historyVars>>

(* Promote the temporary file; when that fails over an existing document,  *)
(* try to move the backup back.                                            *)
CommitTemp ==
    /\ pc \in {"replace", "create"}
    /\ \/ /\ fs' = [fs EXCEPT !["target"] = fs["temp"], !["temp"] = Absent]
          /\ Goto("clean")
       \/ /\ pc = "replace" /\ Exists("backup")
          /\ fs' = [fs EXCEPT !["target"] = fs["backup"], !["backup"] = Absent]
          /\ Fail
       \/ UNCHANGED fs /\ Fail
    /\ UNCHANGED <<mem, storeError, historyVars>>

(* Remove the backup; a failure is reported although the write committed. *)
CleanBackup ==
    /\ pc = "clean"
    /\ \/ fs' = [fs EXCEPT !["backup"] = Absent] /\ Goto("done")
       \/ Exists("backup") /\ UNCHANGED fs /\ Fail
    /\ UNCHANGED <<mem, storeError, historyVars>>

(* What each caller does with a write that returned Ok. *)
WriteDone ==
    /\ pc = "done"
    /\ \/ /\ op = "accept"
          /\ accepted' = accepted \cup arg
          /\ Goto("idle")
          /\ UNCHANGED storeError
       \/ /\ op = "save"
          /\ storeError' = FALSE
          /\ Goto("idle")
          /\ UNCHANGED accepted
       \/ /\ op = "purge" /\ Goto("artifacts")
          /\ UNCHANGED <<storeError, accepted>>
       \/ /\ op = "migrate" /\ Goto("verify")
          /\ UNCHANGED <<storeError, accepted>>
    /\ UNCHANGED <<fs, mem, purged>>

(* What each caller does with a write that returned Err. *)
WriteFailed ==
    /\ pc = "failed"
    /\ \/ /\ op = "accept"
          /\ mem' = mem \ arg
          /\ storeError' \in {TRUE, storeError} \* too large: not remembered
          /\ Goto("idle")
       \/ /\ op = "save"
          /\ storeError' = TRUE
          /\ Goto("idle")
          /\ UNCHANGED mem
       \/ /\ op = "purge" /\ Goto("idle")
          /\ UNCHANGED <<mem, storeError>>
       \/ /\ op = "migrate" /\ Goto("rollback")
          /\ UNCHANGED <<mem, storeError>>
    /\ UNCHANGED <<fs, historyVars>>

(* Fault: the migration backup is forgotten. *)
ArtifactOrderShort == <<"backup", "temp", "recovery">>
(* remove_job_prior_state_artifacts, in this order, stopping at the first  *)
(* file that cannot be removed.                                            *)
ArtifactOrder == <<"backup", "migration", "temp", "recovery">>

RemoveArtifacts ==
    /\ pc = "artifacts"
    /\ \E n \in 0..Len(ArtifactOrder) :
        /\ fs' = [f \in File |-> IF \E i \in 1..n : ArtifactOrder[i] = f
                                 THEN Absent ELSE fs[f]]
        /\ purged' = IF n = Len(ArtifactOrder) THEN purged \cup arg ELSE purged
    /\ Goto("idle")
    /\ UNCHANGED <<mem, storeError, accepted>>
-----------------------------------------------------------------------------
(* JobManager::build: load, recover, migrate, install *)

(* Loading gave up: the manager runs with no jobs and a stored error. *)
LoadFailed ==
    /\ ~StartupReliable
    /\ pc' = "idle" /\ op' = "none" /\ arg' = {} /\ doc' = {}
    /\ storeError' = TRUE
    /\ UNCHANGED loadVars

(* The files that read_job_document_with_recovery tries before f. *)
TriedBefore(f) ==
    CASE f = "target" -> {}
      [] f = "migration" -> {"target"}
      [] f = "backup" -> {"target", "migration"}
      [] f = "none" -> {"target", "migration", "backup"}

(* The load passes over what comes before f: a file that does not decode,  *)
(* and an intact one only when its read (or the key's) fails.              *)
PassesOver(f) ==
    LET skipped == {g \in TriedBefore(f) : Readable(g)}
    IN  /\ skipped # {} => ~StartupReliable
        /\ misread' = (skipped # {})

(* read_job_document_with_recovery: the first of the three files that      *)
(* reads.  With none, a target that exists is an error and an absent one   *)
(* is an empty store.                                                      *)
Start ==
    /\ pc = "down"
    /\ \/ /\ Readable("target") /\ PassesOver("target")
          /\ pc' = "prepare" /\ doc' = fs["target"].jobs
          /\ UNCHANGED <<op, arg, from, storeError>>
       \/ \E f \in {"migration", "backup"} :
            /\ Readable(f) /\ PassesOver(f)
            /\ pc' = "restore" /\ from' = f
            /\ UNCHANGED <<op, arg, doc, storeError>>
       \/ /\ ~Exists("target") /\ PassesOver("none")
          /\ pc' = "install" /\ UNCHANGED <<op, arg, doc, from, storeError>>
       \/ Exists("target") /\ LoadFailed
    /\ UNCHANGED <<fs, mem, historyVars>>

(* restore_job_store_backup: copy the chosen backup and sync the copy. *)
CopyBackup ==
    /\ pc = "restore"
    /\ \/ /\ fs' = [fs EXCEPT !["recovery"] = fs[from]]
          /\ Goto("promote") /\ UNCHANGED storeError
       \/ /\ \E c \in {Absent, Torn} : fs' = [fs EXCEPT !["recovery"] = c]
          /\ LoadFailed
    /\ UNCHANGED <<mem, historyVars>>

(* Remove the target that could not be read. *)
RemoveUnread ==
    /\ pc = "promote" /\ Exists("target")
    /\ \/ /\ fs' = [fs EXCEPT !["target"] = Absent]
          /\ UNCHANGED <<ioVars, storeError>>
       \/ /\ \E c \in {fs["recovery"], Absent} :
                fs' = [fs EXCEPT !["recovery"] = c]
          /\ LoadFailed
    /\ UNCHANGED <<mem, historyVars>>

(* Rename the copy to the missing target, then read it. *)
PromoteCopy ==
    /\ pc = "promote" /\ ~Exists("target")
    /\ \/ /\ fs' = [fs EXCEPT !["target"] = fs["recovery"], !["recovery"] = Absent]
          /\ \/ /\ pc' = "prepare" /\ doc' = fs["recovery"].jobs
                /\ UNCHANGED <<op, arg, loadVars, storeError>>
             \/ LoadFailed
       \/ /\ \E c \in {fs["recovery"], Absent} :
                fs' = [fs EXCEPT !["recovery"] = c]
          /\ LoadFailed
    /\ UNCHANGED <<mem, historyVars>>

(* prepare_job_document on a current document: validate every descriptor   *)
(* (one staged dictionary that is missing fails the whole load), then drop *)
(* the migration backup, ignoring a failure to do so.                      *)
PrepareCurrent ==
    /\ pc = "prepare" /\ fs["target"].schema = 2
    /\ \/ /\ \E c \in {fs["migration"], Absent} :
                fs' = [fs EXCEPT !["migration"] = c]
          /\ Goto("install") /\ UNCHANGED storeError
       \/ UNCHANGED fs /\ LoadFailed
    /\ UNCHANGED <<mem, historyVars>>

(* prepare_job_document on a schema-1 document: copy it as rollback backup. *)
BackupForMigration ==
    /\ pc = "prepare" /\ fs["target"].schema = 1
    /\ \/ /\ fs' = [fs EXCEPT !["migration"] = fs["target"]]
          /\ Goto("migrate") /\ UNCHANGED storeError
       \/ /\ \E c \in {fs["migration"], Absent, Torn} :
                fs' = [fs EXCEPT !["migration"] = c]
          /\ LoadFailed
    /\ UNCHANGED <<mem, historyVars>>

(* Migrate the descriptors, then write the document under schema 2. *)
MigrateDescriptors ==
    /\ pc = "migrate"
    /\ \/ BeginWrite("migrate", {}, doc)
       \/ ~StartupReliable /\ Goto("rollback")
    /\ UNCHANGED <<fs, mem, storeError, historyVars>>

VerifyMigration ==
    /\ pc = "verify"
    /\ \/ Goto("install")
       \/ ~StartupReliable /\ Goto("rollback")
    /\ UNCHANGED <<fs, mem, storeError, historyVars>>

(* Fault: the rollback removes the backup together with the document. *)
RollbackRemovesBackup ==
    /\ pc = "rollback"
    /\ fs' = [fs EXCEPT !["target"] = Absent, !["migration"] = Absent]
    /\ LoadFailed
    /\ UNCHANGED <<mem, historyVars>>

(* Remove the migrated document and move the rollback backup into place. *)
RollbackMigration ==
    /\ pc = "rollback"
    /\ \/ fs' = [fs EXCEPT !["target"] = fs["migration"], !["migration"] = Absent]
       \/ \E c \in {fs["target"], Absent} : fs' = [fs EXCEPT !["target"] = c]
    /\ LoadFailed
    /\ UNCHANGED <<mem, historyVars>>

(* Fill the jobs map and save it once before serving requests. *)
Install ==
    /\ pc = "install"
    /\ mem' = doc
    /\ BeginWrite("save", {}, doc)
    /\ UNCHANGED <<fs, storeError, historyVars>>

(* The process is killed. *)
Crash ==
    /\ pc # "down"
    /\ pc' = "down" /\ op' = "none" /\ arg' = {} /\ doc' = {}
    /\ from' = "none" /\ misread' = FALSE
    /\ mem' = {}
    /\ storeError' = FALSE
    /\ UNCHANGED <<fs, historyVars>>

-----------------------------------------------------------------------------
Next ==
    \/ \E j \in Job : Submit(j) \/ Acknowledge(j) \/ Purge(j)
    \/ Save
    \/ StageTemp \/ SyncTemp \/ BackupTarget \/ CommitTemp \/ CleanBackup
    \/ WriteDone \/ WriteFailed \/ RemoveArtifacts
    \/ Start \/ CopyBackup \/ RemoveUnread \/ PromoteCopy
    \/ PrepareCurrent \/ BackupForMigration \/ MigrateDescriptors
    \/ VerifyMigration \/ RollbackMigration \/ Install
    \/ Crash

Spec == Init /\ [][Next]_vars

-----------------------------------------------------------------------------
(* Properties *)

(***************************************************************************)
(* A submission that insert_job acknowledged is never lost: whatever file- *)
(* system call failed last, and whenever the process is killed, the next   *)
(* start finds the job.                                                    *)
(***************************************************************************)
AcceptedDurable == accepted \subseteq RecoverableJobs

Loading ==
    \/ pc \in {"down", "restore", "promote", "prepare", "migrate", "verify",
               "rollback"}
    \/ op = "migrate"

(***************************************************************************)
(* A load whose reads of intact files succeed never changes what the next  *)
(* restart would find: no step of recovery, migration, verification or     *)
(* rollback, whether it succeeds, fails or is cut short by a crash, drops  *)
(* a job or brings an older document back.  A load that fails to read an   *)
(* intact target goes on to an older copy and puts it in the target's      *)
(* place, or starts an empty store: of those loads this says nothing.      *)
(***************************************************************************)
LoadPreserves ==
    [][Loading /\ ~misread => RecoverableJobs' = RecoverableJobs]_vars

(***************************************************************************)
(* Once purge_recording_jobs has reported success, no file of the store    *)
(* lists the job any more, not even a backup, a staging file or a          *)
(* recovery copy that a later crash could bring back.                      *)
(***************************************************************************)
PurgedErased == \A j \in purged : \A f \in File : j \notin fs[f].jobs

(***************************************************************************)
(* The set-aside / promote / clean-up protocol with its recovery behaves   *)
(* as one atomic register of jobs.                                         *)
(***************************************************************************)
Ledger == INSTANCE JobLedger WITH stored <- RecoverableJobs, erased <- purged

ImplementsLedger == Ledger!LedgerSpec
==============================================================================
