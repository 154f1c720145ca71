------------------------- MODULE JobStoreFileProofs -------------------------
(***************************************************************************)
(* Proofs about JobStoreFile, for every set of jobs and every number of     *)
(* failures and crashes: the store is type correct, a purge erases, loading *)
(* changes nothing that a restart would find, and a store whose loads       *)
(* succeed keeps what it accepted and is an atomic register.                *)
(***************************************************************************)
EXTENDS JobStoreFile, TLAPS

LEMMA FileFacts ==
    /\ Absent \in Content /\ Absent.kind = "absent" /\ Absent.jobs = {}
    /\ Torn \in Content /\ Torn.kind = "torn" /\ Torn.jobs = {}
    /\ \A c \in Content : /\ c.kind \in {"absent", "torn", "doc"}
                          /\ c.jobs \in SUBSET Job
BY DEF Absent, Torn, Content

LEMMA DocumentFacts ==
    ASSUME NEW n \in {1, 2}, NEW S \in SUBSET Job
    PROVE  /\ Document(n, S) \in Content
           /\ Document(n, S).kind = "doc"
           /\ Document(n, S).schema = n
           /\ Document(n, S).jobs = S
BY DEF Document, Content

-----------------------------------------------------------------------------
(* Type correctness *)

(* The file a restore copies from exists: what TypeOK needs to be inductive. *)
RestoreHasSource ==
    pc = "restore" => from \in {"migration", "backup"} /\ Readable(from)

TypeInv == TypeOK /\ RestoreHasSource

LEMMA InitType == Init => TypeInv
<1> SUFFICES ASSUME Init PROVE TypeInv
  OBVIOUS
<1>1. fs \in [File -> Content]
  <2>1. Document(1, LegacyJobs) \in Content
    BY DocumentFacts, StoreAssumption
  <2>2. QED
    BY <2>1, FileFacts DEF Init
<1>2. QED
  BY <1>1, StoreAssumption DEF Init, TypeInv, TypeOK, RestoreHasSource, PC

LEMMA NextType == TypeInv /\ [Next]_vars => TypeInv'
<1> SUFFICES ASSUME TypeInv, [Next]_vars PROVE TypeInv'
  OBVIOUS
<1>0. TypeOK /\ RestoreHasSource
  BY DEF TypeInv
<1> USE FileFacts, <1>0 DEF loadVars
<1>1. ASSUME NEW j \in Job, Submit(j) \/ Acknowledge(j) \/ Purge(j) PROVE TypeInv'
  BY <1>1 DEF TypeInv, TypeOK, RestoreHasSource, Submit, Acknowledge, Purge,
              BeginWrite, PC, historyVars
<1>2. CASE Save
  BY <1>2 DEF TypeInv, TypeOK, RestoreHasSource, Save, BeginWrite, PC, historyVars
<1>3. CASE StageTemp
  BY <1>3 DEF TypeInv, TypeOK, RestoreHasSource, StageTemp, Goto, Fail, PC, File,
              historyVars
<1>4. CASE SyncTemp
  <2>1. Document(2, doc) \in Content
    BY DocumentFacts DEF TypeOK
  <2>2. QED
    BY <2>1, <1>4 DEF TypeInv, TypeOK, RestoreHasSource, SyncTemp, Goto, Fail, PC,
                      File, historyVars
<1>5. CASE BackupTarget
  BY <1>5 DEF TypeInv, TypeOK, RestoreHasSource, BackupTarget, Goto, Fail, PC, File,
              historyVars
<1>6. CASE CommitTemp
  BY <1>6 DEF TypeInv, TypeOK, RestoreHasSource, CommitTemp, Goto, Fail, PC, File,
              historyVars
<1>7. CASE CleanBackup
  BY <1>7 DEF TypeInv, TypeOK, RestoreHasSource, CleanBackup, Goto, Fail, PC, File,
              historyVars
<1>8. CASE WriteDone
  BY <1>8 DEF TypeInv, TypeOK, RestoreHasSource, WriteDone, Goto, PC
<1>9. CASE WriteFailed
  BY <1>9 DEF TypeInv, TypeOK, RestoreHasSource, WriteFailed, Goto, PC, historyVars
<1>10. CASE RemoveArtifacts
  BY <1>10 DEF TypeInv, TypeOK, RestoreHasSource, RemoveArtifacts, Goto, PC
<1>11. CASE Start
  <2>1. fs["target"].jobs \in SUBSET Job
    BY DEF TypeOK, File
  <2>2. TypeOK'
    BY <2>1, <1>11 DEF TypeOK, Start, PassesOver, LoadFailed, PC, historyVars
  <2>3. RestoreHasSource'
    BY <1>11 DEF RestoreHasSource, Start, LoadFailed, Readable
  <2>4. QED
    BY <2>2, <2>3 DEF TypeInv
<1>12. CASE CopyBackup
  <2>1. fs[from] \in Content
    BY <1>12 DEF TypeOK, RestoreHasSource, CopyBackup, File
  <2>2. fs' \in [File -> Content]
    BY <2>1, <1>12 DEF TypeOK, CopyBackup
  <2>3. QED
    BY <2>2, <1>12 DEF TypeInv, TypeOK, RestoreHasSource, CopyBackup, Goto, LoadFailed,
                       PC, historyVars
<1>13. CASE PromoteCopy
  <2>1. fs["recovery"].jobs \in SUBSET Job
    BY DEF TypeOK, File
  <2>2. fs' \in [File -> Content]
    BY <1>13 DEF TypeOK, PromoteCopy, File
  <2>3. QED
    BY <2>1, <2>2, <1>13 DEF TypeInv, TypeOK, RestoreHasSource, PromoteCopy, LoadFailed,
                             PC, historyVars
<1>14. CASE PrepareCurrent
  <2>1. fs' \in [File -> Content]
    BY <1>14 DEF TypeOK, PrepareCurrent, File
  <2>2. QED
    BY <2>1, <1>14 DEF TypeInv, TypeOK, RestoreHasSource, PrepareCurrent, Goto,
                       LoadFailed, PC, historyVars
<1>15. CASE BackupForMigration
  <2>1. fs' \in [File -> Content]
    BY <1>15 DEF TypeOK, BackupForMigration, File
  <2>2. QED
    BY <2>1, <1>15 DEF TypeInv, TypeOK, RestoreHasSource, BackupForMigration, Goto,
                       LoadFailed, PC, historyVars
<1>16. CASE MigrateDescriptors
  BY <1>16 DEF TypeInv, TypeOK, RestoreHasSource, MigrateDescriptors, BeginWrite, Goto,
               PC, historyVars
<1>17. CASE VerifyMigration
  BY <1>17 DEF TypeInv, TypeOK, RestoreHasSource, VerifyMigration, Goto, PC, historyVars
<1>18. CASE RollbackMigration
  BY <1>18 DEF TypeInv, TypeOK, RestoreHasSource, RollbackMigration, LoadFailed, PC,
               File, historyVars
<1>19. CASE Install
  BY <1>19 DEF TypeInv, TypeOK, RestoreHasSource, Install, BeginWrite, PC, historyVars
<1>20. CASE Crash
  BY <1>20 DEF TypeInv, TypeOK, RestoreHasSource, Crash, PC, historyVars
<1>21. CASE UNCHANGED vars
  BY <1>21 DEF TypeInv, TypeOK, RestoreHasSource, Readable, vars, ioVars, historyVars
<1>22. CASE RemoveUnread
  <2>1. fs' \in [File -> Content]
    BY <1>22 DEF TypeOK, RemoveUnread, File
  <2>2. pc' \in {"promote", "idle"}
    BY <1>22 DEF RemoveUnread, LoadFailed, ioVars
  <2>3. QED
    BY <2>1, <2>2, <1>22 DEF TypeInv, TypeOK, RestoreHasSource, RemoveUnread, LoadFailed,
                             ioVars, PC, historyVars
<1>23. QED
  BY <1>1, <1>2, <1>3, <1>4, <1>5, <1>6, <1>7, <1>8, <1>9, <1>10, <1>11, <1>12,
     <1>13, <1>14, <1>15, <1>16, <1>17, <1>18, <1>19, <1>20, <1>21, <1>22
     DEF Next

LEMMA TypeInvariant == Spec => []TypeInv
BY InitType, NextType, PTL DEF Spec

(***************************************************************************)
(* The state of the store has its type, whatever fails: in particular a     *)
(* restore always finds the backup it was chosen for, and no file holds a   *)
(* schema number the reader does not know.                                  *)
(***************************************************************************)
THEOREM TypeCorrect == Spec => []TypeOK
<1>1. TypeInv => TypeOK
  BY DEF TypeInv
<1>2. QED
  BY <1>1, TypeInvariant, PTL

-----------------------------------------------------------------------------
(* A purge erases *)

(***************************************************************************)
(* PurgedErased is not inductive: RemoveArtifacts reports success although  *)
(* it never touches the primary file, so the invariant follows the jobs     *)
(* being purged through the snapshot, the temporary file and the primary    *)
(* file, and keeps purged jobs out of the map and out of every document     *)
(* that a later step may write.                                             *)
(***************************************************************************)
PurgeInv ==
    /\ PurgedErased
    /\ purged \cap mem = {} /\ purged \cap doc = {}
    /\ pc \in {"down", "restore", "promote", "prepare"} => op = "none"
    /\ op = "purge" => arg \cap mem = {} /\ arg \cap doc = {}
    /\ pc \in {"backup", "replace", "create"} => fs["temp"].jobs = doc
    /\ pc \in {"clean", "done", "artifacts"} => fs["target"].jobs = doc
    /\ pc = "artifacts" => op = "purge"
LEMMA InitPurge == Init => PurgeInv
BY FileFacts, DocumentFacts, StoreAssumption DEF Init, PurgeInv, PurgedErased

LEMMA NextPurge == TypeInv /\ PurgeInv /\ [Next]_vars => PurgeInv'
<1> SUFFICES ASSUME TypeInv, PurgeInv, [Next]_vars PROVE PurgeInv'
  OBVIOUS
<1>0. TypeOK /\ RestoreHasSource
  BY DEF TypeInv
<1> USE FileFacts, <1>0 DEF loadVars
<1>1. ASSUME NEW j \in Job, Submit(j) \/ Acknowledge(j) \/ Purge(j) PROVE PurgeInv'
  BY <1>1 DEF PurgeInv, PurgedErased, Submit, Acknowledge, Purge, BeginWrite,
              historyVars
<1>2. CASE Save
  BY <1>2 DEF PurgeInv, PurgedErased, TypeOK, File, Save, BeginWrite, historyVars
<1>3. CASE StageTemp
  BY <1>3 DEF PurgeInv, PurgedErased, TypeOK, File, StageTemp, Goto, Fail, historyVars
<1>4. CASE SyncTemp
  <2>1. Document(2, doc).jobs = doc
    BY DocumentFacts DEF TypeOK
  <2>2. QED
    BY <1>4, <2>1 DEF PurgeInv, PurgedErased, TypeOK, File, SyncTemp, Goto, Fail, historyVars
<1>5. CASE BackupTarget
  BY <1>5 DEF PurgeInv, PurgedErased, TypeOK, File, BackupTarget, Goto, Fail, historyVars
<1>6. CASE CommitTemp
  BY <1>6 DEF PurgeInv, PurgedErased, TypeOK, File, CommitTemp, Goto, Fail, historyVars
<1>7. CASE CleanBackup
  BY <1>7 DEF PurgeInv, PurgedErased, TypeOK, File, CleanBackup, Goto, Fail, historyVars
<1>8. CASE WriteDone
  BY <1>8 DEF PurgeInv, PurgedErased, TypeOK, File, WriteDone, Goto
<1>9. CASE WriteFailed
  BY <1>9 DEF PurgeInv, PurgedErased, TypeOK, File, WriteFailed, Goto, historyVars
<1>10. CASE RemoveArtifacts
  <2>1. PICK n \in 0..4 :
           /\ fs' = [f \in File |-> IF \E i \in 1..n : ArtifactOrder[i] = f
                                    THEN Absent ELSE fs[f]]
           /\ purged' = IF n = 4 THEN purged \cup arg ELSE purged
    BY <1>10 DEF RemoveArtifacts, ArtifactOrder
  <2>2. n = 4 => \A f \in File : f = "target" \/ fs'[f] = Absent
    BY <2>1 DEF File, ArtifactOrder
  <2>3. "target" \in File /\ fs'["target"] = fs["target"]
    BY <2>1 DEF File, ArtifactOrder
  <2>4. \A f \in File : fs'[f] = Absent \/ fs'[f] = fs[f]
    BY <2>1
  <2>5. PurgedErased'
    BY <1>10, <2>1, <2>2, <2>3, <2>4 DEF PurgeInv, PurgedErased, RemoveArtifacts
  <2>6. QED
    BY <1>10, <2>1, <2>5 DEF PurgeInv, RemoveArtifacts, Goto
<1>11. CASE Start
  BY <1>11 DEF PurgeInv, PurgedErased, TypeOK, File, Start, Goto, LoadFailed, LoadSource, Readable, historyVars
<1>12. CASE CopyBackup
  <2>1. \A f \in File : fs'[f].jobs = {} \/ \E g \in File : fs'[f].jobs = fs[g].jobs
    <3>1. from \in File
      BY <1>12 DEF CopyBackup, RestoreHasSource, File
    <3>2. QED
      BY <1>12, <3>1 DEF CopyBackup, TypeOK
  <2>2. PurgedErased'
    BY <1>12, <2>1 DEF PurgeInv, PurgedErased, CopyBackup, historyVars
  <2>3. QED
    BY <1>12, <2>2 DEF PurgeInv, CopyBackup, Goto, LoadFailed, historyVars
<1>13. CASE PromoteCopy
  BY <1>13 DEF PurgeInv, PurgedErased, TypeOK, File, PromoteCopy, LoadFailed, historyVars
<1>14. CASE PrepareCurrent
  BY <1>14 DEF PurgeInv, PurgedErased, TypeOK, File, PrepareCurrent, Goto, LoadFailed, historyVars
<1>15. CASE BackupForMigration
  BY <1>15 DEF PurgeInv, PurgedErased, TypeOK, File, BackupForMigration, Goto, LoadFailed, historyVars
<1>16. CASE MigrateDescriptors
  BY <1>16 DEF PurgeInv, PurgedErased, TypeOK, File, MigrateDescriptors, BeginWrite, Goto, historyVars
<1>17. CASE VerifyMigration
  BY <1>17 DEF PurgeInv, PurgedErased, TypeOK, File, VerifyMigration, Goto, historyVars
<1>18. CASE RollbackMigration
  BY <1>18 DEF PurgeInv, PurgedErased, TypeOK, File, RollbackMigration, LoadFailed, historyVars
<1>19. CASE Install
  BY <1>19 DEF PurgeInv, PurgedErased, TypeOK, File, Install, BeginWrite, historyVars
<1>20. CASE Crash
  BY <1>20 DEF PurgeInv, PurgedErased, Crash, historyVars
<1>21. CASE UNCHANGED vars
  BY <1>21 DEF PurgeInv, PurgedErased, vars, ioVars, historyVars
<1>22. CASE RemoveUnread
  BY <1>22 DEF PurgeInv, PurgedErased, TypeOK, File, RemoveUnread, LoadFailed, ioVars,
               historyVars
<1>23. QED
  BY <1>1, <1>2, <1>3, <1>4, <1>5, <1>6, <1>7, <1>8, <1>9, <1>10, <1>11, <1>12, <1>13, <1>14, <1>15, <1>16, <1>17, <1>18, <1>19, <1>20, <1>21, <1>22 DEF Next

(***************************************************************************)
(* For every store, with schema-1 documents, failing calls and crashes:     *)
(* once purge_recording_jobs has reported success no file of the store      *)
(* lists the job again.                                                     *)
(***************************************************************************)
THEOREM PurgeErases == Spec => []PurgedErased
<1>1. PurgeInv => PurgedErased
  BY DEF PurgeInv
<1>2. QED
  BY <1>1, InitPurge, NextPurge, TypeInvariant, PTL DEF Spec

-----------------------------------------------------------------------------
(* A store whose loads succeed *)

Running == pc \notin {"down", "restore", "promote", "prepare", "install"}
Writing == pc \in {"stage", "sync", "backup", "replace", "create", "clean", "done",
                   "artifacts"}

(***************************************************************************)
(* What makes AcceptedDurable inductive when no load fails and no schema-1  *)
(* store exists: neither the primary file nor the backup is ever torn, each *)
(* stage of a load still sees the document it started from, the map and     *)
(* the snapshot being written hold every accepted job, and a rename over    *)
(* the primary file only happens with the temporary file complete.          *)
(***************************************************************************)
DurableInv ==
    /\ AcceptedDurable
    /\ ~Exists("migration")
    /\ \A f \in {"target", "backup"} :
          fs[f].kind # "torn" /\ (fs[f].kind = "doc" => fs[f].schema = 2)
    /\ op # "migrate" /\ pc \notin {"migrate", "verify", "rollback"}
    /\ pc = "down" => doc = {}
    /\ pc = "restore" => ~Readable("target") /\ Readable("backup") /\ from = "backup"
    /\ pc = "promote" => /\ ~Readable("target") /\ Readable("backup")
                         /\ fs["recovery"] = fs["backup"]
    /\ pc = "prepare" => Readable("target") /\ doc = fs["target"].jobs
    /\ pc = "install" => doc = RecoverableJobs
    /\ Running => accepted \subseteq mem
    /\ Writing => accepted \subseteq doc
    /\ pc \in {"backup", "replace", "create"} => fs["temp"] = Document(2, doc)
    /\ pc \in {"replace", "create"} => ~Readable("target")
    /\ pc \in {"clean", "done", "artifacts"} => fs["target"] = Document(2, doc)
    /\ op = "accept" => /\ \E j \in Job : arg = {j}
                        /\ pc # "idle" => arg \cap accepted = {}
                        /\ Writing => arg \subseteq doc \cap mem
    /\ op = "purge" => (\E j \in Job : arg = {j}) /\ arg \cap accepted = {}
(* Without a migration backup a restart looks at two files only. *)
LEMMA TwoFiles ==
    ASSUME ~Exists("migration")
    PROVE  /\ LoadSource = IF Readable("target") THEN "target"
                           ELSE IF Readable("backup") THEN "backup" ELSE "none"
           /\ RecoverableJobs = IF Readable("target") THEN fs["target"].jobs
                                ELSE IF Readable("backup") THEN fs["backup"].jobs
                                ELSE {}
BY DEF Exists, Readable, LoadSource, RecoverableJobs

(* The same one step later; primes do not distribute over a lemma. *)
LEMMA TwoFilesNext ==
    ASSUME ~Exists("migration")'
    PROVE  RecoverableJobs' = IF Readable("target")' THEN fs'["target"].jobs
                              ELSE IF Readable("backup")' THEN fs'["backup"].jobs
                              ELSE {}
BY DEF Exists, Readable, LoadSource, RecoverableJobs

LEMMA InitDurable == Init /\ LegacyJobs = {} => DurableInv
BY FileFacts DEF Init, DurableInv, Running, Writing, AcceptedDurable, Exists, Readable, LoadSource, RecoverableJobs, File

LEMMA NextDurable ==
    ASSUME StartupReliable, TypeInv, PurgeInv, DurableInv, [Next]_vars
    PROVE  DurableInv'
<1>0. TypeOK /\ RestoreHasSource
  BY DEF TypeInv
<1>d. LET d == Document(2, doc)
      IN  d.kind = "doc" /\ d.schema = 2 /\ d.jobs = doc
  BY <1>0, DocumentFacts DEF TypeOK
<1> USE FileFacts, TwoFiles, TwoFilesNext, <1>0, <1>d DEF loadVars
<1>1. ASSUME NEW j \in Job, Submit(j) \/ Acknowledge(j) \/ Purge(j) PROVE DurableInv'
  BY <1>1 DEF DurableInv, Running, Writing, AcceptedDurable, Exists, Readable, Submit,
         Acknowledge, Purge, BeginWrite, historyVars
<1>2. CASE Save
  BY <1>2 DEF DurableInv, Running, Writing, AcceptedDurable, Exists, Readable, TypeOK,
         File, Save, BeginWrite, historyVars
<1>3. CASE StageTemp
  BY <1>3 DEF DurableInv, Running, Writing, AcceptedDurable, Exists, Readable, TypeOK,
         File, StageTemp, Goto, Fail, historyVars
<1>4. CASE SyncTemp
  BY <1>4 DEF DurableInv, Running, Writing, AcceptedDurable, Exists, Readable, TypeOK,
         File, SyncTemp, Goto, Fail, historyVars
<1>5. CASE BackupTarget
  BY <1>5 DEF DurableInv, Running, Writing, AcceptedDurable, Exists, Readable, TypeOK,
         File, BackupTarget, Goto, Fail, historyVars
<1>6. CASE CommitTemp
  BY <1>6 DEF DurableInv, Running, Writing, AcceptedDurable, Exists, Readable, TypeOK,
         File, CommitTemp, Goto, Fail, historyVars
<1>7. CASE CleanBackup
  BY <1>7 DEF DurableInv, Running, Writing, AcceptedDurable, Exists, Readable, TypeOK,
         File, CleanBackup, Goto, Fail, historyVars
<1>8. CASE WriteDone
  BY <1>8 DEF DurableInv, Running, Writing, AcceptedDurable, Exists, Readable, TypeOK,
         File, WriteDone, Goto
<1>9. CASE WriteFailed
  BY <1>9 DEF DurableInv, Running, Writing, AcceptedDurable, Exists, Readable, TypeOK,
         File, WriteFailed, Goto, historyVars
<1>10. CASE RemoveArtifacts
  <2>1. /\ "target" \in File /\ fs'["target"] = fs["target"]
        /\ \A f \in File : fs'[f] = Absent \/ fs'[f] = fs[f]
    BY <1>10 DEF RemoveArtifacts, ArtifactOrder, File
  <2>2. QED
    BY <1>10, <2>1 DEF DurableInv, Running, Writing, AcceptedDurable, Exists,
           Readable, RemoveArtifacts, Goto, File, PurgeInv
<1>11. CASE Start
  BY <1>11 DEF DurableInv, Running, Writing, AcceptedDurable, Exists, Readable,
         TypeOK, File, Start, PassesOver, TriedBefore, LoadFailed, historyVars
<1>12. CASE CopyBackup
  BY <1>12 DEF DurableInv, Running, Writing, AcceptedDurable, Exists, Readable,
         TypeOK, File, CopyBackup, Goto, LoadFailed, historyVars
<1>13. CASE PromoteCopy
  BY <1>13 DEF DurableInv, Running, Writing, AcceptedDurable, Exists, Readable,
         TypeOK, File, PromoteCopy, LoadFailed, historyVars
<1>14. CASE PrepareCurrent
  BY <1>14 DEF DurableInv, Running, Writing, AcceptedDurable, Exists, Readable,
         TypeOK, File, PrepareCurrent, Goto, LoadFailed, historyVars
<1>15. CASE BackupForMigration
  BY <1>15 DEF DurableInv, Running, Writing, AcceptedDurable, Exists, Readable,
         TypeOK, File, BackupForMigration, historyVars
<1>16. CASE MigrateDescriptors
  BY <1>16 DEF DurableInv, Running, Writing, AcceptedDurable, Exists, Readable,
         TypeOK, File, MigrateDescriptors, historyVars
<1>17. CASE VerifyMigration
  BY <1>17 DEF DurableInv, Running, Writing, AcceptedDurable, Exists, Readable,
         TypeOK, File, VerifyMigration, historyVars
<1>18. CASE RollbackMigration
  BY <1>18 DEF DurableInv, Running, Writing, AcceptedDurable, Exists, Readable,
         TypeOK, File, RollbackMigration, LoadFailed, historyVars
<1>19. CASE Install
  BY <1>19 DEF DurableInv, Running, Writing, AcceptedDurable, Exists, Readable,
         TypeOK, File, Install, BeginWrite, historyVars
<1>20. CASE Crash
  BY <1>20 DEF DurableInv, Running, Writing, AcceptedDurable, Exists, Readable,
         TypeOK, File, Crash, historyVars
<1>21. CASE UNCHANGED vars
  BY <1>21 DEF DurableInv, Running, Writing, AcceptedDurable, Exists, Readable, vars,
         ioVars, historyVars
<1>22. CASE RemoveUnread
  BY <1>22 DEF DurableInv, Running, Writing, AcceptedDurable, Exists, Readable,
         TypeOK, File, RemoveUnread, LoadFailed, ioVars, historyVars
<1>23. QED
  BY <1>1, <1>2, <1>3, <1>4, <1>5, <1>6, <1>7, <1>8, <1>9, <1>10, <1>11, <1>12, <1>13, <1>14, <1>15, <1>16, <1>17, <1>18, <1>19, <1>20, <1>21, <1>22 DEF Next
(***************************************************************************)
(* A store of the current schema whose loads succeed never loses a          *)
(* submission insert_job acknowledged, whichever calls of a write fail and  *)
(* however often the process is killed.                                     *)
(***************************************************************************)
THEOREM AcceptedIsDurable ==
    StartupReliable /\ LegacyJobs = {} => (Spec => []AcceptedDurable)
<1> SUFFICES ASSUME StartupReliable, LegacyJobs = {}
             PROVE  Spec => []AcceptedDurable
  OBVIOUS
<1>1. Init => DurableInv
  BY InitDurable
<1>2. TypeInv /\ PurgeInv /\ DurableInv /\ [Next]_vars => DurableInv'
  BY NextDurable
<1>3. DurableInv => AcceptedDurable
  BY DEF DurableInv
<1>4. QED
  BY <1>1, <1>2, <1>3, InitPurge, NextPurge, TypeInvariant, PTL DEF Spec

-----------------------------------------------------------------------------
(* The store implements the ledger *)

Stutters == /\ RecoverableJobs' = RecoverableJobs
            /\ accepted' = accepted /\ purged' = purged

(* Only the rename of the temporary file changes what a restart finds. *)
LEMMA StepKeepsLedger ==
    ASSUME StartupReliable, TypeInv, PurgeInv, DurableInv, DurableInv',
           StageTemp \/ SyncTemp \/ BackupTarget \/ CleanBackup \/ WriteFailed
             \/ Start \/ CopyBackup \/ RemoveUnread \/ PromoteCopy \/ PrepareCurrent
             \/ BackupForMigration \/ MigrateDescriptors \/ VerifyMigration
             \/ RollbackMigration \/ Install \/ Crash \/ Save \/ UNCHANGED vars
    PROVE  Stutters
<1>0. TypeOK /\ ~Exists("migration") /\ ~Exists("migration")'
  BY DEF TypeInv, DurableInv
<1>d. LET d == Document(2, doc)
      IN  d.kind = "doc" /\ d.schema = 2 /\ d.jobs = doc
  BY <1>0, DocumentFacts DEF TypeOK
<1> USE FileFacts, TwoFiles, TwoFilesNext, <1>0, <1>d DEF DurableInv, Stutters, loadVars
<1>1. CASE StageTemp
  BY <1>1 DEF Readable, TypeOK, File, historyVars, StageTemp
<1>2. CASE SyncTemp
  BY <1>2 DEF Readable, TypeOK, File, historyVars, SyncTemp
<1>3. CASE BackupTarget
  <2>1. Exists("target") => Readable("target")
    BY DEF TypeOK, File, Exists, Readable
  <2>2. \/ fs' = fs
        \/ Exists("target") /\ fs' = [fs EXCEPT !["backup"] = fs["target"],
                                               !["target"] = Absent]
        \/ Exists("target") /\ fs'["target"] = fs["target"]
    BY <1>3 DEF BackupTarget, TypeOK, File
  <2>3. RecoverableJobs' = RecoverableJobs
    BY <2>1, <2>2 DEF Readable, TypeOK, File
  <2>4. QED
    BY <1>3, <2>3 DEF BackupTarget, historyVars
<1>4. CASE CleanBackup
  BY <1>4 DEF Readable, TypeOK, File, historyVars, CleanBackup
<1>5. CASE WriteFailed
  BY <1>5 DEF Readable, TypeOK, File, historyVars, WriteFailed
<1>6. CASE Start
  BY <1>6 DEF Readable, TypeOK, File, historyVars, Start
<1>7. CASE CopyBackup
  BY <1>7 DEF Readable, TypeOK, File, historyVars, CopyBackup, LoadFailed
<1>8. CASE PromoteCopy
  BY <1>8 DEF Readable, TypeOK, File, historyVars, PromoteCopy, LoadFailed
<1>9. CASE PrepareCurrent
  BY <1>9 DEF Readable, TypeOK, File, historyVars, PrepareCurrent
<1>10. CASE BackupForMigration
  BY <1>10 DEF Readable, TypeOK, File, historyVars, BackupForMigration
<1>11. CASE MigrateDescriptors
  BY <1>11 DEF Readable, TypeOK, File, historyVars, MigrateDescriptors
<1>12. CASE VerifyMigration
  BY <1>12 DEF Readable, TypeOK, File, historyVars, VerifyMigration
<1>13. CASE RollbackMigration
  BY <1>13 DEF Readable, TypeOK, File, historyVars, RollbackMigration
<1>14. CASE Install
  BY <1>14 DEF Readable, TypeOK, File, historyVars, Install
<1>15. CASE Crash
  BY <1>15 DEF Readable, TypeOK, File, historyVars, Crash
<1>16. CASE Save
  BY <1>16 DEF Readable, TypeOK, File, historyVars, Save
<1>17. CASE UNCHANGED vars
  BY <1>17 DEF Readable, TypeOK, File, historyVars, vars
<1>18. CASE RemoveUnread
  BY <1>18 DEF Readable, TypeOK, File, historyVars, RemoveUnread, LoadFailed
<1>19. QED
  BY <1>18, <1>1, <1>2, <1>3, <1>4, <1>5, <1>6, <1>7, <1>8, <1>9, <1>10, <1>11, <1>12, <1>13, <1>14, <1>15, <1>16, <1>17

LEMMA NextLedger ==
    ASSUME StartupReliable, TypeInv, PurgeInv, DurableInv, DurableInv', [Next]_vars
    PROVE  [Ledger!LedgerNext]_(Ledger!ledgerVars)
<1>0. TypeOK /\ ~Exists("migration") /\ ~Exists("migration")'
  BY DEF TypeInv, DurableInv
<1>d. LET d == Document(2, doc)
      IN  d.kind = "doc" /\ d.schema = 2 /\ d.jobs = doc
  BY <1>0, DocumentFacts DEF TypeOK
<1>s. Stutters => UNCHANGED Ledger!ledgerVars
  BY DEF Stutters, Ledger!ledgerVars
<1>1. ASSUME NEW j \in Job, Submit(j)
      PROVE  Stutters
  BY <1>1, <1>0, TwoFiles, TwoFilesNext DEF Stutters, Submit, Readable, historyVars
<1>2. ASSUME NEW j \in Job, Acknowledge(j) \/ Purge(j)
      PROVE  Ledger!Release(j)
  BY <1>2, <1>0, TwoFiles, TwoFilesNext
     DEF Ledger!Release, Acknowledge, Purge, Readable
<1>3. CASE CommitTemp
  <2>1. CASE RecoverableJobs' = RecoverableJobs
    BY <1>3, <2>1, <1>s DEF CommitTemp, Stutters, historyVars
  <2>2. CASE RecoverableJobs' # RecoverableJobs
    <3>1. ~Readable("target") /\ fs["temp"] = Document(2, doc)
      BY <1>3 DEF CommitTemp, DurableInv
    <3>2. \/ fs' = fs
          \/ fs'["target"] = fs["temp"]
          \/ fs'["target"] = fs["backup"] /\ Exists("backup")
      BY <1>3, <1>0 DEF CommitTemp, TypeOK, File
    <3>3. Exists("backup") => Readable("backup")
      BY <1>0, FileFacts DEF DurableInv, Exists, Readable, TypeOK, File
    <3>4. RecoverableJobs' = doc
      BY <2>2, <3>1, <3>2, <3>3, <1>0, <1>d, TwoFiles, TwoFilesNext DEF Readable
    <3>5. Ledger!Write(doc)
      BY <1>3, <3>4 DEF Ledger!Write, CommitTemp, DurableInv, Writing, PurgeInv,
                        historyVars
    <3>6. doc \in SUBSET Job
      BY <1>0 DEF TypeOK
    <3>7. QED
      BY <3>5, <3>6 DEF Ledger!LedgerNext
  <2>3. QED
    BY <2>1, <2>2
<1>4. CASE WriteDone
  <2>1. RecoverableJobs' = RecoverableJobs
    BY <1>4, <1>0, TwoFiles, TwoFilesNext DEF WriteDone, Readable
  <2>2. CASE op = "accept"
    <3>1. PICK j \in Job : arg = {j}
      BY <2>2 DEF DurableInv
    <3>2. j \in RecoverableJobs
      BY <1>4, <2>2, <3>1, <1>0, <1>d, TwoFiles
         DEF WriteDone, DurableInv, Writing, Readable
    <3>3. Ledger!Accept(j)
      BY <1>4, <2>1, <2>2, <3>1, <3>2 DEF Ledger!Accept, WriteDone
    <3>4. QED
      BY <3>3 DEF Ledger!LedgerNext
  <2>3. CASE op # "accept"
    BY <1>4, <2>1, <2>3, <1>s DEF WriteDone, Stutters
  <2>4. QED
    BY <2>2, <2>3
<1>5. CASE RemoveArtifacts
  <2>1. fs'["target"] = fs["target"]
    BY <1>5 DEF RemoveArtifacts, ArtifactOrder, File
  <2>2. RecoverableJobs' = doc /\ RecoverableJobs = doc
    BY <1>5, <2>1, <1>0, <1>d, TwoFiles, TwoFilesNext
       DEF RemoveArtifacts, DurableInv, Readable
  <2>3. op = "purge"
    BY <1>5 DEF RemoveArtifacts, PurgeInv
  <2>4. PICK j \in Job : arg = {j}
    BY <2>3 DEF DurableInv
  <2>5. CASE purged' = purged
    BY <1>5, <2>2, <2>5, <1>s DEF RemoveArtifacts, Stutters
  <2>6. CASE purged' = purged \cup {j}
    <3>1. j \notin RecoverableJobs /\ j \notin accepted
      BY <2>2, <2>3, <2>4 DEF PurgeInv, DurableInv
    <3>2. Ledger!Erase(j)
      BY <1>5, <2>2, <2>6, <3>1 DEF Ledger!Erase, RemoveArtifacts
    <3>3. QED
      BY <3>2 DEF Ledger!LedgerNext
  <2>7. QED
    BY <1>5, <2>4, <2>5, <2>6 DEF RemoveArtifacts
<1>6. QED
  BY <1>1, <1>2, <1>3, <1>4, <1>5, <1>s, StepKeepsLedger DEF Next, Ledger!LedgerNext

(***************************************************************************)
(* A store of the current schema whose loads succeed implements the atomic  *)
(* job ledger: a restart after any sequence of failures and crashes finds   *)
(* one of the documents that were written, in order, and never one that     *)
(* misses an accepted job or lists an erased one.                           *)
(***************************************************************************)
THEOREM StoreImplementsLedger ==
    StartupReliable /\ LegacyJobs = {} => (Spec => ImplementsLedger)
<1> SUFFICES ASSUME StartupReliable, LegacyJobs = {}
             PROVE  Spec => ImplementsLedger
  OBVIOUS
<1>1. Init => Ledger!LedgerInit
  BY FileFacts
     DEF Init, Ledger!LedgerInit, RecoverableJobs, LoadSource, Readable, File
<1>2. Init => DurableInv
  BY InitDurable
<1>3. TypeInv /\ PurgeInv /\ DurableInv /\ [Next]_vars => DurableInv'
  BY NextDurable
<1>4. TypeInv /\ PurgeInv /\ DurableInv /\ DurableInv' /\ [Next]_vars
        => [Ledger!LedgerNext]_(Ledger!ledgerVars)
  BY NextLedger
<1>5. QED
  BY <1>1, <1>2, <1>3, <1>4, InitPurge, NextPurge, TypeInvariant, PTL
     DEF Spec, ImplementsLedger, Ledger!LedgerSpec

-----------------------------------------------------------------------------
(* Loading *)

(* A migration is under way: its rollback backup is in place. *)
Migrating == (op = "migrate" /\ pc # "install") \/ pc \in {"migrate", "verify", "rollback"}

(***************************************************************************)
(* What makes LoadPreserves an invariant of every step: neither the primary *)
(* file nor the backup is ever torn, each stage of a load still sees the    *)
(* document it started from (the first that is intact, unless a read        *)
(* failed), and while a migration is under way the         *)
(* rollback backup lists the same jobs as whatever document is there.       *)
(***************************************************************************)
LoadInv ==
    /\ \A f \in {"target", "backup"} : fs[f].kind # "torn"
    /\ pc \in {"backup", "replace", "create"} => fs["temp"] = Document(2, doc)
    /\ pc \in {"restore", "promote"} =>
        /\ from \in {"migration", "backup"} /\ Readable(from)
        /\ ~misread => LoadSource = from
    /\ pc = "promote" => fs["recovery"] = fs[from]
    /\ pc = "prepare" => Readable("target") /\ doc = fs["target"].jobs
    /\ op = "migrate" => pc \in {"stage", "sync", "backup", "replace", "clean", "done", "failed",
                                 "verify", "rollback", "install"}
    /\ pc \in {"down", "restore", "promote", "prepare", "migrate", "idle", "create"} => op # "migrate"
    /\ Migrating =>
        /\ Readable("migration") /\ fs["migration"].jobs = doc
        /\ Readable("target") => fs["target"].jobs = doc
        /\ pc \in {"migrate", "stage", "sync", "backup"} => Readable("target")
        /\ pc = "replace" => fs["backup"].jobs = doc

(* What a restart would find, of this state and of the next. *)
LEMMA RecoverableIs ==
    RecoverableJobs = IF Readable("target") THEN fs["target"].jobs
                      ELSE IF Readable("migration") THEN fs["migration"].jobs
                      ELSE IF Readable("backup") THEN fs["backup"].jobs ELSE {}
BY DEF RecoverableJobs, LoadSource

LEMMA RecoverableIsNext ==
    RecoverableJobs' = IF Readable("target")' THEN fs'["target"].jobs
                       ELSE IF Readable("migration")' THEN fs'["migration"].jobs
                       ELSE IF Readable("backup")' THEN fs'["backup"].jobs ELSE {}
BY DEF RecoverableJobs, LoadSource

LEMMA InitLoad == Init => LoadInv
<1> SUFFICES ASSUME Init PROVE LoadInv
  OBVIOUS
<1>1. Document(1, LegacyJobs).kind = "doc"
  BY DocumentFacts, StoreAssumption
<1> QED
  BY <1>1, FileFacts DEF Init, LoadInv, Migrating, File

LEMMA NextLoad ==
    ASSUME TypeInv, LoadInv, [Next]_vars PROVE LoadInv'
<1>0. TypeOK
  BY DEF TypeInv
<1>d. LET d == Document(2, doc)
      IN  d.kind = "doc" /\ d.schema = 2 /\ d.jobs = doc
  BY <1>0, DocumentFacts DEF TypeOK
<1> USE FileFacts, <1>0, <1>d DEF loadVars
<1>1. ASSUME NEW j \in Job, Submit(j) \/ Acknowledge(j) \/ Purge(j) PROVE LoadInv'
  BY <1>1 DEF LoadInv, Migrating, Submit, Acknowledge, Purge, BeginWrite, historyVars
<1>2. CASE Save
  BY <1>2 DEF LoadInv, Migrating, Save, BeginWrite, historyVars
<1>3. CASE StageTemp
  BY <1>3 DEF LoadInv, Migrating, Exists, Readable, LoadSource, TypeOK, File,
         StageTemp, Goto, Fail, historyVars
<1>4. CASE SyncTemp
  BY <1>4 DEF LoadInv, Migrating, Exists, Readable, LoadSource, TypeOK, File,
         SyncTemp, Goto, Fail, historyVars
<1>5. CASE BackupTarget
  BY <1>5 DEF LoadInv, Migrating, Exists, Readable, LoadSource, TypeOK, File,
         BackupTarget, Goto, Fail, historyVars
<1>6. CASE CommitTemp
  BY <1>6 DEF LoadInv, Migrating, Exists, Readable, LoadSource, TypeOK, File,
         CommitTemp, Goto, Fail, historyVars
<1>7. CASE CleanBackup
  BY <1>7 DEF LoadInv, Migrating, Exists, Readable, LoadSource, TypeOK, File,
         CleanBackup, Goto, Fail, historyVars
<1>8. CASE WriteDone
  BY <1>8 DEF LoadInv, Migrating, Exists, Readable, LoadSource, TypeOK, File,
         WriteDone, Goto
<1>9. CASE WriteFailed
  BY <1>9 DEF LoadInv, Migrating, Exists, Readable, LoadSource, TypeOK, File,
         WriteFailed, Goto, historyVars
<1>10. CASE RemoveArtifacts
  <2>1. /\ fs'["target"] = fs["target"] /\ pc' = "idle" /\ op' = op /\ pc = "artifacts"
        /\ \A f \in File : fs'[f] = Absent \/ fs'[f] = fs[f]
    BY <1>10 DEF RemoveArtifacts, ArtifactOrder, File, Goto
  <2>2. fs'["backup"].kind # "torn"
    BY <2>1 DEF LoadInv, File
  <2> QED
    BY <2>1, <2>2 DEF LoadInv, Migrating
<1>11. CASE Start
  BY <1>11 DEF LoadInv, Migrating, Exists, Readable, LoadSource, TypeOK, File,
         Start, PassesOver, TriedBefore, LoadFailed, historyVars
<1>12. CASE CopyBackup
  BY <1>12 DEF LoadInv, Migrating, Exists, Readable, LoadSource, TypeOK, File,
         CopyBackup, Goto, LoadFailed, historyVars
<1>13. CASE PromoteCopy
  BY <1>13 DEF LoadInv, Migrating, Exists, Readable, LoadSource, TypeOK, File,
         PromoteCopy, Goto, LoadFailed, historyVars
<1>14. CASE PrepareCurrent
  BY <1>14 DEF LoadInv, Migrating, Exists, Readable, LoadSource, TypeOK, File,
         PrepareCurrent, Goto, LoadFailed, historyVars
<1>15. CASE BackupForMigration
  BY <1>15 DEF LoadInv, Migrating, Exists, Readable, LoadSource, TypeOK, File,
         BackupForMigration, Goto, LoadFailed, historyVars
<1>16. CASE MigrateDescriptors
  BY <1>16 DEF LoadInv, Migrating, Exists, Readable, LoadSource, TypeOK, File,
         MigrateDescriptors, BeginWrite, Goto, historyVars
<1>17. CASE VerifyMigration
  BY <1>17 DEF LoadInv, Migrating, Exists, Readable, LoadSource, TypeOK, File,
         VerifyMigration, Goto, historyVars
<1>18. CASE RollbackMigration
  BY <1>18 DEF LoadInv, Migrating, Exists, Readable, LoadSource, TypeOK, File,
         RollbackMigration, LoadFailed, historyVars
<1>19. CASE Install
  BY <1>19 DEF LoadInv, Migrating, Exists, Readable, LoadSource, TypeOK, File,
         Install, BeginWrite, historyVars
<1>20. CASE Crash
  BY <1>20 DEF LoadInv, Migrating, Exists, Readable, LoadSource, TypeOK, File,
         Crash, historyVars
<1>21. CASE UNCHANGED vars
  BY <1>21 DEF LoadInv, Migrating, Readable, LoadSource, vars, ioVars
<1>22. CASE RemoveUnread
  BY <1>22 DEF LoadInv, Migrating, Exists, Readable, LoadSource, TypeOK, File,
         RemoveUnread, LoadFailed, ioVars, historyVars
<1> QED
  BY <1>1, <1>2, <1>3, <1>4, <1>5, <1>6, <1>7, <1>8, <1>9, <1>10, <1>11, <1>12, <1>13, <1>14, <1>15, <1>16, <1>17, <1>18, <1>19, <1>20, <1>21, <1>22 DEF Next

(* A step that leaves the files alone changes nothing a restart would find, *)
(* and the other steps of a load move the same jobs to another file.        *)
LEMMA LoadStep ==
    ASSUME TypeInv, LoadInv, Next, Loading, ~misread PROVE RecoverableJobs' = RecoverableJobs
<1>0. TypeOK
  BY DEF TypeInv
<1>d. LET d == Document(2, doc)
      IN  d.kind = "doc" /\ d.schema = 2 /\ d.jobs = doc
  BY <1>0, DocumentFacts DEF TypeOK
<1> USE FileFacts, RecoverableIs, RecoverableIsNext, <1>0, <1>d
<1>1. CASE UNCHANGED fs
  BY <1>1 DEF RecoverableJobs, LoadSource, Readable
<1>14. CASE RemoveUnread
  BY <1>14 DEF LoadInv, Exists, Readable, LoadSource, TypeOK, File, RemoveUnread, LoadFailed
<1>2. CASE StageTemp
  BY <1>2 DEF LoadInv, Migrating, Exists, Readable, LoadSource, TypeOK, File, Loading,
         StageTemp, Goto, Fail
<1>3. CASE SyncTemp
  BY <1>3 DEF LoadInv, Migrating, Exists, Readable, LoadSource, TypeOK, File, Loading,
         SyncTemp, Goto, Fail
<1>4. CASE BackupTarget
  BY <1>4 DEF LoadInv, Migrating, Exists, Readable, LoadSource, TypeOK, File, Loading,
         BackupTarget, Goto, Fail
<1>5. CASE CommitTemp
  BY <1>5 DEF LoadInv, Migrating, Exists, Readable, LoadSource, TypeOK, File, Loading,
         CommitTemp, Goto, Fail
<1>6. CASE CleanBackup
  BY <1>6 DEF LoadInv, Migrating, Exists, Readable, LoadSource, TypeOK, File, Loading,
         CleanBackup, Goto, Fail
<1>7. CASE CopyBackup
  BY <1>7 DEF LoadInv, Migrating, Exists, Readable, LoadSource, TypeOK, File, Loading,
         CopyBackup, LoadFailed
<1>8. CASE PromoteCopy
  BY <1>8 DEF LoadInv, Migrating, Exists, Readable, LoadSource, TypeOK, File, Loading,
         PromoteCopy, LoadFailed
<1>9. CASE PrepareCurrent
  BY <1>9 DEF LoadInv, Migrating, Exists, Readable, LoadSource, TypeOK, File, Loading,
         PrepareCurrent, LoadFailed
<1>10. CASE BackupForMigration
  BY <1>10 DEF LoadInv, Migrating, Exists, Readable, LoadSource, TypeOK, File, Loading,
         BackupForMigration, LoadFailed
<1>11. CASE RollbackMigration
  BY <1>11 DEF LoadInv, Migrating, Exists, Readable, LoadSource, TypeOK, File, Loading,
         RollbackMigration, LoadFailed
<1>12. ~RemoveArtifacts
  BY DEF RemoveArtifacts, Loading, LoadInv
<1>13. /\ WriteDone \/ WriteFailed \/ Start \/ MigrateDescriptors \/ VerifyMigration \/ Install
             \/ Crash \/ Save => UNCHANGED fs
       /\ \A j \in Job : Submit(j) \/ Acknowledge(j) \/ Purge(j) => UNCHANGED fs
  BY DEF WriteDone, WriteFailed, Start, MigrateDescriptors, VerifyMigration, Install, Crash, Save,
         Submit, Acknowledge, Purge
<1> QED
  BY <1>1, <1>2, <1>3, <1>4, <1>5, <1>6, <1>7, <1>8, <1>9, <1>10, <1>11, <1>12, <1>13, <1>14 DEF Next

(***************************************************************************)
(* A load that fails to read no intact file never changes what a restart    *)
(* would find, for every schema-1 store, whatever other calls of the        *)
(* recovery, the migration and its rollback fail and wherever the process   *)
(* is killed.  A load that does fail to read the intact target replaces it  *)
(* by an older copy (job_manager.rs 2919-2934): the theorem excludes that.  *)
(***************************************************************************)
THEOREM LoadingPreserves == Spec => LoadPreserves
<1>1. TypeInv /\ LoadInv /\ [Next]_vars => [Loading /\ ~misread => RecoverableJobs' = RecoverableJobs]_vars
  BY LoadStep
<1>2. TypeInv /\ LoadInv /\ [Next]_vars => LoadInv'
  BY NextLoad
<1> QED
  BY <1>1, <1>2, InitLoad, TypeInvariant, PTL DEF Spec, LoadPreserves

==============================================================================
