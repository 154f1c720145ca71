---------------------------- MODULE Terminology ----------------------------
(***************************************************************************)
(* The terminology dictionaries (terminology_dictionary.rs,                *)
(* dictionary_staging.rs, background_jobs.rs): one encrypted document with *)
(* the dictionaries and, for each recording, the assignments and the       *)
(* decided corrections.  Every change rewrites the document under a lock,  *)
(* through a temporary file and a backup.  A signed package is staged by a *)
(* request, imported by a background job and then unstaged; requests that  *)
(* cancel or acknowledge its job remove it too, from the main thread.      *)
(***************************************************************************)
EXTENDS Naturals, FiniteSets

CONSTANTS
    TermPackages,       \* packages, "general" comes with the program
    TermRecordings,
    DictionaryLimit,    \* MAX_DICTIONARIES
    StoreLimit,         \* MAX_STORE_BYTES, counted in dictionaries and notes
    MaxStages, MaxTermChanges, MaxTermFaults    \* bounds

ASSUME TermConstants ==
    {DictionaryLimit, StoreLimit, MaxStages, MaxTermChanges, MaxTermFaults} \subseteq Nat

Tokens == 1..MaxStages
NoDoc == [none |-> TRUE]
EmptyDoc == [dictionaries |-> {}, notes |-> {}]

VARIABLES
    disk,       \* the document file, its backup and the temporary file
    writing,    \* the change being written, under the lock
    staged,     \* tokens of the staged packages on disk
    packageJob, \* token -> the package, the state of its job, whether it is
                \* asked to cancel and whether it has its descriptor
    request,    \* the cancellation or acknowledgement the main thread is at
    promised,   \* ghost: changes reported as saved
    removed,    \* ghost: recordings reported as removed
    deletedRecs,\* recordings the store no longer has
    withdrawn,  \* ghost: tokens whose jobs the user cancelled or acknowledged
    cut,        \* ghost: a change was given up after it removed the only copy
    termChanges, termFaults

documentVars == <<disk, writing, promised, removed, deletedRecs, cut>>
stageVars == <<staged, packageJob, request, withdrawn>>
termVars == <<documentVars, stageVars, termChanges, termFaults>>

NotWriting == [pc |-> "idle", doc |-> EmptyDoc, op |-> "none", of |-> "none", token |-> 0, only |-> FALSE]
NoRequest == [at |-> "idle", tokens |-> {}, forget |-> FALSE]
TermFault == termFaults < MaxTermFaults /\ termFaults' = termFaults + 1
Contents(f) == IF disk[f] = NoDoc THEN EmptyDoc ELSE disk[f]

\* Mutant of Readable: the backup is not looked for.
ReadTargetOnly == Contents("target")

\* load_document_unlocked: the file, else its backup, else nothing.
Readable == IF disk["target"] # NoDoc THEN disk["target"] ELSE Contents("backup")

\* read_encrypted_document refuses a document above a size that no write heeds.
Oversized == Cardinality(Readable.dictionaries) + Cardinality(Readable.notes) > StoreLimit

---------------------------------------------------------------------------
(* Changes of the document.                                                *)

\* Noted with the change: whether the backup is all there is of the document.
StartWrite(op, of, token, doc) ==
    writing' = [pc |-> "stage", doc |-> doc, op |-> op, of |-> of, token |-> token,
                only |-> disk["target"] = NoDoc /\ disk["backup"] # NoDoc]

\* A note about the same thing is asked for anew: what was said of it is void.
ChangeDocument(op, of, about, doc) ==
    /\ writing.pc = "idle" /\ termChanges < MaxTermChanges /\ termChanges' = termChanges + 1
    /\ ~Oversized /\ StartWrite(op, of, 0, doc)
    /\ promised' = {x \in promised : ~("rec" \in DOMAIN x /\ x.rec = of /\ x.about \in about)}
    /\ UNCHANGED <<disk, removed, deletedRecs, cut, stageVars, termFaults>>

Named(p) == {d \in Readable.dictionaries : d.package = p}
FreshId == Cardinality(Readable.dictionaries) + 1
WithPackage(p) == [Readable EXCEPT !.dictionaries = @ \cup {[id |-> FreshId, package |-> p]}]
HasRoom == Cardinality(Readable.dictionaries) < DictionaryLimit

\* ensure_bundled_general_dictionary, at every start.
EnsureGeneral ==
    Named("general") = {} /\ HasRoom /\ ChangeDocument("import", "general", {}, WithPackage("general"))

\* import_dictionary: a file of the user's has no package identity.
ImportDictionary == HasRoom /\ ChangeDocument("import", "file", {}, WithPackage("file"))

\* set_enabled: rewrites the document; which ones are enabled is not modelled.
SetEnabled(d) == d \in Readable.dictionaries /\ ChangeDocument("enable", d.package, {}, Readable)

\* assign: the recording must exist; the last word stands.
Assign(r, d, on) ==
    /\ r \notin deletedRecs /\ d \in Readable.dictionaries
    /\ LET others == {n \in Readable.notes : ~(n.rec = r /\ n.about = d.id)} IN
       ChangeDocument("note", r, {d.id},
              [Readable EXCEPT !.notes = others \cup {[rec |-> r, about |-> d.id, value |-> on]}])

\* decide: what is decided is no longer proposed.
Decide(r, accepted) ==
    /\ r \notin deletedRecs /\ Readable.dictionaries # {}
    /\ ~\E n \in Readable.notes : n.rec = r /\ n.about = 0
    /\ ChangeDocument("note", r, {0}, [Readable EXCEPT !.notes = @ \cup {[rec |-> r, about |-> 0, value |-> accepted]}])

\* Mutant of RemoveNotes: a document without notes is left as it is.
RemoveNotesIfAny(r) ==
    /\ r \in deletedRecs /\ writing.pc = "idle"
    /\ IF \E n \in Readable.notes : n.rec = r
       THEN ChangeDocument("remove", r, Nat, [Readable EXCEPT !.notes = {n \in @ : n.rec # r}])
       ELSE /\ removed' = removed \cup {r}
            /\ UNCHANGED <<disk, writing, promised, deletedRecs, cut, stageVars, termChanges, termFaults>>

\* remove_recording: always rewrites.  Repeated until it succeeds.
RemoveNotes(r) ==
    /\ r \in deletedRecs
    /\ ChangeDocument("remove", r, Nat, [Readable EXCEPT !.notes = {n \in @ : n.rec # r}])

\* The recording store deletes it first.
DeleteRecordingFirst(r) ==
    /\ deletedRecs' = deletedRecs \cup {r}
    /\ UNCHANGED <<disk, writing, promised, removed, cut, stageVars, termChanges, termFaults>>

---------------------------------------------------------------------------
(* write_document_unlocked.                                                *)

\* finish_failed: a cancelled job ends as cancelled; one that cannot be
\* retried loses its descriptor.
FailedJob(job, retry) ==
    [job EXCEPT !.state = IF job.ask THEN "cancelled" ELSE "failed", !.held = @ /\ (job.ask \/ retry)]

\* The job gives its package up, or fails to and keeps it.
GiveUpPackage(t) ==
    \/ packageJob' = [packageJob EXCEPT ![t] = FailedJob(packageJob[t], FALSE)] /\ staged' = staged \ {t}
    \/ packageJob' = [packageJob EXCEPT ![t] = FailedJob(packageJob[t], TRUE)] /\ UNCHANGED staged

\* The document is lost when the change had removed the only copy.
GiveUpWrite ==
    writing' = NotWriting /\ cut' = (cut \/ (writing.only /\ writing.pc \in {"aside", "commit"}))

\* The change fails, and with it the job whose import it was.
WriteFails ==
    /\ TermFault /\ GiveUpWrite
    /\ IF writing.token # 0 THEN GiveUpPackage(writing.token) ELSE UNCHANGED <<packageJob, staged>>
    /\ UNCHANGED <<promised, removed, deletedRecs, request, withdrawn, termChanges>>

Proceed(pc) ==
    /\ writing' = [writing EXCEPT !.pc = pc]
    /\ UNCHANGED <<promised, removed, deletedRecs, cut, stageVars, termChanges, termFaults>>

WriteTemp ==
    /\ writing.pc = "stage" /\ disk' = [disk EXCEPT !["temp"] = writing.doc]
    /\ Proceed("rotate") \/ WriteFails

DropBackup ==
    /\ writing.pc = "rotate"
    /\ \/ disk' = [disk EXCEPT !["backup"] = NoDoc] /\ Proceed("aside")
       \/ disk["backup"] # NoDoc /\ UNCHANGED disk /\ WriteFails

SetTargetAside ==
    /\ writing.pc = "aside"
    /\ \/ /\ disk' = IF disk["target"] = NoDoc THEN disk
                     ELSE [disk EXCEPT !["backup"] = disk["target"], !["target"] = NoDoc]
          /\ Proceed("commit")
       \/ disk["target"] # NoDoc /\ UNCHANGED disk /\ WriteFails

\* The temporary file takes the name, or the old one comes back, if it can.
CommitDocument ==
    /\ writing.pc = "commit"
    /\ \/ disk' = [disk EXCEPT !["target"] = writing.doc, !["temp"] = NoDoc] /\ Proceed("clean")
       \/ disk' = [disk EXCEPT !["target"] = disk["backup"], !["backup"] = NoDoc] /\ WriteFails
       \/ disk["backup"] # NoDoc /\ UNCHANGED disk /\ WriteFails

\* What the caller is told once all is done.
Told ==
    /\ promised' = CASE writing.op = "import" -> promised \cup {[dictionary |-> writing.of]}
                     [] writing.op = "note" ->
                            {x \in promised : "rec" \notin DOMAIN x}
                            \cup {n \in writing.doc.notes : n.rec \notin deletedRecs}
                     [] OTHER -> promised
    /\ removed' = IF writing.op = "remove" THEN removed \cup {writing.of} ELSE removed
    /\ packageJob' = IF writing.token # 0 THEN [packageJob EXCEPT ![writing.token].state = "unstage"] ELSE packageJob

\* The prior document is removed; a failure is reported though the change stands.
RemovePrior ==
    /\ writing.pc = "clean"
    /\ \/ /\ disk' = [disk EXCEPT !["backup"] = NoDoc] /\ Told /\ writing' = NotWriting
          /\ UNCHANGED <<deletedRecs, cut, staged, request, withdrawn, termChanges, termFaults>>
       \/ disk["backup"] # NoDoc /\ UNCHANGED disk /\ WriteFails

---------------------------------------------------------------------------
(* A package: staged, submitted, imported, unstaged.                       *)

Becomes(t, state) == packageJob' = [packageJob EXCEPT ![t].state = state]
Rest == UNCHANGED <<documentVars, request, withdrawn, termChanges>>

\* The main thread serves one request after the other.
MainFree == request = NoRequest /\ \A t \in Tokens : packageJob[t].state # "request"

\* stage_bytes, the first half of terminology.package.start.
StagePackage(t, p) ==
    /\ MainFree /\ packageJob[t].state = "none" /\ (t > 1 => packageJob[t - 1].state # "none")
    /\ packageJob' = [packageJob EXCEPT ![t] = [package |-> p, state |-> "request", ask |-> FALSE, held |-> FALSE]]
    /\ staged' = staged \cup {t} /\ termChanges < MaxTermChanges /\ termChanges' = termChanges + 1
    /\ UNCHANGED <<documentVars, request, withdrawn, termFaults>>

\* The job is submitted, or refused and the package unstaged, if it can be.
SubmitPackage(t) ==
    /\ packageJob[t].state = "request"
    /\ \/ /\ packageJob' = [packageJob EXCEPT ![t].state = "queued", ![t].held = TRUE]
          /\ UNCHANGED <<staged, termFaults>>
       \/ Becomes(t, "refused") /\ staged' = staged \ {t} /\ UNCHANGED termFaults
       \/ Becomes(t, "refused") /\ TermFault /\ UNCHANGED staged
    /\ Rest

\* read_verified and the signature.  A bad package is unstaged and fails, a
\* read that fails may be retried.
ReadPackage(t) ==
    /\ packageJob[t].state = "queued"
    /\ \/ t \in staged /\ Becomes(t, "import") /\ UNCHANGED <<staged, termFaults>>
       \/ GiveUpPackage(t) /\ UNCHANGED termFaults
    /\ Rest

\* A cancellation is looked at before each step, not while the import writes.
StopPackage(t) ==
    /\ packageJob[t].state \in {"queued", "import"} /\ writing.token # t /\ packageJob[t].ask
    /\ GiveUpPackage(t) /\ UNCHANGED termFaults /\ Rest

\* Mutant of ImportPackage: a package that is installed is imported again.
ImportAgain(t) ==
    /\ packageJob[t].state = "import" /\ writing.pc = "idle"
    /\ IF HasRoom
       THEN StartWrite("import", packageJob[t].package, t, WithPackage(packageJob[t].package)) /\ UNCHANGED <<packageJob, staged>>
       ELSE GiveUpPackage(t) /\ UNCHANGED writing
    /\ UNCHANGED <<disk, promised, removed, deletedRecs, cut, request, withdrawn, termChanges, termFaults>>

\* import_verified_package: what is installed stays as it is.
ImportPackage(t) ==
    /\ packageJob[t].state = "import" /\ writing.pc = "idle"
    /\ \/ /\ ~Oversized /\ Named(packageJob[t].package) # {}
          /\ Becomes(t, "unstage") /\ UNCHANGED <<writing, staged>>
       \/ /\ ~Oversized /\ Named(packageJob[t].package) = {} /\ HasRoom
          /\ StartWrite("import", packageJob[t].package, t, WithPackage(packageJob[t].package))
          /\ UNCHANGED <<packageJob, staged>>
       \/ /\ IF Oversized THEN TRUE ELSE Named(packageJob[t].package) = {} /\ ~HasRoom
          /\ GiveUpPackage(t) /\ UNCHANGED writing
    /\ UNCHANGED <<disk, promised, removed, deletedRecs, cut, request, withdrawn, termChanges, termFaults>>

\* remove_dictionary_staging
Unstage(t) ==
    /\ packageJob[t].state = "unstage"
    /\ \/ Becomes(t, "ended") /\ staged' = staged \ {t} /\ UNCHANGED termFaults
       \/ /\ packageJob' = [packageJob EXCEPT ![t] = FailedJob(packageJob[t], TRUE)]
          /\ TermFault /\ UNCHANGED staged
    /\ Rest

\* The import returns and its outcome is recorded.  (That of a package that
\* failed is recorded as it is unstaged: its job would only fail once more.)
FinishPackage(t) ==
    /\ packageJob[t].state = "ended"
    /\ packageJob' = [packageJob EXCEPT ![t].state = IF packageJob[t].ask THEN "cancelled" ELSE "done",
                                        ![t].held = packageJob[t].held /\ packageJob[t].ask]
    /\ Rest /\ UNCHANGED <<staged, termFaults>>

\* retry: of what failed or was cancelled and still has its descriptor.
RetryPackage(t) ==
    /\ MainFree /\ packageJob[t].state \in {"failed", "cancelled"} /\ packageJob[t].held
    /\ packageJob' = [packageJob EXCEPT ![t].state = "queued", ![t].ask = FALSE]
    /\ Rest /\ UNCHANGED <<staged, termFaults>>

Active(t) == packageJob[t].state \in {"queued", "import", "unstage", "ended"}

\* jobs.cancel and jobs.cancelAll: the jobs are asked to stop, then the packages
\* of all that have a descriptor are deleted, of those that ended as well.
CancelPackages(tokens) ==
    /\ MainFree /\ tokens # {} /\ \A t \in tokens : packageJob[t].held
    /\ packageJob' = [t \in Tokens |->
            [packageJob[t] EXCEPT !.ask = @ \/ (t \in tokens /\ Active(t))]]
    /\ request' = [at |-> "delete", tokens |-> tokens, forget |-> FALSE]
    /\ withdrawn' = withdrawn \cup tokens
    /\ UNCHANGED <<documentVars, staged, termChanges, termFaults>>

\* jobs.acknowledge, of a job that ended.
Acknowledge(t) ==
    /\ MainFree /\ packageJob[t].state \in {"done", "failed", "cancelled"}
    /\ request' = [at |-> "delete", tokens |-> {t}, forget |-> TRUE]
    /\ withdrawn' = withdrawn \cup {t}
    /\ UNCHANGED <<documentVars, staged, packageJob, termChanges, termFaults>>

\* The packages are deleted one by one; the first that cannot be ends it.
DeletePackages ==
    /\ request.at = "delete"
    /\ \/ /\ staged' = staged \ request.tokens
          /\ request' = [at |-> "drop", tokens |-> request.tokens, forget |-> request.forget]
          /\ UNCHANGED termFaults
       \/ /\ TermFault /\ request' = NoRequest
          /\ \E some \in SUBSET request.tokens : staged' = staged \ some
    /\ UNCHANGED <<documentVars, packageJob, withdrawn, termChanges>>

\* discard_dictionary_staging, discard_all_dictionary_staging, acknowledge.
DropDescriptors ==
    /\ request.at = "drop" /\ request' = NoRequest
    /\ packageJob' = [t \in Tokens |->
            IF t \notin request.tokens THEN packageJob[t]
            ELSE [packageJob[t] EXCEPT !.held = FALSE, !.state = IF request.forget THEN "gone" ELSE @]]
    /\ UNCHANGED <<documentVars, staged, withdrawn, termChanges, termFaults>>

\* apply_retention: cancelled jobs, and those that failed long ago, lose it too.
ExpirePackage(t) ==
    /\ packageJob[t].state \in {"failed", "cancelled"} /\ packageJob[t].held
    /\ packageJob' = [packageJob EXCEPT ![t].held = FALSE]
    /\ Rest /\ UNCHANGED <<staged, termFaults>>

\* Mutant of CleanOrphans: any staged package that is old.
CleanOld ==
    /\ staged' \in SUBSET staged
    /\ UNCHANGED <<documentVars, packageJob, request, withdrawn, termChanges, termFaults>>

\* cleanup_orphans, at a start and every hour: old packages no job refers to.
CleanOrphans ==
    /\ \E old \in SUBSET {t \in staged : ~packageJob[t].held /\ packageJob[t].state # "request"} :
        old # {} /\ staged' = staged \ old
    /\ UNCHANGED <<documentVars, packageJob, request, withdrawn, termChanges, termFaults>>

\* The process ends: a job that ran is run again, unless it was being
\* cancelled, and a request is lost.
TermCrash ==
    /\ TermFault /\ GiveUpWrite /\ request' = NoRequest
    /\ packageJob' = [t \in Tokens |->
            [packageJob[t] EXCEPT !.state = IF @ = "request" THEN "lost"
                                            ELSE IF ~Active(t) THEN @
                                            ELSE IF packageJob[t].ask THEN "cancelled" ELSE "queued"]]
    /\ UNCHANGED <<disk, promised, removed, deletedRecs, staged, withdrawn, termChanges>>

---------------------------------------------------------------------------
TermInit ==
    /\ disk = [f \in {"target", "backup", "temp"} |-> NoDoc]
    /\ writing = NotWriting /\ staged = {}
    /\ packageJob = [t \in Tokens |-> [package |-> "general", state |-> "none", ask |-> FALSE, held |-> FALSE]]
    /\ promised = {} /\ removed = {} /\ deletedRecs = {} /\ cut = FALSE
    /\ request = NoRequest /\ withdrawn = {} /\ termChanges = 0 /\ termFaults = 0

TermNext ==
    \/ EnsureGeneral \/ ImportDictionary
    \/ \E d \in Readable.dictionaries :
        SetEnabled(d) \/ \E r \in TermRecordings, on \in BOOLEAN : Assign(r, d, on)
    \/ \E r \in TermRecordings :
        RemoveNotes(r) \/ DeleteRecordingFirst(r) \/ \E accepted \in BOOLEAN : Decide(r, accepted)
    \/ WriteTemp \/ DropBackup \/ SetTargetAside \/ CommitDocument \/ RemovePrior
    \/ \E t \in Tokens :
        \/ \E p \in TermPackages : StagePackage(t, p)
        \/ SubmitPackage(t) \/ ReadPackage(t) \/ StopPackage(t) \/ ImportPackage(t)
        \/ Unstage(t) \/ FinishPackage(t) \/ RetryPackage(t) \/ Acknowledge(t) \/ ExpirePackage(t)
        \/ CancelPackages({t})
    \/ CancelPackages({t \in Tokens : packageJob[t].held})
    \/ DeletePackages \/ DropDescriptors \/ CleanOrphans \/ TermCrash

TermSpec == TermInit /\ [][TermNext]_termVars

---------------------------------------------------------------------------
(* Properties.                                                             *)

\* A package is in the document once, though its job runs again after a crash
\* or a failed clean-up, and two jobs import the same one.
PackageOnce ==
    \A f \in DOMAIN disk : \A a, b \in Contents(f).dictionaries : 
        a.package = b.package /\ a.package # "file" => a = b

\* What was reported as saved is what the next reader finds, whatever failed
\* and wherever the process was killed (write_document_unlocked).  Two things
\* break it, and the property leaves them out: a document that grew past what
\* a read accepts, and a change that is given up between removing the backup
\* and taking the name after an earlier kill had left only the backup (cut).
PromisesKept ==
    writing.pc = "idle" /\ ~cut /\ ~Oversized =>
        \A x \in promised :
            IF "rec" \in DOMAIN x THEN x \in Readable.notes ELSE Named(x.dictionary) # {}

\* Once the removal of a recording's notes is reported, no file on disk has
\* them: not the prior document of a change that failed, nor a temporary one
\* (remove_recording).
RemovedEverywhere ==
    \A r \in removed, f \in DOMAIN disk : \A n \in Contents(f).notes : n.rec # r

CanRun(job) ==
    \/ job.state \in {"queued", "import"}
    \/ job.state \in {"failed", "cancelled"} /\ job.held

\* Refuted: what was reported as saved can be read.  No write heeds the size.
PromisesReadable == writing.pc = "idle" /\ promised # {} => ~Oversized

\* A job that can still run, or be run again, has its package on disk, unless
\* its dictionary is installed: though packages are removed by the job, by the
\* main thread for other jobs and by the hourly clean-up (cleanup_orphans,
\* remove_dictionary_staging).  Jobs that were cancelled or acknowledged are
\* left out: when a deletion fails, or the process ends, before their
\* descriptors are dropped, they can be retried without their package.
StageKept ==
    writing.pc = "idle" /\ ~cut => \A t \in Tokens \ withdrawn :
        CanRun(packageJob[t]) => t \in staged \/ Named(packageJob[t].package) # {}

\* The promise of the dictionaries: what was reported saved is found after
\* kills, removed notes are in no copy, and a package is imported once and
\* keeps its stage until then.
DictionariesSound == PackageOnce /\ PromisesKept /\ RemovedEverywhere /\ StageKept
=============================================================================
