-------------------------- MODULE RecordingStore --------------------------
(***************************************************************************)
(* One recording directory of recording_store.rs: its chunk files, its     *)
(* manifest with transcript revisions and processing receipts, and every   *)
(* operation that changes them.  All but one take the store-wide           *)
(* manifest_mutation_lock from the first read to the last rename; the      *)
(* receipt of a recap does not, and is a second writer.  A process can be  *)
(* killed between any two file-system calls, and any call can fail.        *)
(*                                                                         *)
(* Chunk contents, timings, labels and hashes are abstracted: a chunk is   *)
(* its kind, the marker in its file name and whether its descriptor still  *)
(* carries the format and hash it was written with.  Kind "text" stands    *)
(* for caption and notes chunks, which no property tells apart.  Indices   *)
(* count from zero, as in the code.                                        *)
(***************************************************************************)
EXTENDS ManifestFile, FiniteSets, SequencesExt

CONSTANTS
    Earlier,        \* manifests of recordings stored by earlier sessions
    Attempts,       \* identifiers of transcription and clean-up attempts
    MaxChunks,      \* bound on the chunks of the recording
    MaxRevisions,   \* MAX_TRANSCRIPT_REVISIONS
    MaxReceipts,    \* MAX_PROCESSING_RECEIPTS
    MaxOps,         \* bound on the operations that reach a write
    MaxFaults       \* bound on kills of the process and failing file-system calls

ASSUME StoreConstants ==
    /\ {MaxChunks, MaxRevisions, MaxReceipts, MaxOps, MaxFaults} \subseteq Nat
    /\ MaxRevisions >= 2
    /\ Attempts \cap {"plain", "raw"} = {}

VARIABLES
    slots,      \* the three manifest names
    files,      \* the chunk files on disk
    writer,     \* the operation each writer is performing
    att,        \* attempts in flight, in the memory of their jobs
    up,         \* the process runs
    seen,       \* the last manifest an operation reported as stored
    rebuilt,    \* recovery replaced chunk descriptors by scanned ones
    shown,      \* attempts whose commit was reported or may be on disk
    dropped,    \* the recording was aborted
    overlapped, \* a recap receipt and another writer met
    ops, faults \* how many there were so far

vars == <<slots, files, writer, att, up, seen, rebuilt, shown, dropped, overlapped, ops, faults>>

Writers == {"guarded", "recap"}
States == {"recording", "needsRecovery", "finished"}
Tags == Attempts \cup {"plain", "raw"}
NoRaw == {-1}
Idle == [pc |-> "idle"]

ChunkFile(i, tag, whole) == [index |-> i, tag |-> tag, whole |-> whole]
Descriptor(kind, tag, meta) == [kind |-> kind, tag |-> tag, meta |-> meta]

---------------------------------------------------------------------------
(* Manifests.                                                              *)

EmptyManifest(state) ==
    [state |-> state, chunks |-> <<>>, revs |-> <<>>, current |-> 0,
     cleaned |-> 0, receipts |-> <<>>, events |-> 0]

\* The types of a manifest and its parts.  A failed receipt stands for a
\* cancelled one too.
Chunks ==
    {c \in [kind : {"text", "audio", "segment", "raw"}, tag : Tags, meta : BOOLEAN] :
        c.tag = "raw" <=> c.kind = "raw"}
Revisions ==
    [kind : {"legacy", "raw-asr", "normalized", "ai-cleaned"},
     source : {"initial", "reprocess", "review", "ai-cleanup"},
     parent : Nat, idx : SUBSET Nat, raw : SUBSET Int]
Processing == {"transcription", "protected-term-review", "transcript-cleanup", "recap"}
Receipts == [op : Processing, outcome : {"succeeded", "failed"}, rev : Nat, input : Nat]
Manifests ==
    [state : States, chunks : Seq(Chunks), revs : Seq(Revisions), current : Nat,
     cleaned : Nat, receipts : Seq(Receipts), events : Nat]

Indices(m) == 0..(Len(m.chunks) - 1)
Chunk(m, i) == m.chunks[i + 1]

\* chunk_file_name's marker: the attempt, "raw", or none.
SegmentsOf(m, a) ==
    {i \in Indices(m) : Chunk(m, i).kind = "segment" /\ Chunk(m, i).tag = a}

EffectiveKind(rev) ==
    IF rev.kind # "legacy" THEN rev.kind
    ELSE IF rev.source = "review" THEN "normalized" ELSE "raw-asr"

CommittedIndices(m) == UNION {m.revs[v].idx : v \in DOMAIN m.revs}

\* Mutant of CurrentIndices: without a revision every segment shows.
AnySegmentIsCurrent(m) ==
    IF m.current \in DOMAIN m.revs THEN m.revs[m.current].idx
    ELSE {i \in Indices(m) : Chunk(m, i).kind = "segment"}

\* What every content surface shows.
CurrentIndices(m) ==
    IF m.current \in DOMAIN m.revs THEN m.revs[m.current].idx
    ELSE SegmentsOf(m, "plain")

OwnedRaw(m) == UNION {m.revs[v].raw \ NoRaw : v \in DOMAIN m.revs}

---------------------------------------------------------------------------
(* validate_manifest_structure, in the parts it checks one after another.  *)

ChunkDescriptorsValid(m, disk) ==
    \A i \in Indices(m) : LET c == Chunk(m, i) IN
        /\ (c.tag = "raw") = (c.kind = "raw")
        /\ c.tag \in Attempts => c.kind = "segment"
        /\ \E f \in disk : f.index = i /\ f.tag = c.tag

RevisionIndicesValid(m, idx) ==
    /\ idx \subseteq {i \in Indices(m) : Chunk(m, i).kind = "segment"}
    /\ \A i, k \in idx : Chunk(m, i).tag = Chunk(m, k).tag

RawIndicesValid(m, v) ==
    m.revs[v].raw # NoRaw =>
        /\ \A i \in m.revs[v].raw : /\ i \in Indices(m)
                                    /\ Chunk(m, i).kind = "raw"
                                    /\ Chunk(m, i).meta
        /\ \A u \in DOMAIN m.revs : u < v => m.revs[u].raw \cap m.revs[v].raw \subseteq NoRaw

RevisionsValid(m) ==
    /\ Len(m.revs) <= MaxRevisions
    /\ \A v \in DOMAIN m.revs : LET rev == m.revs[v] IN
        /\ (EffectiveKind(rev) = "ai-cleaned") = (rev.source = "ai-cleanup")
        /\ rev.parent < v
        /\ EffectiveKind(rev) = "ai-cleaned" => rev.parent # 0
        /\ RevisionIndicesValid(m, rev.idx)
        /\ RawIndicesValid(m, v)

\* Every raw transcript chunk belongs to a revision.
RawOwned(m) == \A i \in Indices(m) : Chunk(m, i).kind = "raw" => i \in OwnedRaw(m)

SelectionValid(m) ==
    /\ m.state # "needsRecovery" => RawOwned(m)
    /\ m.current # 0 => /\ m.current \in DOMAIN m.revs
                        /\ EffectiveKind(m.revs[m.current]) # "ai-cleaned"
    /\ m.cleaned # 0 => /\ m.cleaned \in DOMAIN m.revs
                        /\ EffectiveKind(m.revs[m.cleaned]) = "ai-cleaned"

ReceiptsValid(m) ==
    /\ Len(m.receipts) <= MaxReceipts
    /\ \A n \in DOMAIN m.receipts : LET r == m.receipts[n] IN
        /\ r.input \in 0..Len(m.revs)
        /\ r.outcome = "succeeded" =>
               IF r.op = "recap" THEN r.rev = 0 /\ r.input # 0
               ELSE r.rev \in DOMAIN m.revs
        /\ r.outcome # "succeeded" => r.rev = 0

ValidOn(m, disk) ==
    /\ ChunkDescriptorsValid(m, disk)
    /\ RevisionsValid(m)
    /\ SelectionValid(m)
    /\ ReceiptsValid(m)

\* The files of a manifest whose chunks are all stored.
FilesOf(m) == {ChunkFile(i, Chunk(m, i).tag, TRUE) : i \in Indices(m)}

\* Each revision that is not a promoted legacy transcript has exactly one
\* receipt of success.
Accounted(m) ==
    \A v \in DOMAIN m.revs : m.revs[v].kind # "legacy" =>
        Cardinality({n \in DOMAIN m.receipts : m.receipts[n].rev = v}) = 1

\* Earlier sessions stored manifests that are valid on their own files, as the
\* operations below write them.
ASSUME EarlierStored ==
    \A m \in Earlier : /\ m \in Manifests /\ Len(m.chunks) <= MaxChunks
                       /\ ValidOn(m, FilesOf(m)) /\ RawOwned(m) /\ Accounted(m)

ASSUME MarksAreNoManifests == Absent \notin Manifests /\ Torn \notin Manifests /\ Absent # Torn

\* A manifest of that name parses and is structurally valid.
Usable(s) == slots[s] \notin {Absent, Torn} /\ ValidOn(slots[s], files)

\* read_manifest while no writer moves the names: the first of the three that
\* can be used, or Absent.  Operations that hold the guard read like this.
\* Readers without it probe the names one after another (RecordingReader).
Readable ==
    IF Usable("main") THEN slots["main"]
    ELSE IF Usable("bak") THEN slots["bak"]
    ELSE IF Usable("tmp") THEN slots["tmp"] ELSE Absent

\* What a read that probes the names one after another can end with when a
\* writer renames them in between: any manifest that can be used.
Found == {slots[s] : s \in {s \in Slots : Usable(s)}}

---------------------------------------------------------------------------
(* What the read operations return, as sets of chunk indices.              *)

IsUncommittedAttemptChunk(m, i) ==
    /\ Chunk(m, i).kind = "segment" /\ Chunk(m, i).tag # "plain"
    /\ i \notin CommittedIndices(m)

\* read: every chunk but raw transcripts and uncommitted attempts.
ReadManifestChunks(m) ==
    {i \in Indices(m) : Chunk(m, i).kind # "raw" /\ ~IsUncommittedAttemptChunk(m, i)}

\* transcript, its pages and the read-only pages of the companion tools.
TranscriptSegments(m) == {i \in CurrentIndices(m) \cap Indices(m) : Chunk(m, i).kind = "segment"}

\* The clean-up counts only while its parent is the current revision.
CleanedIndices(m) ==
    IF m.cleaned # 0 /\ m.revs[m.cleaned].parent = m.current THEN m.revs[m.cleaned].idx ELSE {}

TranscriptForLocalAi(m) ==
    IF CleanedIndices(m) # {} THEN CleanedIndices(m) ELSE TranscriptSegments(m)

SearchableRows(m) ==
    TranscriptSegments(m) \cup CleanedIndices(m) \cup {i \in Indices(m) : Chunk(m, i).kind = "text"}

\* prepare_report and export_markdown.
ExportedRows(m) ==
    IF TranscriptSegments(m) # {} THEN TranscriptSegments(m)
    ELSE {i \in ReadManifestChunks(m) : Chunk(m, i).kind = "text"}

\* transcript_revision: the segments of a revision, and for comparison the raw
\* text it was made from.
RevisionPreview(m, v) == m.revs[v].idx
ComparisonView(m, v) == m.revs[v].raw \ NoRaw

AudioReplayChunks(m) == {i \in Indices(m) : Chunk(m, i).kind = "audio"}

\* Every place transcript text is shown but the comparison.
ContentSurfaces(m) ==
    UNION ({ReadManifestChunks(m), TranscriptSegments(m), TranscriptForLocalAi(m),
            SearchableRows(m), ExportedRows(m)} \cup {RevisionPreview(m, v) : v \in DOMAIN m.revs})

---------------------------------------------------------------------------
(* Recovery scans.                                                         *)

\* scan_chunks succeeds: every file decrypts and the indices are 0, 1, 2...
ScanOK(disk) ==
    /\ \A f \in disk : f.whole
    /\ {f.index : f \in disk} = 0..(Cardinality(disk) - 1)

ScannedKind(tag) ==
    IF tag = "raw" THEN "raw" ELSE IF tag \in Attempts THEN "segment" ELSE "text"

\* What is left of a chunk that is known by its file alone.
ScanChunks(disk) ==
    [n \in 1..Cardinality(disk) |->
        LET f == CHOOSE f \in disk : f.index = n - 1
        IN Descriptor(ScannedKind(f.tag), f.tag, FALSE)]

ManifestFromChunks(disk) ==
    [EmptyManifest("needsRecovery") EXCEPT !.chunks = ScanChunks(disk)]

\* Mutant of UnownedRawFiles: the kind of the file is not looked at.
UnownedFiles(m, disk) == {f \in disk : f.index \notin OwnedRaw(m)}

UnownedRawFiles(m, disk) == {f \in disk : f.tag = "raw" /\ f.index \notin OwnedRaw(m)}

---------------------------------------------------------------------------
(* The writers.                                                            *)

Free(t) == writer[t] = Idle

NoDirectory == slots = NoSlots /\ files = {}

\* The process runs and the operation can take its guard.
Ready(t) == up /\ Free(t)

\* Writer t starts; from then on the history knows whether it met another.
Meet(t) == overlapped' = (overlapped \/ \E u \in Writers \ {t} : ~Free(u))

\* An operation holds its guard, has read the manifest and computed doc; it
\* will create the files in adds and then replace the manifest.
Begin(t, op, doc, adds) ==
    /\ ops < MaxOps /\ ops' = ops + 1
    /\ Meet(t)
    /\ writer' = [writer EXCEPT ![t] =
          [pc |-> IF adds = <<>> THEN "create" ELSE "chunk",
           op |-> op, doc |-> doc, adds |-> adds, had |-> FALSE]]

Goto(t, pc) == writer' = [writer EXCEPT ![t].pc = pc]

\* A file-system call fails and the operation returns its error.  Commits
\* remove the raw transcript chunks they created; other operations leave
\* their chunk file behind.
GiveUp(t) ==
    /\ writer' = [writer EXCEPT ![t] = Idle]
    /\ \/ UNCHANGED files
       \/ /\ writer[t].op = "commit"
          /\ files' = {f \in files : \A n \in DOMAIN writer[t].adds :
                          <<f.index, f.tag>> # <<writer[t].adds[n].index, writer[t].adds[n].tag>>}
    /\ UNCHANGED <<att, up, seen, rebuilt, shown, dropped, overlapped, ops>>

Fault == faults < MaxFaults /\ faults' = faults + 1

FailCall(t) == Fault /\ GiveUp(t)

\* write_durable_chunk_file: create_new refuses an existing name, so an
\* orphan of an earlier operation makes this one fail.
CreateChunk(t) ==
    /\ writer[t].pc = "chunk"
    /\ LET f == Head(writer[t].adds) IN
       \/ /\ \E g \in files : g.index = f.index /\ g.tag = f.tag
          /\ writer' = [writer EXCEPT ![t] = Idle]
          /\ UNCHANGED <<files, faults>>
       \/ /\ \A g \in files : g.index # f.index \/ g.tag # f.tag
          /\ files' = files \cup {ChunkFile(f.index, f.tag, FALSE)}
          /\ Goto(t, "flush")
          /\ UNCHANGED faults
    /\ UNCHANGED <<slots, att, up, seen, rebuilt, shown, dropped, overlapped, ops>>

\* The payload is written and synced, or the partial file is removed.
FlushChunk(t) ==
    /\ writer[t].pc = "flush"
    /\ LET f == Head(writer[t].adds)
           partial == ChunkFile(f.index, f.tag, FALSE) IN
       \/ /\ files' = (files \ {partial}) \cup {f}
          /\ Goto(t, "create")
          /\ UNCHANGED faults
       \/ /\ Fault
          /\ files' \in {files, files \ {partial}}
          /\ writer' = [writer EXCEPT ![t] = Idle]
    /\ UNCHANGED <<slots, att, up, seen, rebuilt, shown, dropped, overlapped, ops>>

CreateManifestTmp(t) ==
    /\ writer[t].pc = "create"
    /\ \/ /\ slots' = CreateTmp(slots)
          /\ Goto(t, "sync")
          /\ UNCHANGED <<files, att, up, seen, rebuilt, shown, dropped, overlapped, ops, faults>>
       \/ UNCHANGED slots /\ FailCall(t)

SyncManifestTmp(t) ==
    /\ writer[t].pc = "sync"
    /\ \/ /\ slots' = SyncTmp(slots, writer[t].doc)
          /\ Goto(t, "unbackup")
          /\ UNCHANGED <<files, att, up, seen, rebuilt, shown, dropped, overlapped, ops, faults>>
       \/ UNCHANGED slots /\ FailCall(t)

RemoveOldBackup(t) ==
    /\ writer[t].pc = "unbackup"
    /\ \/ /\ slots' = RemoveBak(slots)
          /\ Goto(t, "aside")
          /\ UNCHANGED <<files, att, up, seen, rebuilt, shown, dropped, overlapped, ops, faults>>
       \/ slots["bak"] # Absent /\ UNCHANGED slots /\ FailCall(t)

MoveManifestAside(t) ==
    /\ writer[t].pc = "aside"
    /\ \/ /\ slots' = MoveAside(slots)
          /\ writer' = [writer EXCEPT ![t].pc = "promote",
                                      ![t].had = slots["main"] # Absent]
          /\ UNCHANGED <<files, att, up, seen, rebuilt, shown, dropped, overlapped, ops, faults>>
       \/ slots["main"] # Absent /\ UNCHANGED slots /\ FailCall(t)

\* The rename of the staged manifest.  When it fails the manifest set aside
\* is moved back, which can fail too; it always fails when another writer
\* has taken the staged file away.
PromoteManifest(t) ==
    /\ writer[t].pc = "promote"
    /\ \/ /\ slots["tmp"] # Absent
          /\ slots' = Promote(slots)
          /\ Goto(t, "clean")
          /\ UNCHANGED <<files, att, up, seen, rebuilt, shown, dropped, overlapped, ops, faults>>
       \/ /\ slots' \in {slots, RestoreBak(slots, writer[t].had)}
          /\ FailCall(t)
       \/ /\ slots["tmp"] = Absent
          /\ slots' = RestoreBak(slots, writer[t].had)
          /\ GiveUp(t)
          /\ UNCHANGED faults

\* The leftover backup is removed when that works, and the caller is told.
FinishWrite(t) ==
    /\ writer[t].pc = "clean"
    /\ \/ slots' = RemoveBak(slots) /\ UNCHANGED faults
       \/ slots["bak"] # Absent /\ Fault /\ UNCHANGED slots
    /\ seen' = IF dropped THEN Absent ELSE writer[t].doc
    /\ writer' = [writer EXCEPT ![t] = Idle]
    /\ UNCHANGED <<files, att, up, rebuilt, shown, dropped, overlapped, ops>>

WriteStep(t) ==
    \/ CreateChunk(t) \/ FlushChunk(t)
    \/ CreateManifestTmp(t) \/ SyncManifestTmp(t) \/ RemoveOldBackup(t)
    \/ MoveManifestAside(t) \/ PromoteManifest(t) \/ FinishWrite(t)

---------------------------------------------------------------------------
(* The operations.  Each reads the manifest under the guard, returns early *)
(* (no step) when a check fails, and otherwise begins a write.             *)

Kept == UNCHANGED <<slots, files, up, seen, rebuilt, dropped, faults>>

Open(m) == m # Absent /\ Len(m.chunks) < MaxChunks

AddChunk(m, kind, tag) == [m EXCEPT !.chunks = Append(@, Descriptor(kind, tag, TRUE))]

NewFile(m, tag) == <<ChunkFile(Len(m.chunks), tag, TRUE)>>

Start ==
    /\ Ready("guarded") /\ NoDirectory /\ seen = Absent
    /\ Begin("guarded", "start", EmptyManifest("recording"), <<>>)
    /\ UNCHANGED <<att, shown>> /\ Kept

WriteTextChunk ==
    LET m == Readable IN
    /\ Ready("guarded") /\ Open(m) /\ m.state = "recording"
    /\ Begin("guarded", "chunk", AddChunk(m, "text", "plain"), NewFile(m, "plain"))
    /\ UNCHANGED <<att, shown>> /\ Kept

WriteAudioChunk ==
    LET m == Readable IN
    /\ Ready("guarded") /\ Open(m) /\ m.state = "recording"
    /\ Begin("guarded", "chunk", AddChunk(m, "audio", "plain"), NewFile(m, "plain"))
    /\ UNCHANGED <<att, shown>> /\ Kept

SaveNotes ==
    LET m == Readable IN
    /\ Ready("guarded") /\ Open(m) /\ m.state # "needsRecovery"
    /\ Begin("guarded", "chunk", AddChunk(m, "text", "plain"), NewFile(m, "plain"))
    /\ UNCHANGED <<att, shown>> /\ Kept

\* A segment dictated by the renderer ("plain") or written by an attempt.
WriteTranscriptSegment(tag) ==
    LET m == Readable IN
    /\ tag = "plain" \/ (tag \in Attempts /\ att[tag] # Idle)
    /\ Ready("guarded") /\ Open(m) /\ m.state # "needsRecovery"
    /\ Begin("guarded", "chunk", AddChunk(m, "segment", tag), NewFile(m, tag))
    /\ UNCHANGED <<att, shown>> /\ Kept

\* Mutant of Finish: a state no reader knows.
FinishUnknownState ==
    LET m == Readable IN
    /\ Ready("guarded") /\ m # Absent /\ m.state # "finished"
    /\ Begin("guarded", "state", [m EXCEPT !.state = "completed"], <<>>)
    /\ UNCHANGED <<att, shown>> /\ Kept

Finish ==
    LET m == Readable IN
    /\ Ready("guarded") /\ m # Absent /\ m.state # "finished"
    /\ Begin("guarded", "state", [m EXCEPT !.state = "finished"], <<>>)
    /\ UNCHANGED <<att, shown>> /\ Kept

\* Mutant of MarkNeedsRecovery: finished recordings are marked too.
MarkAnyNeedsRecovery ==
    LET m == Readable IN
    /\ Ready("guarded") /\ m # Absent
    /\ Begin("guarded", "state", [m EXCEPT !.state = "needsRecovery"], <<>>)
    /\ UNCHANGED <<att, shown>> /\ Kept

MarkNeedsRecovery ==
    LET m == Readable IN
    /\ Ready("guarded") /\ m # Absent /\ m.state # "finished"
    /\ Begin("guarded", "state", [m EXCEPT !.state = "needsRecovery"], <<>>)
    /\ UNCHANGED <<att, shown>> /\ Kept

\* remove_dir_all of an unfinished recording; a failure may leave part of it.
AbortUnfinished ==
    /\ Ready("guarded")
    /\ Readable # Absent /\ Readable.state # "finished"
    /\ \/ slots' = NoSlots /\ files' = {} /\ UNCHANGED faults
       \/ /\ Fault
          /\ slots' \in {slots, NoSlots}
          /\ files' \in SUBSET files
    /\ seen' = Absent
    /\ dropped' = TRUE
    /\ att' = [a \in Attempts |-> Idle]
    /\ Meet("guarded")
    /\ UNCHANGED <<writer, up, rebuilt, shown, ops>>

AppendPrivacyEvent ==
    LET m == Readable IN
    /\ Ready("guarded") /\ m # Absent
    /\ Begin("guarded", "event", [m EXCEPT !.events = @ + 1], <<>>)
    /\ UNCHANGED <<att, shown>> /\ Kept

SelectTranscriptRevision(v) ==
    LET m == Readable IN
    /\ Ready("guarded") /\ m # Absent /\ v \in DOMAIN m.revs
    /\ EffectiveKind(m.revs[v]) # "ai-cleaned"
    /\ Begin("guarded", "select", [m EXCEPT !.current = v], <<>>)
    /\ UNCHANGED <<att, shown>> /\ Kept

\* A job takes an attempt identifier and remembers the current revision it
\* works from.  The read is not guarded.
BeginAttempt(a, purpose) ==
    LET m == Readable IN
    /\ Ready("guarded") /\ att[a] = Idle /\ m # Absent
    /\ \A i \in Indices(m) : Chunk(m, i).tag # a
    /\ m.state # "needsRecovery"
    /\ Len(m.revs) < MaxRevisions /\ Len(m.receipts) < MaxReceipts
    /\ purpose # "transcription" => m.current # 0
    /\ att' = [att EXCEPT ![a] = [pc |-> purpose, base |-> m.current]]
    /\ UNCHANGED <<writer, shown, overlapped, ops>> /\ Kept

Receipt(op, outcome, rev, input) ==
    [op |-> op, outcome |-> outcome, rev |-> rev, input |-> input]

Revision(kind, source, parent, idx, raw) ==
    [kind |-> kind, source |-> source, parent |-> parent, idx |-> idx, raw |-> raw]

\* promote_legacy_transcript_revision: dictated segments become revision 1.
PromoteLegacy(m) ==
    IF m.revs # <<>> \/ CurrentIndices(m) = {} THEN m
    ELSE [m EXCEPT !.revs = <<Revision("legacy", "initial", 0, CurrentIndices(m), NoRaw)>>,
                   !.current = 1]

Committable(m) ==
    /\ m # Absent /\ m.state # "needsRecovery"
    /\ Len(m.revs) < MaxRevisions /\ Len(m.receipts) < MaxReceipts

\* The raw text is stored as encrypted chunks behind the existing ones.
WithRaw(m, stored) == IF stored THEN AddChunk(m, "raw", "raw") ELSE m

\* Mutant of CommitRevision: the receipt names the revision it replaces.
CommitWithStaleReceipt(m, kind, source, parent, op, idx, stored) ==
    LET withRaw == WithRaw(m, stored)
        raw == IF stored THEN {Len(m.chunks)} ELSE {}
    IN [withRaw EXCEPT
          !.revs = Append(@, Revision(kind, source, parent, idx, raw)),
          !.current = Len(m.revs) + 1,
          !.receipts = Append(@, Receipt(op, "succeeded", Len(m.revs), parent))]

\* The revision, its raw chunks and its receipt enter the manifest together.
CommitRevision(m, kind, source, parent, op, idx, stored) ==
    LET withRaw == WithRaw(m, stored)
        raw == IF stored THEN {Len(m.chunks)} ELSE {}
        version == Len(m.revs) + 1
    IN [withRaw EXCEPT
          !.revs = Append(@, Revision(kind, source, parent, idx, raw)),
          !.current = version,
          !.receipts = Append(@, Receipt(op, "succeeded", version, parent))]

\* complete_transcript_attempt_with_kind for a transcription.
CompleteTranscription(a, stored) ==
    LET m == Readable IN
    /\ Ready("guarded") /\ att[a] # Idle /\ att[a].pc = "transcription"
    /\ Committable(m)
    /\ stored => Len(m.chunks) < MaxChunks
    /\ SegmentsOf(m, a) \cap CommittedIndices(m) = {}
    /\ LET base == PromoteLegacy(m)
           source == IF base.revs = <<>> THEN "initial" ELSE "reprocess"
       IN Begin("guarded", "commit",
                CommitRevision(base, "raw-asr", source, 0, "transcription", SegmentsOf(m, a), stored),
                IF stored THEN NewFile(m, "raw") ELSE <<>>)
    /\ att' = [att EXCEPT ![a] = Idle]
    /\ shown' = shown \cup {a}
    /\ Kept

\* The same commit for a protected-term review, refused when the current
\* revision is no longer the one that was reviewed.
CompleteReview(a, stored) ==
    LET m == Readable IN
    /\ Ready("guarded") /\ att[a] # Idle /\ att[a].pc = "review"
    /\ Committable(m)
    /\ m.current = att[a].base /\ m.current \in DOMAIN m.revs
    /\ stored => Len(m.chunks) < MaxChunks
    /\ SegmentsOf(m, a) \cap CommittedIndices(m) = {}
    /\ Begin("guarded", "commit",
             CommitRevision(m, "normalized", "review", m.current, "protected-term-review",
                            SegmentsOf(m, a), stored),
             IF stored THEN NewFile(m, "raw") ELSE <<>>)
    /\ att' = [att EXCEPT ![a] = Idle]
    /\ shown' = shown \cup {a}
    /\ Kept

\* An AI clean-up becomes a revision of its own that is never current.
CompleteCleanup(a) ==
    LET m == Readable IN
    /\ Ready("guarded") /\ att[a] # Idle /\ att[a].pc = "cleanup"
    /\ Committable(m)
    /\ m.current = att[a].base /\ m.current \in DOMAIN m.revs
    /\ EffectiveKind(m.revs[m.current]) # "ai-cleaned"
    /\ SegmentsOf(m, a) # {}
    /\ Cardinality(SegmentsOf(m, a)) = Cardinality(m.revs[m.current].idx)
    /\ LET version == Len(m.revs) + 1
           doc == [m EXCEPT
                     !.revs = Append(@, Revision("ai-cleaned", "ai-cleanup", m.current,
                                                 SegmentsOf(m, a), NoRaw)),
                     !.cleaned = version,
                     !.receipts = Append(@, Receipt("transcript-cleanup", "succeeded",
                                                    version, m.current))]
       IN ValidOn(doc, files) /\ Begin("guarded", "cleanup", doc, <<>>)
    /\ att' = [att EXCEPT ![a] = Idle]
    /\ shown' = shown \cup {a}
    /\ Kept

\* record_transcription_failure and record_cleanup_failure.
RecordFailure(a) ==
    LET m == Readable
        cleanup == att[a].pc = "cleanup" IN
    /\ Ready("guarded") /\ att[a] # Idle
    /\ m # Absent /\ Len(m.receipts) < MaxReceipts
    /\ cleanup => att[a].base \in DOMAIN m.revs
    /\ Begin("guarded", "failure",
             [m EXCEPT !.receipts = Append(@,
                 Receipt(IF cleanup THEN "transcript-cleanup" ELSE "transcription", "failed", 0,
                         IF cleanup THEN att[a].base ELSE 0))], <<>>)
    /\ att' = [att EXCEPT ![a] = Idle]
    /\ UNCHANGED shown /\ Kept

\* record_recap_receipt: the same read and write without the guard.  While a
\* guarded operation is under way the read may end with any of the names.
RecordRecapReceipt == \E m \in Found :
    /\ Ready("recap")
    /\ m = Readable \/ ~Free("guarded")
    /\ m.current \in DOMAIN m.revs /\ Len(m.receipts) < MaxReceipts
    /\ Begin("recap", "recap",
             [m EXCEPT !.receipts = Append(@, Receipt("recap", "succeeded", 0, m.current))], <<>>)
    /\ UNCHANGED <<att, shown>> /\ Kept

\* recover for one directory, at start-up and on request: load or rebuild,
\* drop raw chunks no revision owns, adopt the scanned chunks when there are
\* more of them, and write the result.  Any error quarantines the directory
\* as it then is.
Recover ==
    LET loaded == IF Readable # Absent THEN Readable ELSE ManifestFromChunks(files)
        unowned == UnownedRawFiles(loaded, files)
        listed == \E f \in unowned : f.index \in Indices(loaded)
        left == files \ unowned
        scanned == ScanChunks(left)
        adopt == (unowned # {} /\ listed) \/ Len(scanned) > Len(loaded.chunks)
        chunks == IF adopt THEN scanned ELSE loaded.chunks
        state == IF loaded.state = "recording" THEN "needsRecovery" ELSE loaded.state
    IN
    /\ Free("guarded")
    /\ Meet("guarded")
    /\ up' = TRUE
    /\ \/ /\ NoDirectory \/ ~ScanOK(files)
          /\ UNCHANGED <<writer, files, rebuilt>>
       \/ /\ ~NoDirectory /\ ScanOK(files) /\ ~ScanOK(left)
          /\ files' = left
          /\ UNCHANGED <<writer, rebuilt>>
       \/ /\ ~NoDirectory /\ ScanOK(files) /\ ScanOK(left)
          /\ files' = left
          /\ rebuilt' = (rebuilt \/ adopt \/ Readable = Absent)
          /\ writer' = [writer EXCEPT !["guarded"] =
                [pc |-> "create", op |-> "recover", adds |-> <<>>, had |-> FALSE,
                 doc |-> [loaded EXCEPT !.chunks = chunks, !.state = state]]]
    /\ UNCHANGED <<slots, att, seen, shown, dropped, ops, faults>>

\* The process is killed; attempts and writes in flight are lost.
Crash ==
    /\ up /\ Fault
    /\ up' = FALSE
    /\ writer' = [t \in Writers |-> Idle]
    /\ att' = [a \in Attempts |-> Idle]
    /\ UNCHANGED <<slots, files, seen, rebuilt, shown, dropped, overlapped, ops>>

Init ==
    /\ \E m \in Earlier \cup {Absent} :
          /\ slots = [NoSlots EXCEPT !["main"] = m]
          /\ files = IF m = Absent THEN {} ELSE FilesOf(m)
          /\ seen = m
          /\ shown = IF m = Absent THEN {}
                     ELSE Attempts \cap {Chunk(m, i).tag : i \in CommittedIndices(m)}
    /\ writer = [t \in Writers |-> Idle]
    /\ att = [a \in Attempts |-> Idle]
    /\ up = TRUE
    /\ rebuilt = FALSE
    /\ dropped = FALSE
    /\ overlapped = FALSE
    /\ ops = 0
    /\ faults = 0

Next ==
    \/ \E t \in Writers : WriteStep(t)
    \/ Start \/ WriteTextChunk \/ WriteAudioChunk \/ SaveNotes
    \/ \E tag \in Attempts \cup {"plain"} : WriteTranscriptSegment(tag)
    \/ Finish \/ MarkNeedsRecovery \/ AbortUnfinished \/ AppendPrivacyEvent
    \/ \E v \in 1..MaxRevisions : SelectTranscriptRevision(v)
    \/ \E a \in Attempts : \/ \E p \in {"transcription", "review", "cleanup"} : BeginAttempt(a, p)
                           \/ \E stored \in BOOLEAN : \/ CompleteTranscription(a, stored)
                                                      \/ CompleteReview(a, stored)
                           \/ CompleteCleanup(a)
                           \/ RecordFailure(a)
    \/ RecordRecapReceipt \/ Recover \/ Crash

Spec == Init /\ [][Next]_vars

---------------------------------------------------------------------------
(* Properties.                                                             *)

\* Manifests, files and writers keep their shapes, whatever crashes leave.
TypeOK ==
    /\ DOMAIN slots = Slots
    /\ \A f \in files : f.index \in 0..MaxChunks /\ f.tag \in Tags /\ f.whole \in BOOLEAN
    /\ \A t \in Writers : writer[t].pc \in {"idle", "chunk", "flush", "create", "sync",
                                            "unbackup", "aside", "promote", "clean"}
    /\ \A a \in Attempts : att[a].pc \in {"idle", "transcription", "review", "cleanup"}
    /\ LET m == Readable IN m # Absent => m.state \in States /\ Len(m.chunks) <= MaxChunks
    /\ {up, rebuilt, overlapped} \subseteq BOOLEAN /\ shown \subseteq Attempts

\* m still has everything old had: chunks, revisions and receipts only grow.
Extends(m, old) ==
    /\ IsPrefix(old.chunks, m.chunks)
    /\ IsPrefix(old.revs, m.revs)
    /\ IsPrefix(old.receipts, m.receipts)
    /\ m.events >= old.events

\* One fault is tolerated: after a kill or a failing call at any point of a
\* write, what an operation reported as stored is what the three names give
\* the next operation or recovery that holds the guard, also between any two
\* calls.  (A second fault can leave the staged file as the only copy, and the
\* next write truncates it.)  Nothing is promised once the receipt of a recap,
\* which takes no guard, was written beside another operation.
HistoryKept ==
    /\ faults <= 1 /\ ~overlapped
    /\ ~rebuilt /\ seen # Absent
    => LET m == Readable IN m # Absent /\ Extends(m, seen)

\* The bytes of a stored chunk outlive everything short of an abort, also
\* when recovery rebuilds the manifest (raw transcripts excepted: a rebuilt
\* manifest owns none and drops them).
ChunkBytesKept ==
    seen # Absent =>
        \A i \in Indices(seen) : Chunk(seen, i).kind # "raw" =>
            ChunkFile(i, Chunk(seen, i).tag, TRUE) \in files

\* Text of an attempt that never reached its commit shows on no surface (no
\* read, page, search row, export, revision or model prompt), whatever part of
\* it is on disk, however the manifest was rebuilt and whichever of the names
\* a read ends with.  Raw transcripts show in one place only, the comparison of
\* the one revision that owns them.
UncommittedInvisible ==
    \A m \in Found :
        /\ \A i \in ContentSurfaces(m) : Chunk(m, i).tag \in shown \cup {"plain"}
        /\ \A v \in DOMAIN m.revs : \A i \in ComparisonView(m, v) :
              Chunk(m, i).tag = "raw" /\ \A u \in DOMAIN m.revs \ {v} : i \notin m.revs[u].raw

\* The processing history accounts for every revision: each one that is not
\* a promoted legacy transcript has exactly one receipt of success.
AuditTrail == \A m \in Found : Accounted(m)

\* While a guarded read finds a manifest before and after a step, a recording
\* never returns to the open state and a finished one stays finished, whatever
\* was left by kills and failing calls of writes (what a failed abort leaves of
\* a discarded recording, and a recap receipt beside another write, excepted).
LifeCycle ==
    [][~overlapped' /\ seen' # Absent /\ (slots' # slots \/ files' # files) =>
           LET old == Readable  new == Readable' IN
           old # Absent /\ new # Absent =>
               /\ old.state # "recording" => new.state # "recording"
               /\ old.state = "finished" => new.state = "finished"]_vars

\* Recovery keeps the replay tracks of what was captured and stored.
TracksKept ==
    seen # Absent /\ Readable # Absent =>
        AudioReplayChunks(seen) \subseteq AudioReplayChunks(Readable)

\* What was stored is still there for the next holder of the guard, after a
\* kill, a failed call and recovery: the chunks, revisions and receipts that
\* were reported, with the receipts accounting for the revisions.
HistorySound == TypeOK /\ HistoryKept /\ AuditTrail
===========================================================================
