---------------------------- MODULE MediaImport ----------------------------
(***************************************************************************)
(* One media-import job (media_import_service.rs) in the Windows build;    *)
(* the others refuse every source.  The desktop process inspected a file   *)
(* and passes its path with the hash it saw; anyone may rewrite the file   *)
(* while the job opens, copies, checks and imports it.  The validation     *)
(* request that precedes an import runs on a thread with a time limit      *)
(* (main.rs).                                                              *)
(***************************************************************************)
EXTENDS MediaFile, FiniteSets

CONSTANTS
    MediaSources,        \* the files the path may hold
    Mixed,          \* a copy taken while the file was rewritten
    MaxBytes,       \* MAX_IMPORT_BYTES
    MaxRewrites,    \* bound on rewrites of the file
    MaxImportFaults,\* bound on failing calls
    MaxValidations  \* bound on validation requests

ASSUME ImportConstants == {MaxBytes, MaxRewrites, MaxImportFaults, MaxValidations} \subseteq Nat

VARIABLES
    source,     \* the file at the path
    expected,   \* the file the desktop process hashed
    import,     \* the import job
    cancelled,  \* its cancellation flag
    stage,      \* the private copy, or NoStage
    stored,     \* the new recording: state and the pieces written
    rewrites, importFaults,
    slot,       \* media_local_validation_active
    validators,    \* validation threads still running, by request
    asked       \* the validation request: number, and whether it is waited for

importVars == <<source, expected, import, cancelled, stage, stored, rewrites, importFaults,
                slot, validators, asked>>
jobVars == <<source, expected, import, cancelled, stage, stored, rewrites, importFaults>>
slotVars == <<slot, validators, asked>>

\* A source is [path, kind, magic, body, size]: what the path is, the kind
\* its name announces, whether its first bytes agree, its content.
Kinds == {"wav", "mp3", "m4a", "mp4", "webm"}

\* The file is reached without a network drive, a link or a cloud stub.
OnLocalStorage(f) == f.path \notin {"network", "unmounted"}
NoLinks(f) == f.path # "link"
NotPlaceholder(f) == f.path # "placeholder"

\* validate_local_source: what is refused before the file is opened.
Eligible(f) ==
    OnLocalStorage(f) /\ NoLinks(f) /\ NotPlaceholder(f) /\ f.path # "directory" /\ f.size > 0

\* What is refused before a byte is parsed: the name, the size, the magic
\* bytes.
KindKnown(f) == f.kind \in Kinds
SizeAccepted(f) == f.size \in 1..MaxBytes
MagicMatches(f) == f.magic
NameAccepted(f) == KindKnown(f) /\ SizeAccepted(f) /\ MagicMatches(f)

\* What is refused before a recording exists: a WAV file is parsed whole, of
\* another file only the header is read.
Inspected(f) ==
    NameAccepted(f) /\ (IF f.kind = "wav" THEN ParsePcm16Wav(f.body).ok ELSE f.body.header)

\* The pieces an import writes before it ends or meets what it cannot decode.
PiecesOf(f) ==
    IF f.kind = "wav" THEN ImportPcmRanges(ParsePcm16Wav(f.body)) ELSE DecodePieces(f.body)

\* The file can be imported to its end.
Importable(f) == Inspected(f) /\ (IF f.kind = "wav" THEN TRUE ELSE DecodeAccepted(f.body))

NoStage == [path |-> "none"]
NoRecording == [state |-> "none", pieces |-> <<>>]
ImportFault == importFaults < MaxImportFaults /\ importFaults' = importFaults + 1
At(pc) == import.pc = pc
Go(pc) == import' = [import EXCEPT !.pc = pc]

\* Mutant of Fail: the private copy is left behind.
FailKeepsStage(error) ==
    /\ import' = [import EXCEPT !.pc = "ended", !.result = error]
    /\ UNCHANGED stage

\* The job ends with an error; the private copy is dropped with it.
Fail(error) ==
    /\ import' = [import EXCEPT !.pc = "ended", !.result = error]
    /\ stage' = NoStage

---------------------------------------------------------------------------
(* The environment: the file is rewritten in place, the job is cancelled.  *)

Rewrite(f) ==
    /\ rewrites < MaxRewrites /\ import.pc # "ended"
    /\ rewrites' = rewrites + 1 /\ source' = f
    /\ UNCHANGED <<expected, import, cancelled, stage, stored, importFaults, slotVars>>

CancelImport ==
    /\ ~cancelled /\ import.pc # "ended"
    /\ cancelled' = TRUE
    /\ UNCHANGED <<source, expected, import, stage, stored, rewrites, importFaults, slotVars>>

---------------------------------------------------------------------------
(* PreparedSource::open.                                                   *)

ValidateSource ==
    /\ At("validate")
    /\ IF Eligible(source)
       THEN import' = [import EXCEPT !.pc = "open", !.size = source.size] /\ UNCHANGED stage
       ELSE Fail("refused")
    /\ UNCHANGED <<source, expected, cancelled, stored, rewrites, importFaults, slotVars>>

\* The opened handle is checked again: the kind of file and its size.
OpenSource ==
    /\ At("open")
    /\ IF Eligible(source) /\ source.size = import.size
       THEN Go("stage") /\ UNCHANGED stage
       ELSE Fail("changed")
    /\ UNCHANGED <<source, expected, cancelled, stored, rewrites, importFaults, slotVars>>

\* create_private_stage: an empty file only this user may read.
CreateStage ==
    /\ At("stage") /\ ~cancelled
    /\ stage' = [path |-> "empty"] /\ Go("copy")
    /\ UNCHANGED <<source, expected, cancelled, stored, rewrites, importFaults, slotVars>>

\* copy_from: part of the copy; the file may change before the rest.
CopyFirst ==
    /\ At("copy") /\ ~cancelled
    /\ stage' = source /\ Go("copying")
    /\ UNCHANGED <<source, expected, cancelled, stored, rewrites, importFaults, slotVars>>

\* Mutant of CopyRest: the copy is not compared with the inspected file.
CopyUnverified ==
    /\ At("copying") /\ ~cancelled
    /\ stage' = (IF source = stage THEN source ELSE Mixed)
    /\ Go("staged")
    /\ UNCHANGED <<source, expected, cancelled, stored, rewrites, importFaults, slotVars>>

\* The rest of the copy, its length, and its hash.
CopyRest ==
    LET copy == IF source = stage THEN source ELSE Mixed IN
    /\ At("copying") /\ ~cancelled
    /\ IF source.size # import.size THEN Fail("changed")
       ELSE IF copy # expected THEN Fail("mismatch")
       ELSE stage' = copy /\ Go("staged")
    /\ UNCHANGED <<source, expected, cancelled, stored, rewrites, importFaults, slotVars>>

\* Signature, container, format and duration of the private copy.
Inspect ==
    /\ At("staged") /\ ~cancelled
    /\ IF Inspected(stage) THEN Go("prepared") /\ UNCHANGED stage ELSE Fail("unsupported")
    /\ UNCHANGED <<source, expected, cancelled, stored, rewrites, importFaults, slotVars>>

\* Before a recording exists, a cancellation or a failing call only ends
\* the job.
ImportStops ==
    /\ import.pc \in {"stage", "copy", "copying", "staged", "prepared"}
    /\ \/ cancelled /\ UNCHANGED importFaults
       \/ ImportFault
    /\ Fail("stopped")
    /\ UNCHANGED <<source, expected, cancelled, stored, rewrites, slotVars>>

Recording == [state |-> "recording", pieces |-> <<>>]

\* store.start fails: the directory may stay, without a manifest or with the
\* first one under its temporary name, which a read finds.  No clean-up runs.
StartFails ==
    /\ At("prepared") /\ ~cancelled /\ ImportFault
    /\ stored' \in {NoRecording, [state |-> "directory", pieces |-> <<>>], Recording}
    /\ Fail("start failed")
    /\ UNCHANGED <<source, expected, cancelled, rewrites, slotVars>>

---------------------------------------------------------------------------
(* import_trusted_with_hooks after the recording was started.              *)

StartImport ==
    /\ At("prepared") /\ ~cancelled
    /\ stored' = Recording
    /\ Go("write")
    /\ UNCHANGED <<source, expected, cancelled, stage, rewrites, importFaults, slotVars>>

WritePiece ==
    LET done == Len(stored.pieces) IN
    /\ At("write") /\ ~cancelled /\ done < Len(PiecesOf(stage))
    /\ stored' = [stored EXCEPT !.pieces = Append(@, PiecesOf(stage)[done + 1])]
    /\ UNCHANGED <<source, expected, import, cancelled, stage, rewrites, importFaults, slotVars>>

AllWritten == Len(stored.pieces) = Len(PiecesOf(stage))

\* Mutant of FinishImport: what could not be decoded is left out.
FinishTruncated ==
    /\ At("write") /\ AllWritten /\ ~cancelled
    /\ Go("finish")
    /\ UNCHANGED <<source, expected, cancelled, stage, stored, rewrites, importFaults, slotVars>>

\* The last look at the flag, then finish.
FinishImport ==
    /\ At("write") /\ AllWritten /\ Importable(stage) /\ ~cancelled
    /\ Go("finish")
    /\ UNCHANGED <<source, expected, cancelled, stage, stored, rewrites, importFaults, slotVars>>

ImportDone ==
    /\ At("finish")
    /\ stored' = [stored EXCEPT !.state = "finished"]
    /\ import' = [import EXCEPT !.pc = "ended", !.result = "imported"]
    /\ stage' = NoStage
    /\ UNCHANGED <<source, expected, cancelled, rewrites, importFaults, slotVars>>

\* A cancellation, a packet that cannot be decoded, or a failing chunk write
\* or finish.
ImportFails ==
    /\ \/ At("write") /\ cancelled /\ UNCHANGED importFaults
       \/ At("write") /\ AllWritten /\ ~Importable(stage) /\ UNCHANGED importFaults
       \/ import.pc \in {"write", "finish"} /\ ImportFault
    /\ Go("abort")
    /\ UNCHANGED <<source, expected, cancelled, stage, stored, rewrites, slotVars>>

\* Mutant of AbortImport: a clean-up that failed is not reported.
AbortSilently ==
    /\ At("abort")
    /\ \/ stored' = NoRecording /\ UNCHANGED importFaults
       \/ UNCHANGED stored /\ ImportFault
    /\ Fail("stopped")
    /\ UNCHANGED <<source, expected, cancelled, rewrites, slotVars>>

\* failure_after_cleanup
AbortImport ==
    /\ At("abort")
    /\ \/ stored' = NoRecording /\ Fail("stopped") /\ UNCHANGED importFaults
       \/ UNCHANGED stored /\ Fail("cleanup failed") /\ ImportFault
    /\ UNCHANGED <<source, expected, cancelled, rewrites, slotVars>>

---------------------------------------------------------------------------
(* run_bounded_media_local_validation.                                     *)

AskValidation ==
    /\ ~asked.waiting /\ asked.number < MaxValidations /\ ~slot
    /\ asked' = [number |-> asked.number + 1, waiting |-> TRUE]
    /\ slot' = TRUE /\ validators' = validators \cup {asked.number + 1}
    /\ UNCHANGED jobVars

\* Another validation is still running.
ValidationBusy ==
    /\ ~asked.waiting /\ asked.number < MaxValidations /\ slot
    /\ asked' = [asked EXCEPT !.number = @ + 1]
    /\ UNCHANGED <<slot, validators, jobVars>>

\* Mutant of ValidationTimeout: giving up on the answer frees the slot.
TimeoutFreesSlot ==
    /\ asked.waiting
    /\ asked' = [asked EXCEPT !.waiting = FALSE] /\ slot' = FALSE
    /\ UNCHANGED <<validators, jobVars>>

\* The thread is not stopped; it keeps the slot.
ValidationTimeout ==
    /\ asked.waiting
    /\ asked' = [asked EXCEPT !.waiting = FALSE]
    /\ UNCHANGED <<slot, validators, jobVars>>

\* The thread ends and drops its slot; a request still waiting is answered.
ValidationEnds(w) ==
    /\ w \in validators
    /\ validators' = validators \ {w} /\ slot' = FALSE
    /\ asked' = IF asked.waiting /\ asked.number = w THEN [asked EXCEPT !.waiting = FALSE] ELSE asked
    /\ UNCHANGED jobVars

---------------------------------------------------------------------------
ImportInit ==
    /\ source \in MediaSources /\ expected \in MediaSources
    /\ import = [pc |-> "validate", size |-> 0, result |-> "none"]
    /\ cancelled = FALSE /\ stage = NoStage /\ stored = NoRecording
    /\ rewrites = 0 /\ importFaults = 0
    /\ slot = FALSE /\ validators = {} /\ asked = [number |-> 0, waiting |-> FALSE]

JobStep ==
    \/ ValidateSource \/ OpenSource \/ CreateStage \/ CopyFirst \/ CopyRest \/ Inspect \/ ImportStops
    \/ StartFails \/ StartImport \/ WritePiece \/ FinishImport \/ ImportDone \/ ImportFails \/ AbortImport

ImportNext ==
    \/ \E f \in MediaSources : Rewrite(f)
    \/ CancelImport
    \/ JobStep

ValidationNext ==
    \/ AskValidation \/ ValidationBusy \/ ValidationTimeout
    \/ \E w \in validators : ValidationEnds(w)

\* The job and the validations share no state.
ImportSpec ==
    ImportInit /\ [][ImportNext \/ ValidationNext]_importVars

---------------------------------------------------------------------------
(* Properties.                                                             *)

\* The variables hold what the code can store in them, and at most one
\* validation thread runs however many requests gave up waiting.
ImportTypeOK ==
    /\ import.pc \in {"validate", "open", "stage", "copy", "copying", "staged", "prepared", "write",
                      "finish", "abort", "ended"}
    /\ stored.state \in {"none", "directory", "recording", "finished"}
    /\ Cardinality(validators) <= 1

\* The bytes of ranges or pieces, each named by its offset.
Bytes(ranges) == UNION {r.offset..(r.offset + r.length - 1) : r \in Range(ranges)}

\* The pieces hold the audio of the file, whole: for WAV every byte of every
\* data chunk, for other kinds every decoded frame.
WholeAudio(f, pieces) ==
    Bytes(pieces) = IF f.kind = "wav" THEN Bytes(PcmRanges(f.body))
                    ELSE Bytes(<<[offset |-> 0, length |-> Frames(f.body.packets)]>>)

\* A finished import is the audio of the file that was inspected, whole and
\* in order, whatever happened to the file meanwhile.
ImportedIsInspected ==
    stored.state = "finished" =>
        stored.pieces = PiecesOf(expected) /\ WholeAudio(expected, stored.pieces)

\* Piece k of the file holds whole frames, does not overlap the one before
\* it, and starts no later than the audio before it lasts and less than a
\* millisecond per piece earlier.
Aligned(f, pieces, k) ==
    LET unit == IF f.kind = "wav" THEN BlockAlign(f.body) ELSE 1
        exact == FramesToMs(TotalBytes(SubSeq(pieces, 1, k - 1)) \div unit)
        p == pieces[k]
    IN /\ p.length > 0 /\ p.length % unit = 0 /\ p.length <= PieceBytes
       /\ k > 1 => p.offset >= pieces[k - 1].offset + pieces[k - 1].length
       /\ p.start <= exact /\ exact < p.start + k

PiecesAligned == stage # NoStage => \A k \in DOMAIN stored.pieces : Aligned(stage, stored.pieces, k)

\* An import that ended without success leaves no audio behind, and no
\* recording, unless it says that its clean-up failed.  When the recording
\* could not be started, which the error says too, an empty one may be left.
NoSilentLeftover ==
    import.pc = "ended" /\ import.result \notin {"imported", "cleanup failed"}
        => stored = NoRecording \/ (import.result = "start failed" /\ stored.pieces = <<>>)

\* The private copy does not outlive its job.
StageDropped == import.pc \in {"validate", "open", "ended"} => stage = NoStage

\* The promise of an import: the audio of the inspected file, whole and at its
\* time, or nothing, or an error that says
\* whether a recording was left unfinished or could not be started; no private copy and
\* no second validation thread stays behind.
ImportSound ==
    ImportTypeOK /\ ImportedIsInspected /\ PiecesAligned /\ NoSilentLeftover /\ StageDropped
=============================================================================
