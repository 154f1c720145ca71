----------------------------- MODULE ModelFiles -----------------------------
(***************************************************************************)
(* The speech models on disk (model_manager.rs, parakeet_package.rs,       *)
(* bundled_ai_assets.rs): a Whisper model that was imported or came with   *)
(* the program, and the Parakeet package.  A file is hashed once and the   *)
(* result remembered with the file's size and time, its stamp.  A file may *)
(* be changed from outside at any time, which gives it a new stamp.        *)
(***************************************************************************)
EXTENDS Naturals, Sequences

CONSTANTS
    Pieces,         \* chunks of an upload
    MaxStamps, MaxModelFaults, MaxUploads   \* bounds

ASSUME ModelConstants ==
    {Pieces, MaxStamps, MaxModelFaults, MaxUploads} \subseteq Nat

VARIABLES
    file,       \* the managed and the bundled model: content and stamp
    known,      \* the remembered digests: content and the stamp it was read at
    backgroundCheck,   \* the background verification: its state and its verdict
    check,      \* what each thread is verifying
    used,       \* ghost: the model last installed or given to an engine, as it was
    stamps      \* the last stamp

fileVars == <<file, known, backgroundCheck, check, used, stamps>>

Names == {"managed", "bundled"}
Threads == {"job", "background", "request"}
NoFile == [content |-> "none", stamp |-> 0]
ModelExists(f) == file[f] # NoFile
Unknown == [content |-> "none", stamp |-> 0]
Resting == [pc |-> "idle", of |-> "none", stamp |-> 0, content |-> "none", seen |-> "none"]

---------------------------------------------------------------------------
(* Verification: verify_model_path and cached_sha256.                      *)

Begin(t, f) == check' = [check EXCEPT ![t] = [Resting EXCEPT !.pc = "look", !.of = f]]

\* verified_model_path of a job and verify_local of a request: the managed
\* file first.
BeginVerify(t) ==
    /\ t # "background" /\ check[t] = Resting /\ Begin(t, "managed")
    /\ UNCHANGED <<file, known, backgroundCheck, used, stamps>>

\* status_nonblocking starts the background thread once.
BeginBackground ==
    /\ backgroundCheck = "not-started" /\ backgroundCheck' = "running" /\ Begin("background", "bundled")
    /\ UNCHANGED <<file, known, used, stamps>>

\* Mutant of Remembered: a digest is remembered for the name alone.
RememberedByName(f) == known[f].content # "none"

\* The remembered digest is of the file as it is.
Remembered(f) == known[f].content # "none" /\ known[f].stamp = file[f].stamp

\* The size and time are read first.
Look(t) ==
    /\ check[t].pc = "look"
    /\ LET f == check[t].of IN
       check' = [check EXCEPT ![t] =
                    IF ~ModelExists(f) THEN [@ EXCEPT !.pc = "verdict"]
                    ELSE IF Remembered(f)
                    THEN [@ EXCEPT !.pc = "verdict", !.content = known[f].content, !.seen = file[f].content]
                    ELSE [@ EXCEPT !.pc = "hash", !.stamp = file[f].stamp]]
    /\ UNCHANGED <<file, known, backgroundCheck, used, stamps>>

Hash(t) ==
    /\ check[t].pc = "hash"
    /\ LET f == check[t].of IN
       check' = [check EXCEPT ![t] =
                    IF ModelExists(f) THEN [@ EXCEPT !.pc = "remember", !.content = file[f].content, !.seen = file[f].content]
                    ELSE [@ EXCEPT !.pc = "verdict", !.content = "unreadable"]]
    /\ UNCHANGED <<file, known, backgroundCheck, used, stamps>>

\* Mutant of Remember: the time of the file is read when it is hashed.
RememberNow(t) ==
    /\ check[t].pc = "remember"
    /\ check' = [check EXCEPT ![t].pc = "verdict"]
    /\ known' = [known EXCEPT ![check[t].of] =
                    [content |-> check[t].content, stamp |-> file[check[t].of].stamp]]
    /\ UNCHANGED <<file, backgroundCheck, used, stamps>>

\* The digest goes with what was read first.  Of a managed file only the
\* trusted one is remembered.
Remember(t) ==
    /\ check[t].pc = "remember"
    /\ check' = [check EXCEPT ![t].pc = "verdict"]
    /\ IF check[t].of = "bundled" \/ check[t].content = "trusted"
       THEN known' = [known EXCEPT ![check[t].of] =
                        [content |-> check[t].content, stamp |-> check[t].stamp]]
       ELSE UNCHANGED known
    /\ UNCHANGED <<file, backgroundCheck, used, stamps>>

Give(via, content) == used' = [via |-> via, content |-> content]

\* A managed file that is not trusted blocks the bundled one.
Verdict(t) ==
    /\ t # "background" /\ check[t].pc = "verdict"
    /\ \/ /\ check[t].content = "trusted"
          /\ IF t = "job" THEN Give("job", check[t].seen) ELSE UNCHANGED used
          /\ check' = [check EXCEPT ![t] = Resting]
       \/ /\ check[t].content = "none" /\ check[t].of = "managed"
          /\ Begin(t, "bundled") /\ UNCHANGED used
       \/ /\ check[t].content # "trusted"
          /\ check[t].of = "bundled" \/ check[t].content # "none"
          /\ check' = [check EXCEPT ![t] = Resting] /\ UNCHANGED used
    /\ UNCHANGED <<file, known, backgroundCheck, stamps>>

BackgroundVerdict ==
    /\ check["background"].pc = "verdict"
    /\ backgroundCheck' = IF check["background"].content = "trusted" THEN "ready" ELSE "failed"
    /\ check' = [check EXCEPT !["background"] = Resting]
    /\ UNCHANGED <<file, known, used, stamps>>

\* cached_verified_model_path: never hashes.  The managed file must be
\* remembered as it is; the bundled one is taken from the background check.
LiveModel ==
    /\ \/ ModelExists("managed") /\ Remembered("managed") /\ known["managed"].content = "trusted"
          /\ Give("live-managed", file["managed"].content)
       \/ ~ModelExists("managed") /\ backgroundCheck = "ready" /\ Give("live-bundled", file["bundled"].content)
    /\ UNCHANGED <<file, known, backgroundCheck, check, stamps>>

NewFile(content) == [content |-> content, stamp |-> stamps + 1]

\* Another program writes the file.
Change(f, content) ==
    /\ stamps < MaxStamps /\ ModelExists(f)
    /\ file' = [file EXCEPT ![f] = NewFile(content)] /\ stamps' = stamps + 1
    /\ UNCHANGED <<known, backgroundCheck, check, used>>

---------------------------------------------------------------------------
(* The import of a model, chunk by chunk, and its installation.            *)

VARIABLES
    upload,     \* the import manifest: kind, replace, written
    piece,      \* the part file; the chunks the client knows of; ghosts: a finish
                \* accepted it, a chunk came after that
    install,    \* the finish call in progress, with the manifest's "replace" as it read it
    package,    \* the Parakeet package, its staging, its backup; ghost: an
                \* installation ended between setting it aside and replacing it
    everInstalled, \* ghost: kinds that were installed
    disturbed,  \* ghost: kinds whose replacement met an abort or a chunk half-way
    uploads, modelFaults

uploadVars == <<upload, piece, install, package, everInstalled, disturbed, uploads, modelFaults>>

NoUpload == [kind |-> "none", replace |-> FALSE, sized |-> FALSE, written |-> 0]
NoPart == [bytes |-> <<>>, sent |-> 0, accepted |-> FALSE, late |-> FALSE]
Idle == [at |-> "idle", replace |-> FALSE]
NextStep(at) == install' = [install EXCEPT !.at = at]
Whole == [i \in 1..Pieces |-> i]
ModelFault == modelFaults < MaxModelFaults /\ modelFaults' = modelFaults + 1
Installed(kind) == IF kind = "whisper" THEN ModelExists("managed") ELSE package.target # "none"

\* import_start: with the size of the file or without.  A second import while
\* one is open is not modelled; a new one has names of its own, so the backup
\* of an earlier one is never looked for again.
ImportStart(kind, replace, sized) ==
    /\ upload = NoUpload /\ install = Idle /\ uploads < MaxUploads
    /\ Installed(kind) => replace
    /\ upload' = [kind |-> kind, replace |-> replace, sized |-> sized, written |-> 0]
    /\ piece' = NoPart /\ uploads' = uploads + 1
    /\ package' = [package EXCEPT !.backup = "none"]
    /\ UNCHANGED <<fileVars, install, everInstalled, disturbed, modelFaults>>

\* import_chunk: appended, then counted, during a finish too.  When the count
\* is not written the client does not know and sends the chunk again.
ImportChunk(counted) ==
    /\ upload # NoUpload /\ Len(piece.bytes) <= Pieces
    /\ upload.sized => upload.written < Pieces
    /\ piece' = [piece EXCEPT !.bytes = Append(@, piece.sent + 1), !.late = @ \/ piece.accepted,
                              !.sent = IF counted THEN @ + 1 ELSE @]
    /\ disturbed' = IF piece.accepted THEN disturbed \cup {upload.kind} ELSE disturbed
    /\ IF counted THEN upload' = [upload EXCEPT !.written = @ + 1] /\ UNCHANGED modelFaults
       ELSE ModelFault /\ UNCHANGED upload
    /\ UNCHANGED <<fileVars, install, package, everInstalled, uploads>>

\* cleanup_import_files: also what import_abort does.
CleanUp == upload' = NoUpload /\ piece' = NoPart

\* What an abort cannot take away: a model in its place that is not being
\* replaced, and a package that is set aside and will be put back.
SafeFromAbort(kind) ==
    \/ Installed(kind) /\ (kind = "whisper" => install.at \notin {"replace", "rename"})
    \/ kind = "parakeet" /\ install.at = "promote" /\ package.backup # "none"

\* import_abort, during a finish too.
Abort ==
    /\ upload # NoUpload /\ CleanUp
    /\ package' = [package EXCEPT !.staging = "none"]
    /\ disturbed' = disturbed \cup {kind \in {"whisper", "parakeet"} : ~SafeFromAbort(kind)}
    /\ UNCHANGED <<fileVars, install, everInstalled, uploads, modelFaults>>

Complete ==
    /\ upload # NoUpload /\ install = Idle /\ upload.written > 0
    /\ upload.sized => upload.written = Pieces

\* The digest is the trusted one; of the package's archive the count too.
Accepted == piece.bytes = Whole /\ (upload.kind = "parakeet" => upload.written = Pieces)

\* import_finish: the count, then the digest; a part that fails is dropped.
\* One finish at a time is modelled.
Finish ==
    /\ Complete
    /\ IF Accepted
       THEN /\ install' = [at |-> IF upload.kind = "whisper" THEN "replace" ELSE "extract",
                           replace |-> upload.replace]
            /\ piece' = [piece EXCEPT !.accepted = TRUE] /\ UNCHANGED upload
       ELSE CleanUp /\ UNCHANGED install
    /\ UNCHANGED <<fileVars, package, everInstalled, disturbed, uploads, modelFaults>>

\* The old file and its remembered digest are removed.
RemoveOld ==
    /\ install.at = "replace"
    /\ \/ /\ ModelExists("managed") => install.replace
          /\ file' = [file EXCEPT !["managed"] = NoFile]
          /\ known' = IF ModelExists("managed") THEN [known EXCEPT !["managed"] = Unknown] ELSE known
          /\ NextStep("rename") /\ UNCHANGED modelFaults
       \/ /\ ModelExists("managed") /\ ~install.replace /\ install' = Idle
          /\ UNCHANGED <<file, known, modelFaults>>
       \/ /\ ModelExists("managed") /\ install.replace /\ ModelFault /\ install' = Idle
          /\ \/ UNCHANGED <<file, known>>
             \/ file' = [file EXCEPT !["managed"] = NoFile] /\ UNCHANGED known
    /\ UNCHANGED <<backgroundCheck, check, used, stamps, upload, piece, package, everInstalled,
                   disturbed, uploads>>

\* The part as it is by now becomes the model, which the same request verifies
\* again.  The rename fails when an abort removed the part.
RenamePart ==
    /\ install.at = "rename" /\ install' = Idle
    /\ LET content == IF piece.bytes = Whole THEN "trusted" ELSE "other" IN
       \/ /\ upload # NoUpload
          /\ stamps < MaxStamps /\ stamps' = stamps + 1 /\ check["request"] = Resting
          /\ file' = [file EXCEPT !["managed"] = NewFile(content)]
          /\ Give(IF piece.late THEN "late-import" ELSE "import", content) /\ Begin("request", "managed")
          /\ everInstalled' = everInstalled \cup {"whisper"} /\ disturbed' = disturbed \ {"whisper"}
          /\ CleanUp /\ UNCHANGED modelFaults
       \/ /\ IF upload = NoUpload THEN UNCHANGED modelFaults ELSE ModelFault
          /\ UNCHANGED <<file, everInstalled, disturbed, stamps, upload, piece, check, used>>
    /\ UNCHANGED <<known, backgroundCheck, package, uploads>>

\* install_archive: extracted beside the package and verified, or dropped
\* with the upload (a cancellation too).
Extract ==
    /\ install.at = "extract"
    /\ \/ /\ upload # NoUpload
          /\ package' = [package EXCEPT !.staging = "whole"] /\ NextStep("backup") /\ UNCHANGED <<upload, piece>>
       \/ package' = [package EXCEPT !.staging = "none"] /\ install' = Idle /\ CleanUp
    /\ UNCHANGED <<fileVars, everInstalled, disturbed, uploads, modelFaults>>

\* Mutant of SetAside: the package is removed.
RemoveAside ==
    /\ install.at = "backup" /\ NextStep("promote")
    /\ package' = [package EXCEPT !.target = "none", !.backup = "none"]
    /\ UNCHANGED <<fileVars, upload, piece, everInstalled, disturbed, uploads, modelFaults>>

\* A stale backup goes, then the package is set aside.
SetAside ==
    /\ install.at = "backup"
    /\ \/ /\ package.target # "none" => install.replace
          /\ package' = [package EXCEPT !.backup = package.target, !.target = "none"]
          /\ NextStep("promote") /\ UNCHANGED modelFaults
       \/ /\ package.target # "none"
          /\ package' = [package EXCEPT !.backup = "none", !.staging = "none"] /\ install' = Idle
          /\ IF install.replace THEN ModelFault ELSE UNCHANGED modelFaults
    /\ UNCHANGED <<fileVars, upload, piece, everInstalled, disturbed, uploads>>

\* The new package is put in place, or the old one back, which can fail too.
\* An abort removed what was to be put in place.
Promote ==
    /\ install.at = "promote" /\ install' = Idle
    /\ \/ /\ package.staging # "none"
          /\ package' = [package EXCEPT !.target = package.staging, !.backup = "none",
                                        !.staging = "none", !.cut = FALSE]
          /\ everInstalled' = everInstalled \cup {"parakeet"} /\ disturbed' = disturbed \ {"parakeet"}
          /\ CleanUp /\ UNCHANGED modelFaults
       \/ /\ package' = [package EXCEPT !.target = package.backup, !.backup = "none", !.staging = "none"]
          /\ IF package.staging = "none" THEN UNCHANGED modelFaults ELSE ModelFault
          /\ UNCHANGED <<upload, piece, everInstalled, disturbed>>
       \/ /\ package' = [package EXCEPT !.staging = "none", !.cut = TRUE] /\ ModelFault
          /\ UNCHANGED <<upload, piece, everInstalled, disturbed>>
    /\ UNCHANGED <<fileVars, uploads>>

\* The process ends: what it remembers of the bundled files is gone.
ModelRestart ==
    /\ ModelFault
    /\ known' = [known EXCEPT !["bundled"] = Unknown] /\ backgroundCheck' = "not-started"
    /\ check' = [t \in Threads |-> Resting] /\ install' = Idle
    /\ package' = [package EXCEPT !.cut = @ \/ install.at = "promote"]
    /\ UNCHANGED <<file, used, stamps, upload, piece, everInstalled, disturbed, uploads>>

---------------------------------------------------------------------------
ModelInit ==
    /\ file \in [Names -> {NoFile} \cup [content : {"trusted", "other"}, stamp : {1}]]
    /\ known = [f \in Names |-> Unknown] /\ backgroundCheck = "not-started"
    /\ check = [t \in Threads |-> Resting] /\ used = [via |-> "none", content |-> "trusted"] /\ stamps = 1
    /\ upload = NoUpload /\ piece = NoPart /\ install = Idle /\ disturbed = {}
    /\ \E target \in {"none", "whole"} :
        /\ package = [target |-> target, backup |-> "none", staging |-> "none", cut |-> FALSE]
        /\ everInstalled = {kind \in {"whisper", "parakeet"} :
                               IF kind = "whisper" THEN file["managed"] # NoFile ELSE target # "none"}
    /\ uploads = 0 /\ modelFaults = 0

\* Steps of the threads, some of which start by themselves.
VerifyNext(threads, starting) ==
    /\ \/ \E t \in starting : BeginVerify(t)
       \/ \E t \in threads : Look(t) \/ Hash(t) \/ Remember(t) \/ Verdict(t)
    /\ UNCHANGED uploadVars

BundledFileNext ==
    /\ \/ BeginBackground \/ BackgroundVerdict \/ LiveModel
       \/ \E f \in Names, content \in {"trusted", "other"} : Change(f, content)
    /\ UNCHANGED uploadVars

ReplaceNext == Finish \/ RemoveOld \/ RenamePart \/ ModelRestart

UploadNext ==
    \/ \E kind \in {"whisper", "parakeet"}, replace, sized \in BOOLEAN : ImportStart(kind, replace, sized)
    \/ \E counted \in BOOLEAN : ImportChunk(counted)
    \/ Abort \/ Extract \/ SetAside \/ Promote

ModelNext ==
    VerifyNext(Threads, {"job", "request"}) \/ BundledFileNext \/ ReplaceNext \/ UploadNext

ModelSpec == ModelInit /\ [][ModelNext]_<<fileVars, uploadVars>>

---------------------------------------------------------------------------
(* Properties.                                                             *)

\* A model that is installed, one a job runs and a managed one a live
\* transcript runs have the trusted content when they are taken, though files
\* change during a verification and after it, and chunks arrive twice.  The
\* exception is an import to which a chunk was sent after its finish had
\* hashed the part: what is installed then was never verified.
UsedIsTrusted == used.via \notin {"live-bundled", "late-import"} => used.content = "trusted"

\* The same of the bundled model of a live transcript: "size and
\* modification time still match".
LiveUsesVerified == used.content = "trusted"

\* A digest that is remembered is right for the file with that stamp.
RememberedIsTrue ==
    \A f \in Names :
        known[f].content # "none" /\ known[f].stamp = file[f].stamp
            => known[f].content = file[f].content

\* A model that was installed is there, or the import holds a whole
\* replacement, or the installation that set the old version aside is still
\* running and puts it back, whatever step of a replacement fails.  Three
\* exceptions: an abort or a chunk that came during the replacement or after
\* it had failed half-way (disturbed), and for the Parakeet package an
\* installation that ended, with its process or because the old version could
\* not be put back, while the old version was set aside (cut).
ReplacementAtHand ==
    \A kind \in everInstalled \ disturbed :
        \/ Installed(kind)
        \/ upload.kind = kind /\ piece.bytes = Whole
        \/ /\ kind = "parakeet"
           /\ package.cut \/ (install.at = "promote" /\ package.backup # "none")

\* The same without its first exception: the Electron shell aborts an import
\* whenever its finish is not answered.
AbortLeavesAVersion ==
    \A kind \in everInstalled :
        Installed(kind) \/ upload.kind = kind \/ install # Idle \/ package.cut

\* Only content that was verified is used or remembered as such, and a
\* replacement that nothing disturbs never leaves the user with neither the
\* old nor the new model.
ModelsSound == UsedIsTrusted /\ RememberedIsTrue /\ ReplacementAtHand
=============================================================================
