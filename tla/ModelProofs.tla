---------------------------- MODULE ModelProofs -----------------------------
(***************************************************************************)
(* Local models and the jobs that run on them. Only verified models are    *)
(* used and remembered, and a failure does not leave a replacement with    *)
(* neither version, for every number of chunks, changes of the files,      *)
(* uploads and failures. What a job writes says truly what it was made     *)
(* from and by which model, and a job leaves nothing behind. The runner,   *)
(* the model and the package that the user brings and the manifest of what *)
(* comes with the program are used only as they were verified.             *)
(***************************************************************************)
EXTENDS ModelFiles, AiJobs, ModelAssets, WellFoundedInduction, TLAPS

-----------------------------------------------------------------------------
(* The model files                                                         *)

Contents == {"trusted", "other"}
Steps == {"idle", "look", "hash", "remember", "verdict"}

Checks == [pc : Steps, of : Names \cup {"none"}, stamp : Nat,
           content : Contents \cup {"none", "unreadable"}, seen : Contents \cup {"none"}]

FileType ==
    /\ stamps \in Nat
    /\ file \in [Names -> [content : Contents \cup {"none"}, stamp : Nat]]
    /\ known \in [Names -> [content : Contents \cup {"none"}, stamp : Nat]]
    /\ check \in [Threads -> Checks]

\* A stamp is of one content: no file and no digest has a later one than the
\* last, and what is missing has none.
StampInv ==
    \A f \in Names :
        /\ file[f].stamp <= stamps
        /\ file[f] # NoFile => file[f].stamp > 0 /\ file[f].content \in Contents
        /\ known[f].content # "none" => known[f].stamp \in 1..stamps

\* A verification remembers the digest of the file as it was looked at, or one
\* that no file has any more, and trusts only what it has seen.
CheckOK(c) ==
    /\ c.pc # "idle" => c.of \in Names
    /\ c.pc = "look" => c.content = "none"
    /\ c.pc \in {"hash", "remember"} => c.stamp \in 1..stamps
    /\ c.pc = "remember" =>
           /\ c.content \in Contents
           /\ c.stamp = file[c.of].stamp => c.content = file[c.of].content
    /\ c.content = "trusted" => c.seen = "trusted"

CheckInv == \A t \in Threads : CheckOK(check[t])

FilesInv == FileType /\ StampInv /\ CheckInv /\ RememberedIsTrue

Uploads == [kind : {"none", "whisper", "parakeet"}, replace : BOOLEAN, sized : BOOLEAN, written : Nat]
Parts == [bytes : Seq(Nat), sent : Nat, accepted : BOOLEAN, late : BOOLEAN]
Installs == [at : {"idle", "replace", "rename", "extract", "backup", "promote"}, replace : BOOLEAN]
PackageStates == [target : {"none", "whole"}, backup : {"none", "whole"},
                  staging : {"none", "whole"}, cut : BOOLEAN]

UploadType ==
    /\ upload \in Uploads /\ piece \in Parts /\ install \in Installs /\ package \in PackageStates
    /\ everInstalled \subseteq {"whisper", "parakeet"}
    /\ disturbed \subseteq {"whisper", "parakeet"}

\* What is being installed is whole, or its import was disturbed.
InstallInv ==
    /\ upload # NoUpload => upload.kind # "none"
    /\ install.at \in {"replace", "rename"} =>
           \/ upload = NoUpload /\ "whisper" \in disturbed
           \/ /\ upload.kind = "whisper" /\ piece.accepted
              /\ piece.bytes = Whole \/ (piece.late /\ "whisper" \in disturbed)
    /\ install.at \in {"extract", "backup", "promote"} => upload.kind # "whisper"
    /\ install.at = "promote" => package.target = "none"

\* A Whisper model that is gone is still there as the accepted part.
WhisperInv ==
    "whisper" \in everInstalled \ disturbed /\ file["managed"] = NoFile =>
        upload.kind = "whisper" /\ piece.bytes = Whole /\ piece.accepted

\* A Parakeet package is gone only while another is put in its place or after
\* that was cut short.
ParakeetInv ==
    "parakeet" \in everInstalled \ disturbed /\ package.target = "none" =>
        package.cut \/ (install.at = "promote" /\ package.backup # "none")

InstallationInv == UploadType /\ InstallInv /\ WhisperInv /\ ParakeetInv

ModelInv == FilesInv /\ InstallationInv /\ UsedIsTrusted

-----------------------------------------------------------------------------
(* Steps of a verification                                                 *)

Looking(f) == [Resting EXCEPT !.pc = "look", !.of = f]

LEMMA FreshChecks ==
    /\ Resting \in Checks /\ CheckOK(Resting)
    /\ \A f \in Names : Looking(f) \in Checks /\ CheckOK(Looking(f))
BY DEF Resting, Looking, Checks, CheckOK, Steps, Contents

LEMMA CheckStep ==
    ASSUME FilesInv, NEW t \in Threads, NEW c \in Checks, CheckOK(c),
           check' = [check EXCEPT ![t] = c], UNCHANGED <<file, known, stamps>>
    PROVE  FilesInv'
<1>1. FileType'
  BY DEF FilesInv, FileType
<1>2. CheckInv'
  <2> SUFFICES ASSUME NEW u \in Threads PROVE CheckOK(check[u])'
    BY DEF CheckInv
  <2>1. check'[u] = c \/ check'[u] = check[u]
    BY DEF FilesInv, FileType
  <2> QED
    BY <2>1 DEF FilesInv, CheckInv, CheckOK
<1> QED
  BY <1>1, <1>2 DEF FilesInv, StampInv, RememberedIsTrue

LEMMA LookStep == ASSUME FilesInv, NEW t \in Threads, Look(t) PROVE FilesInv'
<1> DEFINE f == check[t].of
<1>1. check[t] \in Checks /\ CheckOK(check[t]) /\ f \in Names /\ check[t].content = "none"
  BY DEF FilesInv, FileType, CheckInv, CheckOK, Look
<1>2. /\ file[f] \in [content : Contents \cup {"none"}, stamp : Nat]
      /\ known[f] \in [content : Contents \cup {"none"}, stamp : Nat] /\ stamps \in Nat
  BY <1>1 DEF FilesInv, FileType
<1>3. /\ file[f].stamp <= stamps
      /\ file[f] # NoFile => file[f].stamp > 0 /\ file[f].content \in Contents
      /\ Remembered(f) => known[f].content = file[f].content
  BY <1>1 DEF FilesInv, StampInv, RememberedIsTrue, Remembered
<1>4. CASE ~ModelExists(f)
  <2> DEFINE c == [check[t] EXCEPT !.pc = "verdict"]
  <2>1. check' = [check EXCEPT ![t] = c] /\ UNCHANGED <<file, known, stamps>>
    BY <1>4 DEF Look
  <2>2. c \in Checks /\ CheckOK(c)
    BY <1>1 DEF Checks, Steps, CheckOK
  <2> HIDE DEF c
  <2> QED
    BY <2>1, <2>2, CheckStep
<1>5. CASE ModelExists(f) /\ Remembered(f)
  <2> DEFINE c == [check[t] EXCEPT !.pc = "verdict", !.content = known[f].content,
                                   !.seen = file[f].content]
  <2>1. check' = [check EXCEPT ![t] = c] /\ UNCHANGED <<file, known, stamps>>
    BY <1>5 DEF Look
  <2>2. c \in Checks /\ CheckOK(c)
    BY <1>1, <1>2, <1>3, <1>5 DEF Checks, Steps, CheckOK, Contents
  <2> HIDE DEF c
  <2> QED
    BY <2>1, <2>2, CheckStep
<1>6. CASE ModelExists(f) /\ ~Remembered(f)
  <2> DEFINE c == [check[t] EXCEPT !.pc = "hash", !.stamp = file[f].stamp]
  <2>1. check' = [check EXCEPT ![t] = c] /\ UNCHANGED <<file, known, stamps>>
    BY <1>6 DEF Look
  <2>2. file[f].stamp \in Nat /\ file[f].stamp \in 1..stamps
    BY <1>2, <1>3, <1>6 DEF ModelExists
  <2>3. c \in Checks
    BY <1>1, <2>2 DEF Checks, Steps
  <2>4. CheckOK(c)
    BY <1>1, <2>2 DEF Checks, CheckOK
  <2> HIDE DEF c
  <2> QED
    BY <2>1, <2>3, <2>4, CheckStep
<1> QED
  BY <1>4, <1>5, <1>6

LEMMA HashStep == ASSUME FilesInv, NEW t \in Threads, Hash(t) PROVE FilesInv'
<1> DEFINE f == check[t].of
<1>1. /\ check[t] \in Checks /\ CheckOK(check[t]) /\ f \in Names /\ check[t].pc = "hash"
      /\ check[t].stamp \in 1..stamps
  BY DEF FilesInv, FileType, CheckInv, CheckOK, Hash
<1>2. file[f] \in [content : Contents \cup {"none"}, stamp : Nat]
  BY <1>1 DEF FilesInv, FileType
<1>3. file[f] # NoFile => file[f].content \in Contents
  BY <1>1 DEF FilesInv, StampInv
<1>4. CASE ModelExists(f)
  <2> DEFINE c == [check[t] EXCEPT !.pc = "remember", !.content = file[f].content,
                                   !.seen = file[f].content]
  <2>1. check' = [check EXCEPT ![t] = c] /\ UNCHANGED <<file, known, stamps>>
    BY <1>4 DEF Hash
  <2>2. c \in Checks /\ CheckOK(c)
    BY <1>1, <1>2, <1>3, <1>4 DEF Checks, Steps, CheckOK, ModelExists
  <2> HIDE DEF c
  <2> QED
    BY <2>1, <2>2, CheckStep
<1>5. CASE ~ModelExists(f)
  <2> DEFINE c == [check[t] EXCEPT !.pc = "verdict", !.content = "unreadable"]
  <2>1. check' = [check EXCEPT ![t] = c] /\ UNCHANGED <<file, known, stamps>>
    BY <1>5 DEF Hash
  <2>2. c \in Checks /\ CheckOK(c)
    BY <1>1 DEF Checks, Steps, CheckOK
  <2> HIDE DEF c
  <2> QED
    BY <2>1, <2>2, CheckStep
<1> QED
  BY <1>4, <1>5

LEMMA RememberStep == ASSUME FilesInv, NEW t \in Threads, Remember(t) PROVE FilesInv'
<1> DEFINE f == check[t].of
           c == [check[t] EXCEPT !.pc = "verdict"]
           k == [content |-> check[t].content, stamp |-> check[t].stamp]
<1>1. /\ check[t] \in Checks /\ CheckOK(check[t]) /\ f \in Names
      /\ check[t].stamp \in 1..stamps /\ check[t].content \in Contents
      /\ check[t].stamp = file[f].stamp => check[t].content = file[f].content
  BY DEF FilesInv, FileType, CheckInv, CheckOK, Remember
<1>2. c \in Checks /\ CheckOK(c)
  BY <1>1 DEF Checks, Steps, CheckOK
<1>3. check' = [check EXCEPT ![t] = c] /\ UNCHANGED <<file, stamps>>
  BY <1>1 DEF Remember, FilesInv, FileType
<1>4. k \in [content : Contents \cup {"none"}, stamp : Nat] /\ stamps \in Nat
  BY <1>1 DEF FilesInv, FileType, Checks
<1>5. k.content = check[t].content /\ k.stamp = check[t].stamp
  OBVIOUS
<1>6. known' = [known EXCEPT ![f] = k] \/ known' = known
  BY DEF Remember
<1> HIDE DEF c, k
<1>7. CASE known' = known
  BY <1>2, <1>3, <1>7, CheckStep
<1>8. CASE known' = [known EXCEPT ![f] = k]
  <2>1. \A g \in Names : known'[g] = known[g] \/ (g = f /\ known'[g] = k)
    BY <1>8, <1>1 DEF FilesInv, FileType
  <2>2. FileType'
    BY <1>1, <1>2, <1>3, <1>4, <1>8 DEF FilesInv, FileType
  <2>3. StampInv'
    BY <2>1, <1>1, <1>3, <1>5 DEF FilesInv, StampInv
  <2>4. CheckInv'
    <3> SUFFICES ASSUME NEW u \in Threads PROVE CheckOK(check[u])'
      BY DEF CheckInv
    <3>1. check'[u] = c \/ check'[u] = check[u]
      BY <1>3 DEF FilesInv, FileType
    <3> QED
      BY <1>2, <1>3, <3>1 DEF FilesInv, CheckInv, CheckOK
  <2>5. RememberedIsTrue'
    BY <2>1, <1>1, <1>3, <1>5 DEF FilesInv, RememberedIsTrue
  <2> QED
    BY <2>2, <2>3, <2>4, <2>5 DEF FilesInv
<1> QED
  BY <1>6, <1>7, <1>8

\* A verdict ends a verification or begins the one of the bundled file.
LEMMA VerdictStep == ASSUME FilesInv, NEW t \in Threads, Verdict(t) PROVE FilesInv'
<1>1. \/ check' = [check EXCEPT ![t] = Resting]
      \/ check' = [check EXCEPT ![t] = Looking("bundled")]
  BY DEF Verdict, Begin, Looking
<1>2. UNCHANGED <<file, known, stamps>>
  BY DEF Verdict
<1> QED
  BY <1>1, <1>2, FreshChecks, CheckStep DEF Names

LEMMA BundledStep ==
    ASSUME FilesInv, BeginBackground \/ BackgroundVerdict \/ LiveModel
    PROVE  FilesInv'
<1>1. CASE BeginBackground
  <2>1. check' = [check EXCEPT !["background"] = Looking("bundled")]
    BY <1>1 DEF BeginBackground, Begin, Looking
  <2> QED
    BY <1>1, <2>1, FreshChecks, CheckStep DEF BeginBackground, Names, Threads
<1>2. CASE BackgroundVerdict
  BY <1>2, FreshChecks, CheckStep DEF BackgroundVerdict, Threads
<1>3. CASE LiveModel
  BY <1>3 DEF LiveModel, FilesInv, FileType, StampInv, CheckInv, CheckOK, RememberedIsTrue
<1> QED
  BY <1>1, <1>2, <1>3

-----------------------------------------------------------------------------
(* Steps that change the files                                             *)

\* A file that is written gets a stamp nothing was read or remembered at.
LEMMA NewFileStep ==
    ASSUME FilesInv, NEW f \in Names, NEW content \in Contents,
           file' = [file EXCEPT ![f] = NewFile(content)], stamps' = stamps + 1,
           known' = known,
           check' = check \/ (check' = [check EXCEPT !["request"] = Looking("managed")])
    PROVE  FilesInv'
<1> DEFINE n == NewFile(content)
<1>1. stamps \in Nat /\ n.content = content /\ n.stamp = stamps + 1
  BY DEF FilesInv, FileType, NewFile
<1>2. n \in [content : Contents \cup {"none"}, stamp : Nat]
  BY <1>1 DEF NewFile
<1>3. file' = [file EXCEPT ![f] = n]
  OBVIOUS
<1> HIDE DEF n
<1>4. \A g \in Names : file'[g] = file[g] \/ file'[g] = n
  BY <1>3 DEF FilesInv, FileType
<1>5. \A u \in Threads : check'[u] = check[u] \/ check'[u] = Looking("managed")
  BY DEF FilesInv, FileType
<1>6. \A u \in Threads : check'[u] \in Checks
  BY <1>5, FreshChecks DEF FilesInv, FileType, Names
<1>7. FileType'
  <2>1. check' \in [Threads -> Checks]
    BY FreshChecks DEF FilesInv, FileType, Names
  <2> QED
    BY <2>1, <1>1, <1>2, <1>3 DEF FilesInv, FileType
<1>8. \A g \in Names : /\ file[g].stamp \in Nat /\ file[g].stamp <= stamps
                       /\ known[g].stamp \in Nat
                       /\ known[g].content # "none" => known[g].stamp \in 1..stamps
  BY DEF FilesInv, FileType, StampInv
<1>9. StampInv'
  BY <1>1, <1>4, <1>8 DEF FilesInv, StampInv
<1>10. RememberedIsTrue'
  <2> SUFFICES ASSUME NEW g \in Names, known[g].content # "none",
                      known[g].stamp = file'[g].stamp
               PROVE  known[g].content = file'[g].content
    BY DEF RememberedIsTrue
  <2>1. file'[g] = file[g]
    BY <1>1, <1>4, <1>8
  <2> QED
    BY <2>1 DEF FilesInv, RememberedIsTrue
<1>11. CheckInv'
  <2> SUFFICES ASSUME NEW u \in Threads PROVE CheckOK(check[u])'
    BY DEF CheckInv
  <2>1. CASE check'[u] = Looking("managed")
    BY <2>1 DEF CheckOK, Looking, Resting, Names
  <2>2. CASE check'[u] = check[u]
    <3>1. CheckOK(check[u])
      BY DEF FilesInv, CheckInv
    <3>2. check[u].stamp \in Nat
      BY DEF FilesInv, FileType, Checks
    <3>3. check[u].pc \in {"hash", "remember"} => check[u].stamp \in 1..stamps'
      BY <1>1, <3>1 DEF CheckOK
    <3>4. ASSUME check[u].pc = "remember", check[u].stamp = file'[check[u].of].stamp
          PROVE  check[u].content = file'[check[u].of].content
      <4>1. check[u].of \in Names /\ check[u].stamp \in 1..stamps
        BY <3>1, <3>4 DEF CheckOK
      <4>2. file'[check[u].of] = file[check[u].of]
        BY <1>1, <1>4, <3>4, <4>1
      <4> QED
        BY <3>1, <3>4, <4>2 DEF CheckOK
    <3> QED
      BY <2>2, <3>1, <3>3, <3>4 DEF CheckOK
  <2> QED
    BY <1>5, <2>1, <2>2
<1> QED
  BY <1>7, <1>9, <1>10, <1>11 DEF FilesInv

\* A file that is removed leaves no stamp, and forgetting is always right.
LEMMA RemoveFileStep ==
    ASSUME FilesInv,
           \A f \in Names : file'[f] = file[f] \/ file'[f] = NoFile,
           \A f \in Names : known'[f] = known[f] \/ known'[f] = Unknown,
           file' \in [Names -> [content : Contents \cup {"none"}, stamp : Nat]],
           known' \in [Names -> [content : Contents \cup {"none"}, stamp : Nat]],
           check' \in [Threads -> Checks],
           \A t \in Threads : check'[t] = check[t] \/ check'[t] = Resting,
           stamps' = stamps
    PROVE  FilesInv'
<1>1. FileType'
  BY DEF FilesInv, FileType
<1>2. stamps \in Nat /\ NoFile.stamp = 0 /\ NoFile.content = "none" /\ Unknown.content = "none"
  BY DEF FilesInv, FileType, NoFile, Unknown
<1>3. StampInv'
  BY <1>2 DEF FilesInv, StampInv
<1>4. RememberedIsTrue'
  <2> SUFFICES ASSUME NEW g \in Names, known'[g].content # "none",
                      known'[g].stamp = file'[g].stamp
               PROVE  known'[g].content = file'[g].content
    BY DEF RememberedIsTrue
  <2>1. known'[g] = known[g]
    BY <1>2
  <2>2. known[g].stamp \in 1..stamps
    BY <2>1 DEF FilesInv, StampInv
  <2>3. file'[g] = file[g]
    BY <1>2, <2>1, <2>2
  <2> QED
    BY <2>1, <2>3 DEF FilesInv, RememberedIsTrue
<1>5. CheckInv'
  <2> SUFFICES ASSUME NEW u \in Threads PROVE CheckOK(check[u])'
    BY DEF CheckInv
  <2>1. CASE check'[u] = Resting
    BY <2>1 DEF CheckOK, Resting
  <2>2. CASE check'[u] = check[u]
    <3>1. CheckOK(check[u])
      BY DEF FilesInv, CheckInv
    <3>2. ASSUME check[u].pc = "remember", check[u].stamp = file'[check[u].of].stamp
          PROVE  check[u].content = file'[check[u].of].content
      <4>1. check[u].of \in Names /\ check[u].stamp \in 1..stamps
        BY <3>1, <3>2 DEF CheckOK
      <4>2. file'[check[u].of] = file[check[u].of]
        BY <1>2, <3>2, <4>1
      <4> QED
        BY <3>1, <3>2, <4>2 DEF CheckOK
    <3> QED
      BY <2>2, <3>1, <3>2 DEF CheckOK
  <2> QED
    BY <2>1, <2>2
<1> QED
  BY <1>1, <1>3, <1>4, <1>5 DEF FilesInv

-----------------------------------------------------------------------------
(* Steps of an import                                                      *)

\* Verifications and changes from outside leave an import alone.
LEMMA InstallationFrame ==
    ASSUME InstallationInv, UNCHANGED uploadVars,
           file'["managed"] = NoFile => file["managed"] = NoFile
    PROVE  InstallationInv'
BY DEF InstallationInv, uploadVars, UploadType, InstallInv, WhisperInv, ParakeetInv, Whole

LEMMA ImportStartStep ==
    ASSUME InstallationInv, NEW kind \in {"whisper", "parakeet"}, NEW replace \in BOOLEAN,
           NEW sized \in BOOLEAN, ImportStart(kind, replace, sized)
    PROVE  InstallationInv'
<1>1. /\ upload' \in Uploads /\ piece' \in Parts /\ upload'.kind # "none"
  BY DEF ImportStart, NoPart, Uploads, Parts
<1>2. /\ package' \in PackageStates
      /\ package'.target = package.target /\ package'.cut = package.cut
  BY DEF ImportStart, InstallationInv, UploadType, PackageStates
<1>3. /\ install.at = "idle" /\ UNCHANGED <<install, everInstalled, disturbed, file>>
      /\ upload.kind = "none"
  BY DEF ImportStart, fileVars, NoUpload, Idle
<1>4. UploadType' /\ InstallInv'
  BY <1>1, <1>2, <1>3 DEF InstallationInv, UploadType, InstallInv
<1>5. WhisperInv' /\ ParakeetInv'
  BY <1>2, <1>3 DEF InstallationInv, WhisperInv, ParakeetInv
<1> QED
  BY <1>4, <1>5 DEF InstallationInv

\* A chunk after the part was accepted disturbs its import.
LEMMA ImportChunkStep ==
    ASSUME InstallationInv, NEW counted \in BOOLEAN, ImportChunk(counted)
    PROVE  InstallationInv'
<1>1. UNCHANGED <<install, everInstalled, file, package>> /\ upload # NoUpload
  BY DEF ImportChunk, fileVars
<1>2. upload' \in Uploads /\ upload'.kind = upload.kind /\ upload.kind \in {"whisper", "parakeet"}
  BY DEF ImportChunk, InstallationInv, UploadType, InstallInv, Uploads
<1>3. /\ piece' \in Parts /\ piece'.accepted = piece.accepted
      /\ piece.accepted => piece'.late
  <2>1. piece.sent + 1 \in Nat /\ Append(piece.bytes, piece.sent + 1) \in Seq(Nat)
    BY DEF InstallationInv, UploadType, Parts
  <2>2. piece \in Parts
    BY DEF InstallationInv, UploadType
  <2>3. piece' = [piece EXCEPT !.bytes = Append(piece.bytes, piece.sent + 1),
                               !.late = piece.late \/ piece.accepted,
                               !.sent = IF counted THEN piece.sent + 1 ELSE piece.sent]
    BY DEF ImportChunk
  <2> QED
    BY <2>1, <2>2, <2>3 DEF Parts
<1>4. /\ disturbed \subseteq disturbed' /\ disturbed' \subseteq {"whisper", "parakeet"}
      /\ piece.accepted => upload.kind \in disturbed'
  BY <1>2 DEF ImportChunk, InstallationInv, UploadType
<1>5. UploadType'
  BY <1>1, <1>2, <1>3, <1>4 DEF InstallationInv, UploadType
<1>6. InstallInv'
  BY <1>1, <1>2, <1>3, <1>4 DEF InstallationInv, InstallInv
<1>7. WhisperInv' /\ ParakeetInv'
  BY <1>1, <1>2, <1>4 DEF InstallationInv, WhisperInv, ParakeetInv
<1> QED
  BY <1>5, <1>6, <1>7 DEF InstallationInv

LEMMA CleanedUp ==
    ASSUME CleanUp
    PROVE  upload' \in Uploads /\ piece' \in Parts /\ upload' = NoUpload /\ upload'.kind = "none"
BY DEF CleanUp, NoUpload, NoPart, Uploads, Parts

LEMMA AbortStep == ASSUME InstallationInv, Abort PROVE InstallationInv'
<1>1. /\ UNCHANGED <<install, everInstalled, file>> /\ CleanUp
      /\ package' = [package EXCEPT !.staging = "none"]
      /\ disturbed' = disturbed \cup {kind \in {"whisper", "parakeet"} : ~SafeFromAbort(kind)}
  BY DEF Abort, fileVars
<1>2. /\ disturbed \subseteq disturbed' /\ disturbed' \subseteq {"whisper", "parakeet"}
      /\ "whisper" \notin disturbed' =>
             file["managed"] # NoFile /\ install.at \notin {"replace", "rename"}
      /\ "parakeet" \notin disturbed' =>
             package.target # "none" \/ (install.at = "promote" /\ package.backup # "none")
  BY <1>1 DEF InstallationInv, UploadType, SafeFromAbort, Installed, ModelExists
<1>3. /\ package' \in PackageStates /\ package'.target = package.target
      /\ package'.backup = package.backup /\ package'.cut = package.cut
  BY <1>1 DEF InstallationInv, UploadType, PackageStates
<1>4. UploadType' /\ InstallInv'
  BY <1>1, <1>2, <1>3, CleanedUp DEF InstallationInv, UploadType, InstallInv
<1>5. WhisperInv' /\ ParakeetInv'
  BY <1>1, <1>2, <1>3 DEF InstallationInv, WhisperInv, ParakeetInv
<1> QED
  BY <1>4, <1>5 DEF InstallationInv

LEMMA FinishStep == ASSUME InstallationInv, Finish PROVE InstallationInv'
<1>1. /\ install = Idle /\ install.at = "idle" /\ UNCHANGED <<everInstalled, disturbed, file, package>>
      /\ upload # NoUpload
  BY DEF Finish, Complete, fileVars, Idle
<1>2. CASE Accepted
  <2>1. /\ upload' = upload /\ piece' = [piece EXCEPT !.accepted = TRUE]
        /\ install' = [at |-> IF upload.kind = "whisper" THEN "replace" ELSE "extract",
                       replace |-> upload.replace]
    BY <1>2 DEF Finish
  <2>2. piece' \in Parts /\ piece'.accepted /\ piece'.bytes = Whole
    BY <1>2, <2>1 DEF InstallationInv, UploadType, Accepted, Parts
  <2>3. upload.kind \in {"whisper", "parakeet"} /\ upload.replace \in BOOLEAN
    BY <1>1 DEF InstallationInv, UploadType, InstallInv, Uploads
  <2>4. /\ install' \in Installs
        /\ install'.at = IF upload.kind = "whisper" THEN "replace" ELSE "extract"
    BY <2>1, <2>3 DEF Installs
  <2>5. Whole' = Whole
    BY DEF Whole
  <2> QED
    BY <1>1, <2>1, <2>2, <2>3, <2>4, <2>5
       DEF InstallationInv, UploadType, InstallInv, WhisperInv, ParakeetInv
<1>3. CASE ~Accepted
  <2>1. CleanUp /\ install' = install
    BY <1>3 DEF Finish
  <2>2. "whisper" \in everInstalled \ disturbed => file["managed"] # NoFile
    BY <1>3 DEF Accepted, InstallationInv, WhisperInv
  <2> QED
    BY <1>1, <2>1, <2>2, CleanedUp DEF InstallationInv, UploadType, InstallInv, WhisperInv, ParakeetInv
<1> QED
  BY <1>2, <1>3

LEMMA Idles == Idle \in Installs /\ Idle.at = "idle"
BY DEF Idle, Installs

LEMMA Proceeds ==
    ASSUME InstallationInv, NEW at \in {"rename", "backup", "promote"}, NextStep(at)
    PROVE  install' \in Installs /\ install'.at = at
BY DEF NextStep, InstallationInv, UploadType, Installs

LEMMA RemoveOldStep ==
    ASSUME FilesInv, InstallationInv, RemoveOld
    PROVE  FilesInv' /\ InstallationInv'
<1>1. /\ install.at = "replace"
      /\ UNCHANGED <<check, stamps, upload, piece, package, everInstalled, disturbed>>
  BY DEF RemoveOld
<1>2. /\ \/ file' = file \/ file' = [file EXCEPT !["managed"] = NoFile]
      /\ \/ known' = known \/ known' = [known EXCEPT !["managed"] = Unknown]
  BY DEF RemoveOld
<1>3. install' \in Installs /\ install'.at \in {"idle", "rename"}
  BY Idles, Proceeds DEF RemoveOld
<1>4. FilesInv'
  <2>1. NoFile \in [content : Contents \cup {"none"}, stamp : Nat]
    BY DEF NoFile
  <2>2. Unknown \in [content : Contents \cup {"none"}, stamp : Nat]
    BY DEF Unknown
  <2>3. /\ file' \in [Names -> [content : Contents \cup {"none"}, stamp : Nat]]
        /\ \A f \in Names : file'[f] = file[f] \/ file'[f] = NoFile
    BY <1>2, <2>1 DEF FilesInv, FileType
  <2>4. /\ known' \in [Names -> [content : Contents \cup {"none"}, stamp : Nat]]
        /\ \A f \in Names : known'[f] = known[f] \/ known'[f] = Unknown
    BY <1>2, <2>2 DEF FilesInv, FileType
  <2>5. check' \in [Threads -> Checks] /\ \A t \in Threads : check'[t] = check[t]
    BY <1>1 DEF FilesInv, FileType
  <2>6. stamps' = stamps
    BY <1>1
  <2> QED
    BY <2>3, <2>4, <2>5, <2>6, RemoveFileStep
<1>5. UploadType'
  BY <1>1, <1>3 DEF InstallationInv, UploadType
<1>6. InstallInv' /\ WhisperInv'
  BY <1>1, <1>3 DEF InstallationInv, InstallInv, WhisperInv, Whole
<1>7. ParakeetInv'
  BY <1>1, <1>3 DEF InstallationInv, ParakeetInv
<1> QED
  BY <1>4, <1>5, <1>6, <1>7 DEF InstallationInv

\* What is renamed is the accepted part unless a chunk came late.
LEMMA RenamePartStep ==
    ASSUME FilesInv, InstallationInv, RenamePart, UsedIsTrusted
    PROVE  FilesInv' /\ InstallationInv' /\ UsedIsTrusted'
<1> DEFINE content == IF piece.bytes = Whole THEN "trusted" ELSE "other"
<1>1. /\ install.at = "rename" /\ install' = Idle /\ package' = package /\ known' = known
  BY DEF RenamePart
<1>2. CASE UNCHANGED <<file, everInstalled, disturbed, stamps, upload, piece, check, used>>
  <2>1. FilesInv' /\ UsedIsTrusted'
    BY <1>1, <1>2 DEF FilesInv, FileType, StampInv, CheckInv, CheckOK, RememberedIsTrue, UsedIsTrusted
  <2>2. UploadType'
    BY <1>1, <1>2, Idles DEF InstallationInv, UploadType
  <2>3. InstallInv' /\ WhisperInv'
    BY <1>1, <1>2, Idles DEF InstallationInv, InstallInv, WhisperInv, Whole
  <2>4. ParakeetInv'
    BY <1>1, <1>2 DEF InstallationInv, ParakeetInv
  <2> QED
    BY <2>1, <2>2, <2>3, <2>4 DEF InstallationInv
<1>3. CASE ~UNCHANGED <<file, everInstalled, disturbed, stamps, upload, piece, check, used>>
  <2>1. /\ upload # NoUpload
        /\ stamps' = stamps + 1 /\ file' = [file EXCEPT !["managed"] = NewFile(content)]
        /\ used' = [via |-> IF piece.late THEN "late-import" ELSE "import", content |-> content]
        /\ check' = [check EXCEPT !["request"] = Looking("managed")]
        /\ everInstalled' = everInstalled \cup {"whisper"} /\ disturbed' = disturbed \ {"whisper"}
        /\ CleanUp
    BY <1>1, <1>3 DEF RenamePart, Give, Begin, Looking
  <2>2. content \in Contents
    BY DEF Contents
  <2>3. piece.late \/ content = "trusted"
    BY <1>1, <2>1 DEF InstallationInv, InstallInv
  <2>4. UsedIsTrusted'
    BY <2>1, <2>3 DEF UsedIsTrusted
  <2>5. FilesInv'
    <3> HIDE DEF content
    <3> QED
      BY <1>1, <2>1, <2>2, NewFileStep DEF Names
  <2>6. file'["managed"] # NoFile
    <3>1. file'["managed"] = NewFile(content)
      BY <2>1 DEF FilesInv, FileType, Names
    <3>2. NewFile(content).content = content /\ NoFile.content = "none"
      BY DEF NewFile, NoFile
    <3> QED
      BY <2>2, <3>1, <3>2 DEF Contents
  <2>7. UploadType'
    BY <1>1, <2>1, CleanedUp, Idles DEF InstallationInv, UploadType
  <2>8. InstallInv' /\ WhisperInv'
    BY <1>1, <2>1, <2>6, Idles DEF CleanUp, InstallInv, WhisperInv
  <2>9. ParakeetInv'
    BY <1>1, <2>1 DEF InstallationInv, ParakeetInv
  <2> QED
    BY <2>4, <2>5, <2>7, <2>8, <2>9 DEF InstallationInv
<1> QED
  BY <1>2, <1>3

LEMMA ExtractStep == ASSUME InstallationInv, Extract PROVE InstallationInv'
<1>1. /\ install.at = "extract" /\ UNCHANGED <<everInstalled, disturbed, file>>
      /\ upload.kind # "whisper"
  BY DEF Extract, fileVars, InstallationInv, InstallInv
<1>2. \/ /\ package' = [package EXCEPT !.staging = "whole"] /\ NextStep("backup")
         /\ UNCHANGED <<upload, piece>>
      \/ package' = [package EXCEPT !.staging = "none"] /\ install' = Idle /\ CleanUp
  BY DEF Extract
<1>3. /\ package' \in PackageStates
      /\ package'.target = package.target /\ package'.cut = package.cut
  BY <1>2 DEF InstallationInv, UploadType, PackageStates
<1>4. install' \in Installs /\ install'.at \in {"idle", "backup"}
  BY <1>2, Idles, Proceeds
<1>5. /\ upload' \in Uploads /\ piece' \in Parts /\ upload'.kind # "whisper"
      /\ upload' # NoUpload => upload'.kind # "none"
  BY <1>1, <1>2, CleanedUp DEF InstallationInv, UploadType, InstallInv
<1>6. UploadType' /\ InstallInv'
  BY <1>1, <1>3, <1>4, <1>5 DEF InstallationInv, UploadType, InstallInv
<1>7. WhisperInv' /\ ParakeetInv'
  BY <1>1, <1>3 DEF InstallationInv, WhisperInv, ParakeetInv
<1> QED
  BY <1>6, <1>7 DEF InstallationInv

\* The version set aside before is dropped only after a cut.
LEMMA SetAsideStep == ASSUME InstallationInv, SetAside PROVE InstallationInv'
<1>1. /\ install.at = "backup" /\ UNCHANGED <<upload, piece, everInstalled, disturbed, file>>
  BY DEF SetAside, fileVars
<1>2. \/ /\ package' = [package EXCEPT !.backup = package.target, !.target = "none"]
         /\ NextStep("promote")
      \/ /\ package' = [package EXCEPT !.backup = "none", !.staging = "none"]
         /\ install' = Idle /\ package.target # "none"
  BY DEF SetAside
<1>3. /\ install' \in Installs /\ install'.at \in {"idle", "promote"} /\ package' \in PackageStates
      /\ package'.cut = package.cut
      /\ install'.at = "promote" => package'.target = "none" /\ package'.backup = package.target
      /\ install'.at = "idle" => package'.target # "none"
  BY <1>2, Idles, Proceeds DEF InstallationInv, UploadType, PackageStates
<1>4. UploadType' /\ InstallInv'
  BY <1>1, <1>3 DEF InstallationInv, UploadType, InstallInv
<1>5. WhisperInv'
  BY <1>1 DEF InstallationInv, WhisperInv, Whole
<1>6. ParakeetInv'
  BY <1>1, <1>3 DEF InstallationInv, ParakeetInv
<1> QED
  BY <1>4, <1>5, <1>6 DEF InstallationInv

LEMMA PromoteStep == ASSUME InstallationInv, Promote PROVE InstallationInv'
<1>1. /\ install.at = "promote" /\ install' = Idle /\ file' = file
      /\ upload.kind # "whisper" /\ package.target = "none"
  BY DEF Promote, fileVars, InstallationInv, InstallInv
<1>2. CASE /\ package.staging # "none"
           /\ package' = [package EXCEPT !.target = package.staging, !.backup = "none",
                                         !.staging = "none", !.cut = FALSE]
           /\ everInstalled' = everInstalled \cup {"parakeet"} /\ disturbed' = disturbed \ {"parakeet"}
           /\ CleanUp
  <2>1. package' \in PackageStates /\ package'.target # "none"
    BY <1>2 DEF InstallationInv, UploadType, PackageStates
  <2>2. UploadType' /\ InstallInv'
    BY <1>1, <1>2, <2>1, CleanedUp, Idles DEF InstallationInv, UploadType, InstallInv
  <2>3. WhisperInv' /\ ParakeetInv'
    BY <1>1, <1>2, <2>1 DEF InstallationInv, WhisperInv, ParakeetInv
  <2> QED
    BY <2>2, <2>3 DEF InstallationInv
<1>3. CASE /\ \/ package' = [package EXCEPT !.target = package.backup, !.backup = "none", !.staging = "none"]
              \/ package' = [package EXCEPT !.staging = "none", !.cut = TRUE]
           /\ UNCHANGED <<upload, piece, everInstalled, disturbed>>
  <2>1. /\ package' \in PackageStates
        /\ package'.cut \/ (package'.target = package.backup /\ package'.cut = package.cut)
    BY <1>3 DEF InstallationInv, UploadType, PackageStates
  <2>2. UploadType' /\ InstallInv'
    BY <1>1, <1>3, <2>1, Idles DEF InstallationInv, UploadType, InstallInv
  <2>3. WhisperInv'
    BY <1>1, <1>3 DEF InstallationInv, WhisperInv, Whole
  <2>4. ParakeetInv'
    BY <1>1, <1>3, <2>1 DEF InstallationInv, ParakeetInv
  <2> QED
    BY <2>2, <2>3, <2>4 DEF InstallationInv
<1> QED
  BY <1>2, <1>3 DEF Promote

LEMMA ModelRestartStep ==
    ASSUME FilesInv, InstallationInv, ModelRestart
    PROVE  FilesInv' /\ InstallationInv'
<1>1. /\ install' = Idle /\ UNCHANGED <<file, stamps, upload, piece, everInstalled, disturbed>>
      /\ package' = [package EXCEPT !.cut = package.cut \/ install.at = "promote"]
      /\ known' = [known EXCEPT !["bundled"] = Unknown] /\ check' = [t \in Threads |-> Resting]
  BY DEF ModelRestart
<1>2. /\ package' \in PackageStates /\ package'.target = package.target
      /\ package.cut \/ install.at = "promote" => package'.cut
  BY <1>1 DEF InstallationInv, UploadType, PackageStates
<1>3. FilesInv'
  <2>1. Unknown \in [content : Contents \cup {"none"}, stamp : Nat]
    BY DEF Unknown
  <2>2. /\ known' \in [Names -> [content : Contents \cup {"none"}, stamp : Nat]]
        /\ \A f \in Names : known'[f] = known[f] \/ known'[f] = Unknown
    BY <1>1, <2>1 DEF FilesInv, FileType
  <2>3. check' \in [Threads -> Checks] /\ \A t \in Threads : check'[t] = Resting
    BY <1>1, FreshChecks
  <2>4. /\ file' \in [Names -> [content : Contents \cup {"none"}, stamp : Nat]]
        /\ \A f \in Names : file'[f] = file[f]
        /\ stamps' = stamps
    BY <1>1 DEF FilesInv, FileType
  <2> QED
    BY <2>2, <2>3, <2>4, RemoveFileStep
<1>4. UploadType' /\ InstallInv'
  BY <1>1, <1>2, Idles DEF InstallationInv, UploadType, InstallInv
<1>5. WhisperInv' /\ ParakeetInv'
  BY <1>1, <1>2 DEF InstallationInv, WhisperInv, ParakeetInv, Whole
<1> QED
  BY <1>3, <1>4, <1>5 DEF InstallationInv

-----------------------------------------------------------------------------
(* The invariant and the theorem                                           *)

ModelVars == <<fileVars, uploadVars>>

\* What a job or a live transcript is given was seen to be trusted.
LEMMA UsedStep ==
    ASSUME ModelInv, (\E t \in Threads : Verdict(t)) \/ LiveModel
    PROVE  UsedIsTrusted'
<1>1. ASSUME NEW t \in Threads, Verdict(t) PROVE UsedIsTrusted'
  <2>1. check[t].content = "trusted" => check[t].seen = "trusted"
    BY DEF ModelInv, FilesInv, CheckInv, CheckOK
  <2>2. used' = used \/ (check[t].content = "trusted" /\ used' = [via |-> "job", content |-> check[t].seen])
    BY <1>1 DEF Verdict, Give
  <2> QED
    BY <2>1, <2>2 DEF ModelInv, UsedIsTrusted
<1>2. CASE LiveModel
  <2>1. CASE /\ Remembered("managed") /\ known["managed"].content = "trusted"
             /\ Give("live-managed", file["managed"].content)
    BY <2>1 DEF ModelInv, FilesInv, RememberedIsTrue, Remembered, Names, Give, UsedIsTrusted
  <2>2. CASE Give("live-bundled", file["bundled"].content)
    BY <2>2 DEF Give, UsedIsTrusted
  <2> QED
    BY <1>2, <2>1, <2>2 DEF LiveModel
<1> QED
  BY <1>1, <1>2

LEMMA ModelInitial == ModelInit => ModelInv
<1> SUFFICES ASSUME ModelInit PROVE ModelInv
  OBVIOUS
<1>1. FileType
  <2>1. file \in [Names -> [content : Contents \cup {"none"}, stamp : Nat]]
    BY DEF ModelInit, NoFile, Contents
  <2>2. Unknown \in [content : Contents \cup {"none"}, stamp : Nat]
    BY DEF Unknown
  <2> QED
    BY <2>1, <2>2, FreshChecks DEF ModelInit, FileType
<1>2. StampInv
  BY DEF ModelInit, StampInv, NoFile, Unknown, Contents
<1>3. CheckInv
  BY FreshChecks DEF ModelInit, CheckInv
<1>4. RememberedIsTrue
  BY DEF ModelInit, RememberedIsTrue, Unknown
<1>5. InstallationInv
  <2> PICK target \in {"none", "whole"} :
           /\ package = [target |-> target, backup |-> "none", staging |-> "none", cut |-> FALSE]
           /\ everInstalled = {kind \in {"whisper", "parakeet"} :
                                  IF kind = "whisper" THEN file["managed"] # NoFile ELSE target # "none"}
    BY DEF ModelInit
  <2>1. UploadType
    BY Idles DEF ModelInit, UploadType, NoUpload, NoPart, Uploads, Parts, PackageStates
  <2>2. InstallInv
    BY Idles DEF ModelInit, InstallInv
  <2>3. WhisperInv /\ ParakeetInv
    BY DEF WhisperInv, ParakeetInv
  <2> QED
    BY <2>1, <2>2, <2>3 DEF InstallationInv
<1>6. UsedIsTrusted
  BY DEF ModelInit, UsedIsTrusted
<1> QED
  BY <1>1, <1>2, <1>3, <1>4, <1>5, <1>6 DEF ModelInv, FilesInv

LEMMA ModelStep == ModelInv /\ [ModelNext]_ModelVars => ModelInv'
<1> SUFFICES ASSUME ModelInv, [ModelNext]_ModelVars PROVE ModelInv'
  OBVIOUS
<1>0. FilesInv /\ InstallationInv /\ UsedIsTrusted
  BY DEF ModelInv
<1>1. CASE VerifyNext(Threads, {"job", "request"})
  <2>1. UNCHANGED uploadVars
    BY <1>1 DEF VerifyNext
  <2>2. ASSUME NEW t \in {"job", "request"}, BeginVerify(t) PROVE ModelInv'
    <3>1. check' = [check EXCEPT ![t] = Looking("managed")] /\ UNCHANGED <<file, known, used, stamps>>
      BY <2>2 DEF BeginVerify, Begin, Looking
    <3>2. FilesInv'
      BY <1>0, <3>1, FreshChecks, CheckStep DEF Names, Threads
    <3> QED
      BY <1>0, <2>1, <3>1, <3>2, InstallationFrame DEF ModelInv, UsedIsTrusted
  <2>3. ASSUME NEW t \in Threads, Look(t) \/ Hash(t) \/ Remember(t) PROVE ModelInv'
    <3>1. UNCHANGED <<file, used>>
      BY <2>3 DEF Look, Hash, Remember
    <3> QED
      BY <1>0, <2>1, <2>3, <3>1, LookStep, HashStep, RememberStep, InstallationFrame
         DEF ModelInv, UsedIsTrusted
  <2>4. ASSUME NEW t \in Threads, Verdict(t) PROVE ModelInv'
    BY <1>0, <2>1, <2>4, VerdictStep, UsedStep, InstallationFrame DEF ModelInv, Verdict
  <2> QED
    BY <1>1, <2>2, <2>3, <2>4 DEF VerifyNext
<1>2. CASE BundledFileNext
  <2>1. UNCHANGED uploadVars
    BY <1>2 DEF BundledFileNext
  <2>2. CASE BeginBackground \/ BackgroundVerdict
    <3>1. UNCHANGED <<file, used>>
      BY <2>2 DEF BeginBackground, BackgroundVerdict
    <3> QED
      BY <1>0, <2>1, <2>2, <3>1, BundledStep, InstallationFrame DEF ModelInv, UsedIsTrusted
  <2>3. CASE LiveModel
    BY <1>0, <2>1, <2>3, BundledStep, UsedStep, InstallationFrame DEF ModelInv, LiveModel
  <2>4. ASSUME NEW f \in Names, NEW content \in {"trusted", "other"}, Change(f, content)
        PROVE  ModelInv'
    <3>1. FilesInv'
      BY <1>0, <2>4, NewFileStep DEF Change, Contents
    <3>2. file'["managed"] = NoFile => file["managed"] = NoFile
      <4>1. file' = [file EXCEPT ![f] = NewFile(content)]
        BY <2>4 DEF Change
      <4>2. file'["managed"] = file["managed"] \/ file'["managed"] = NewFile(content)
        BY <1>0, <4>1 DEF FilesInv, FileType, Names
      <4>3. NewFile(content).content = content /\ NoFile.content = "none"
        BY DEF NewFile, NoFile
      <4> QED
        BY <4>2, <4>3
    <3> QED
      BY <1>0, <2>1, <2>4, <3>1, <3>2, InstallationFrame DEF ModelInv, Change, UsedIsTrusted
  <2> QED
    BY <1>2, <2>2, <2>3, <2>4 DEF BundledFileNext
<1>3. CASE ReplaceNext
  <2>1. CASE Finish
    <3>1. UNCHANGED fileVars
      BY <2>1 DEF Finish
    <3> QED
      BY <1>0, <2>1, <3>1, FinishStep DEF ModelInv, fileVars, FilesInv, FileType, StampInv,
         CheckInv, CheckOK, RememberedIsTrue, UsedIsTrusted
  <2>2. CASE RemoveOld
    BY <1>0, <2>2, RemoveOldStep DEF ModelInv, RemoveOld, UsedIsTrusted
  <2>3. CASE RenamePart
    BY <1>0, <2>3, RenamePartStep DEF ModelInv
  <2>4. CASE ModelRestart
    BY <1>0, <2>4, ModelRestartStep DEF ModelInv, ModelRestart, UsedIsTrusted
  <2> QED
    BY <1>3, <2>1, <2>2, <2>3, <2>4 DEF ReplaceNext
<1>4. CASE UploadNext
  <2>1. UNCHANGED fileVars
    BY <1>4 DEF UploadNext, ImportStart, ImportChunk, Abort, Extract, SetAside, Promote
  <2>2. FilesInv' /\ UsedIsTrusted'
    BY <1>0, <2>1 DEF fileVars, FilesInv, FileType, StampInv, CheckInv, CheckOK,
       RememberedIsTrue, UsedIsTrusted
  <2>3. InstallationInv'
    BY <1>0, <1>4, ImportStartStep, ImportChunkStep, AbortStep, ExtractStep, SetAsideStep,
       PromoteStep DEF UploadNext
  <2> QED
    BY <2>2, <2>3 DEF ModelInv
<1>5. CASE UNCHANGED ModelVars
  <2>1. UNCHANGED fileVars /\ UNCHANGED uploadVars
    BY <1>5 DEF ModelVars
  <2>2. FilesInv' /\ UsedIsTrusted'
    BY <1>0, <2>1 DEF fileVars, FilesInv, FileType, StampInv, CheckInv, CheckOK,
       RememberedIsTrue, UsedIsTrusted
  <2> QED
    BY <1>0, <2>1, <2>2, InstallationFrame DEF ModelInv, fileVars
<1> QED
  BY <1>1, <1>2, <1>3, <1>4, <1>5 DEF ModelNext

\* A model that an import installs, a job runs or a live transcript takes as
\* managed was verified as it is (verify_model_path, cached_sha256, import_finish
\* and its rename), unless a chunk was appended after the part was hashed; a
\* remembered digest is never that of another file; and a replacement that no
\* abort or chunk disturbs leaves the old model or a whole new one, whatever
\* step fails and though files change and processes end during all of them,
\* but for a package whose old version was set aside when the process ended.
THEOREM ModelsAreSound == ModelSpec => []ModelsSound
<1>1. ModelInv => ModelsSound
  BY DEF ModelInv, FilesInv, InstallationInv, UploadType, InstallInv, WhisperInv, ParakeetInv,
     ModelsSound, ReplacementAtHand, Installed, ModelExists
<1> QED
  BY <1>1, ModelInitial, ModelStep, PTL DEF ModelSpec, ModelVars

-----------------------------------------------------------------------------
(* The jobs on a local model                                               *)

JobPcs ==
    {"attempt", "whisper", "parakeet", "finalize", "commit", "fact", "select", "status", "read",
     "config", "batch", "running", "delete", "error", "validate", "write", "complete", "identity",
     "heuristic", "save", "receipt", "done", "failed"}

\* A job that was submitted.
AiJob ==
    [kind : JobKinds, mode : {"llm", "heuristic"}, allowed : BOOLEAN,
     why : {"none", "done", "cancelled", "error", "runtime", "invalid"}, pc : JobPcs,
     parent : Nat, input : Nat, model : {"none", "bundled"}, batches : Nat, prompts : Nat,
     fallback : BOOLEAN, wrote : BOOLEAN,
     result : {"none", "raw", "reused", "bundled", "managed", "heuristic"}]

Revisions ==
    [kind : {"raw", "cleaned", "reviewed"}, of : Nat, parent : Nat, base : Nat, whole : BOOLEAN]

AiTypeOK ==
    /\ revisions \in Seq(Revisions)
    /\ current \in 1..Len(revisions) /\ cleaned \in 0..Len(revisions)
    /\ managed \in {"none", "model", "both"} /\ bundled \in {"sound", "broken"}
    /\ preference \in {"ask-first", "automatic", "never"}
    /\ cancelFlag \in BOOLEAN /\ child \in BOOLEAN
    /\ reviewing \in [pc : {"none", "shown", "apply"}, revision : Nat]
    /\ job \in AiJob \cup {NoJob}

\* What is committed: the selected revision is no cleaned one, and each names a
\* revision before it.
RevisionInv ==
    /\ revisions[current].kind # "cleaned"
    /\ cleaned # 0 => revisions[cleaned].kind = "cleaned"
    /\ \A i \in 1..Len(revisions) :
           /\ revisions[i].whole
           /\ revisions[i].kind # "raw" =>
                  /\ revisions[i].of = revisions[i].parent /\ revisions[i].parent = revisions[i].base
                  /\ revisions[i].parent \in 1..Len(revisions)
                  /\ revisions[revisions[i].parent].kind # "cleaned"

\* A receipt, or an answer about to be saved, made from input.
MarkedTruly(by, model, fallback, input) ==
    /\ by # "heuristic" => model = by
    /\ ~fallback => /\ by # "heuristic" /\ input \in 1..Len(revisions)
                    /\ revisions[input].kind = "cleaned"

ReceiptInv == \A r \in receipts : MarkedTruly(r.by, r.model, r.fallback, r.input)

\* While the model runs: the model that was identified, and the one that writes.
ModelPcs == {"config", "batch", "running", "delete", "error", "validate", "write", "complete", "identity"}

JobInv ==
    job # NoJob =>
    /\ job.pc \in {"finalize", "commit"} => job.batches = MaxBatches
    /\ job.pc = "heuristic" \/ job.result = "heuristic" => job.allowed
    /\ job.wrote => job.pc = "fact" \/ (job.pc \in {"done", "failed"} /\ job.why # "cancelled")
    /\ job.pc \in ModelPcs \cup {"read"} => job.model = "bundled"
    /\ job.pc \in {"write", "complete"} => job.kind = "cleanup"
    /\ job.pc = "identity" => job.kind # "cleanup"
    /\ job.pc \in ModelPcs /\ job.kind = "cleanup" => job.input = job.parent
    /\ job.pc \in ModelPcs /\ job.kind # "cleanup" =>
           (~job.fallback => job.input \in 1..Len(revisions) /\ revisions[job.input].kind = "cleaned")
    /\ job.pc \in ModelPcs \ {"config"} =>
           job.result = "bundled" \/ (job.result = "managed" /\ managed # "none")
    /\ job.pc \in {"save", "receipt"} => MarkedTruly(job.result, job.model, job.fallback, job.input)

\* The job list: a job that is listed as ended has ended, and one that was
\* cancelled before its last look at the flag is kept from storing anything.
LateStores == {"commit", "complete", "receipt", "fact"}

ListInv ==
    /\ outcome # "none" => job.pc \in {"done", "failed"}
    /\ outcome = "cancelled" => cancelFlag
    /\ job # NoJob /\ cancelFlag /\ ~late => ~job.wrote /\ job.pc \notin LateStores

\* The process and the prompt file of the job.
PromptInv ==
    /\ ChildOwned
    /\ job # NoJob =>
           /\ job.pc \in {"running", "delete"} => job.prompts = 1
           /\ job.pc = "error" /\ job.why # "invalid" => job.prompts = 0
           /\ job.pc \in JobPcs \ {"running", "delete", "error", "done", "failed"} => job.prompts = 0
           /\ job.pc = "done" /\ job.result \in {"bundled", "managed"} => job.prompts = 0

AiInv == AiTypeOK /\ RevisionInv /\ ReceiptInv /\ JobInv /\ PromptInv

-----------------------------------------------------------------------------
(* Lemmas                                                                  *)

\* What was committed stays.
Grows ==
    /\ Len(revisions) <= Len(revisions')
    /\ \A i \in 1..Len(revisions) : revisions'[i] = revisions[i]

LEMMA MarkKept ==
    ASSUME AiTypeOK, Grows, Len(revisions') \in Nat, NEW by, NEW model, NEW fallback, NEW input,
           MarkedTruly(by, model, fallback, input)
    PROVE  MarkedTruly(by, model, fallback, input)'
<1>1. Len(revisions) \in Nat
  BY DEF AiTypeOK
<1> QED
  BY <1>1 DEF MarkedTruly, Grows

\* A revision is appended.
LEMMA AppendKeeps ==
    ASSUME AiTypeOK, RevisionInv, ReceiptInv, NEW r \in Revisions,
           revisions' = Append(revisions, r), receipts' = receipts,
           r.whole, r.kind # "raw" => /\ r.of = r.parent /\ r.parent = r.base /\ r.parent = current,
           \/ current' = Len(revisions) + 1 /\ cleaned' = cleaned /\ r.kind # "cleaned"
           \/ current' = current /\ cleaned' = Len(revisions) + 1 /\ r.kind = "cleaned"
    PROVE  /\ revisions' \in Seq(Revisions) /\ Len(revisions') = Len(revisions) + 1
           /\ current' \in 1..Len(revisions') /\ cleaned' \in 0..Len(revisions')
           /\ Grows /\ RevisionInv' /\ ReceiptInv'
<1>1. Len(revisions) \in Nat /\ current \in 1..Len(revisions) /\ cleaned \in 0..Len(revisions)
  BY DEF AiTypeOK
<1>2. /\ revisions' \in Seq(Revisions) /\ Len(revisions') = Len(revisions) + 1
      /\ \A i \in 1..Len(revisions) : revisions'[i] = revisions[i]
      /\ revisions'[Len(revisions) + 1] = r
  BY DEF AiTypeOK
<1>3. Grows
  BY <1>1, <1>2 DEF Grows
<1>4. current' \in 1..Len(revisions') /\ cleaned' \in 0..Len(revisions')
  BY <1>1, <1>2
<1>5. revisions'[current'].kind # "cleaned" /\ (cleaned' # 0 => revisions'[cleaned'].kind = "cleaned")
  BY <1>1, <1>2 DEF RevisionInv
<1>6. ASSUME NEW i \in 1..Len(revisions')
      PROVE  /\ revisions'[i].whole
             /\ revisions'[i].kind # "raw" =>
                  /\ revisions'[i].of = revisions'[i].parent /\ revisions'[i].parent = revisions'[i].base
                  /\ revisions'[i].parent \in 1..Len(revisions')
                  /\ revisions'[revisions'[i].parent].kind # "cleaned"
  <2>1. CASE i \in 1..Len(revisions)
    BY <1>1, <1>2, <2>1 DEF RevisionInv
  <2>2. CASE i = Len(revisions) + 1
    BY <1>1, <1>2, <2>2 DEF RevisionInv
  <2> QED
    BY <1>1, <1>2, <2>1, <2>2
<1>7. RevisionInv'
  BY <1>5, <1>6 DEF RevisionInv
<1>8. ReceiptInv'
  BY <1>1, <1>2, <1>3, MarkKept DEF ReceiptInv
<1> QED
  BY <1>2, <1>3, <1>4, <1>7, <1>8

\* A step of the job that stores nothing.
Private == UNCHANGED <<storeVars, environment, cancelFlag>>

LEMMA PrivateKeeps ==
    ASSUME AiInv, Private, job' \in AiJob \cup {NoJob}, child' \in BOOLEAN
    PROVE  AiTypeOK' /\ RevisionInv' /\ ReceiptInv'
BY DEF AiInv, Private, AiTypeOK, RevisionInv, ReceiptInv, MarkedTruly, storeVars, environment

-----------------------------------------------------------------------------
(* How a job ends                                                          *)

LEMMA EndStep ==
    ASSUME AiInv, job \in AiJob, job.pc # "running", NEW why \in {"cancelled", "error"}, End(why),
           job.wrote => why = "error", Private, child' = child
    PROVE  AiInv'
<1>1. job' = [job EXCEPT !.pc = "failed", !.why = why]
  BY DEF End
<1>2. job' \in AiJob /\ job'.pc = "failed" /\ job'.why = why /\ job'.wrote = job.wrote
      /\ job'.result = job.result /\ job'.allowed = job.allowed
  BY <1>1 DEF AiJob, JobPcs
<1>3. JobInv'
  BY <1>2 DEF AiInv, JobInv, ModelPcs, NoJob, AiJob
<1>4. PromptInv'
  BY <1>2 DEF AiInv, PromptInv, ChildOwned, NoJob, AiJob
<1> QED
  BY <1>2, <1>3, <1>4, PrivateKeeps DEF AiInv, AiTypeOK

LEMMA ModelErrorStep ==
    ASSUME AiInv, job \in AiJob, job.pc # "running", ~job.wrote,
           NEW code, ModelError(code),
           job.prompts = 0 \/ code = "invalid", Private, child' = child
    PROVE  AiInv'
<1>1. CASE \E why \in {"cancelled", "error"} : End(why)
  BY <1>1, EndStep
<1>2. CASE job' = [job EXCEPT !.pc = "done", !.why = "done", !.result = "raw"]
  <2>1. job' \in AiJob /\ job'.pc = "done" /\ job'.why = "done" /\ job'.result = "raw"
    BY <1>2 DEF AiJob, JobPcs
  <2>2. JobInv'
    BY <2>1 DEF AiInv, JobInv, ModelPcs, NoJob, AiJob
  <2>3. PromptInv'
    BY <2>1 DEF AiInv, PromptInv, ChildOwned, NoJob, AiJob
  <2> QED
    BY <2>1, <2>2, <2>3, PrivateKeeps DEF AiInv, AiTypeOK
<1>3. CASE Disclosed(code) /\ Goto("heuristic")
  <2>1. job' \in AiJob /\ job'.pc = "heuristic" /\ job'.wrote = FALSE /\ job'.allowed = TRUE
        /\ job'.prompts = 0
    BY <1>3 DEF AiJob, JobPcs, Goto, Disclosed, FallbackCodes
  <2>2. JobInv'
    BY <2>1 DEF AiInv, JobInv, ModelPcs, NoJob, AiJob
  <2>3. PromptInv'
    BY <2>1 DEF AiInv, PromptInv, ChildOwned, NoJob, AiJob
  <2> QED
    BY <2>1, <2>2, <2>3, PrivateKeeps DEF AiInv, AiTypeOK
<1> QED
  BY <1>1, <1>2, <1>3 DEF ModelError

\* The prompt file is gone, but for the steps around the run.
LEMMA NotYetWritten ==
    ASSUME AiInv, job # NoJob
    PROVE  /\ job \in AiJob
           /\ job.pc \notin {"fact", "done", "failed"} => ~job.wrote
           /\ job.pc \in JobPcs \ {"running", "delete", "error", "done", "failed"} => job.prompts = 0
BY DEF AiInv, AiTypeOK, JobInv, PromptInv

\* A step on to another program counter.
LEMMA PrivateStep ==
    ASSUME AiInv, Private, job' \in AiJob, child' \in BOOLEAN, JobInv', PromptInv'
    PROVE  AiInv'
BY PrivateKeeps DEF AiInv

\* A step that only moves the job on, before or after the run.
LEMMA GotoStep ==
    ASSUME AiInv, job \in AiJob, job.pc # "running", ~job.wrote, job.prompts = 0, Private,
           child' = child, NEW pc \in JobPcs \ {"running", "delete", "error", "done", "failed"}, Goto(pc),
           pc \in {"finalize", "commit"} => job.batches = MaxBatches,
           pc \notin {"heuristic", "read", "write", "identity"},
           pc = "complete" => job.pc = "write",
           pc \in ModelPcs => job.pc \in ModelPcs \ {"config"},
           pc \in {"save", "receipt"} => MarkedTruly(job.result, job.model, job.fallback, job.input)
    PROVE  AiInv'
<1>1. job' = [job EXCEPT !.pc = pc]
  BY DEF Goto
<1>2. /\ job' \in AiJob /\ job'.pc = pc /\ job'.prompts = 0 /\ job'.wrote = FALSE
      /\ job'.batches = job.batches /\ job'.result = job.result /\ job'.allowed = job.allowed
      /\ job'.model = job.model /\ job'.kind = job.kind /\ job'.input = job.input
      /\ job'.parent = job.parent /\ job'.fallback = job.fallback
  BY <1>1 DEF AiJob
<1>3. revisions' = revisions /\ managed' = managed
  BY DEF Private, storeVars, environment
<1>4. job # NoJob
  BY DEF AiJob, NoJob
<1>5. pc \in {"save", "receipt"} => MarkedTruly(job.result, job.model, job.fallback, job.input)'
  BY <1>2, <1>3 DEF MarkedTruly
<1>6. pc \in ModelPcs =>
         /\ job.model = "bundled" /\ (job.kind = "cleanup" => job.input = job.parent)
         /\ job.kind # "cleanup" =>
               (~job.fallback => job.input \in 1..Len(revisions) /\ revisions[job.input].kind = "cleaned")
         /\ job.result = "bundled" \/ (job.result = "managed" /\ managed # "none")
  BY <1>4 DEF AiInv, JobInv
<1>7. (job.result = "heuristic" => job.allowed) /\ (pc = "complete" => job.kind = "cleanup")
  BY <1>4 DEF AiInv, JobInv
<1>8. JobInv'
  BY <1>2, <1>3, <1>5, <1>6, <1>7 DEF JobInv
<1>9. PromptInv'
  BY <1>2 DEF AiInv, PromptInv, ChildOwned
<1> QED
  BY <1>2, <1>8, <1>9, PrivateStep DEF AiInv, AiTypeOK

LEMMA CheckedStep ==
    ASSUME AiInv, job \in AiJob, job.pc # "running", ~job.wrote, job.prompts = 0, Private,
           child' = child, NEW pc, Checked(pc, "cancelled"), Goto(pc) => AiInv'
    PROVE  AiInv'
<1>1. CASE End("cancelled")
  BY <1>1, EndStep
<1>2. CASE ModelError("cancelled")
  BY <1>2, ModelErrorStep
<1> QED
  BY <1>1, <1>2 DEF Checked

-----------------------------------------------------------------------------
(* The transcription                                                       *)

LEMMA AttemptStep ==
    ASSUME AiInv, Attempt
    PROVE  AiInv'
<1>1. job # NoJob
  BY DEF Attempt, NoJob
<1>2. job \in AiJob /\ ~job.wrote /\ job.prompts = 0 /\ job.pc = "attempt"
  BY <1>1, NotYetWritten DEF Attempt, JobPcs
<1>3. Private /\ child' = child
  BY DEF Attempt, Private
<1>4. ASSUME NEW pc \in {"whisper", "parakeet"}, Checked(pc, "cancelled")
      PROVE  AiInv'
  <2>1. Goto(pc) => AiInv'
    BY <1>2, <1>3, GotoStep DEF JobPcs, ModelPcs
  <2> QED
    BY <1>2, <1>3, <1>4, <2>1, CheckedStep
<1>5. CASE End("error")
  BY <1>2, <1>3, <1>5, EndStep
<1> QED
  BY <1>4, <1>5 DEF Attempt

LEMMA SegmentsStep ==
    ASSUME AiInv, WhisperTrack \/ ParakeetTrack
    PROVE  AiInv'
<1>1. job # NoJob
  BY DEF WhisperTrack, ParakeetTrack, NoJob
<1>2. job \in AiJob /\ ~job.wrote /\ job.prompts = 0 /\ job.pc \in {"whisper", "parakeet"}
  BY <1>1, NotYetWritten DEF WhisperTrack, ParakeetTrack, JobPcs
<1>3. Private /\ child' = child
  BY DEF WhisperTrack, ParakeetTrack, Private
<1>4. CASE Segment
  <2>1. /\ job' \in AiJob /\ job'.pc = job.pc /\ job'.prompts = 0 /\ job'.wrote = FALSE
        /\ job'.result = job.result /\ job'.allowed = job.allowed
    BY <1>2, <1>4 DEF Segment, AiJob
  <2>2. JobInv' /\ PromptInv'
    BY <1>1, <1>2, <1>3, <2>1 DEF AiInv, JobInv, ModelPcs, PromptInv, ChildOwned
  <2> QED
    BY <1>3, <2>1, <2>2, PrivateStep DEF AiInv, AiTypeOK
<1>5. CASE job' = [job EXCEPT !.pc = "finalize", !.batches = MaxBatches]
  <2>1. /\ job' \in AiJob /\ job'.pc = "finalize" /\ job'.prompts = 0 /\ job'.wrote = FALSE
        /\ job'.result = job.result /\ job'.allowed = job.allowed /\ job'.batches = MaxBatches
    BY <1>2, <1>5, AiConstants DEF AiJob, JobPcs
  <2>2. JobInv' /\ PromptInv'
    BY <1>1, <1>2, <1>3, <2>1 DEF AiInv, JobInv, ModelPcs, PromptInv, ChildOwned
  <2> QED
    BY <1>3, <2>1, <2>2, PrivateStep DEF AiInv, AiTypeOK
<1>6. CASE (cancelFlag \/ job.batches = MaxBatches) /\ Checked("finalize", "cancelled")
  <2>1. CASE job.batches = MaxBatches
    <3>1. Goto("finalize") => AiInv'
      BY <1>2, <1>3, <2>1, GotoStep DEF JobPcs, ModelPcs
    <3> QED
      BY <1>2, <1>3, <1>6, <3>1, CheckedStep
  <2>2. CASE cancelFlag
    <3>1. End("cancelled") \/ ModelError("cancelled")
      BY <1>6, <2>2 DEF Checked
    <3> QED
      BY <1>2, <1>3, <3>1, EndStep, ModelErrorStep
  <2> QED
    BY <1>6, <2>1, <2>2
<1>7. CASE \E why \in {"cancelled", "error"} : End(why)
  BY <1>2, <1>3, <1>7, EndStep
<1> QED
  BY <1>4, <1>5, <1>6, <1>7 DEF WhisperTrack, ParakeetTrack

LEMMA FinalizeStep ==
    ASSUME AiInv, Finalize
    PROVE  AiInv'
<1>1. job # NoJob
  BY DEF Finalize, NoJob
<1>2. job \in AiJob /\ ~job.wrote /\ job.prompts = 0 /\ job.pc = "finalize" /\ job.batches = MaxBatches
  BY <1>1, NotYetWritten DEF Finalize, JobPcs, AiInv, JobInv
<1>3. Private /\ child' = child
  BY DEF Finalize, Private
<1>4. Goto("commit") => AiInv'
  BY <1>2, <1>3, GotoStep DEF JobPcs, ModelPcs
<1> QED
  BY <1>2, <1>3, <1>4, CheckedStep DEF Finalize

LEMMA CommitStep ==
    ASSUME AiInv, Commit
    PROVE  AiInv'
<1>1. job # NoJob
  BY DEF Commit, NoJob
<1>2. job \in AiJob /\ ~job.wrote /\ job.prompts = 0 /\ job.pc = "commit" /\ job.batches = MaxBatches
  BY <1>1, NotYetWritten DEF Commit, JobPcs, AiInv, JobInv
<1>3. CASE End("error") /\ UNCHANGED storeVars
  <2>1. Private /\ child' = child
    BY <1>3 DEF Commit, Private
  <2> QED
    BY <1>2, <1>3, <2>1, EndStep
<1>4. CASE /\ CommitTranscript([Revision("raw", 0, 0) EXCEPT !.whole = (job.batches = MaxBatches)])
           /\ job' = [job EXCEPT !.pc = "fact", !.wrote = TRUE, !.result = "raw"]
  <2>1. current \in Nat
    BY DEF AiInv, AiTypeOK
  <2>2. PICK w : w = (job.batches = MaxBatches)
    OBVIOUS
  <2>3. w = TRUE
    BY <1>2, <2>2
  <2>4. PICK r : r = [kind |-> "raw", of |-> 0, parent |-> 0, base |-> current, whole |-> TRUE]
    OBVIOUS
  <2>5. [Revision("raw", 0, 0) EXCEPT !.whole = (job.batches = MaxBatches)]
          = [Revision("raw", 0, 0) EXCEPT !.whole = w]
    BY <2>2, Zenon
  <2>6. r \in Revisions /\ r.whole = TRUE /\ r.kind = "raw"
    BY <2>1, <2>4 DEF Revisions
  <2>7. [r EXCEPT !.whole = w] = r
    BY <2>3, <2>6 DEF Revisions
  <2>8. revisions' = Append(revisions, r) /\ current' = Len(revisions) + 1 /\ cleaned' = cleaned
        /\ receipts' = receipts
    BY <1>4, <2>4, <2>5, <2>7 DEF CommitTranscript, Revision
  <2>9. /\ revisions' \in Seq(Revisions) /\ current' \in 1..Len(revisions')
        /\ cleaned' \in 0..Len(revisions') /\ RevisionInv' /\ ReceiptInv'
    BY <2>6, <2>8, AppendKeeps DEF AiInv
  <2>10. /\ job' \in AiJob /\ job'.pc = "fact" /\ job'.prompts = 0 /\ job'.result = "raw"
    BY <1>2, <1>4 DEF AiJob, JobPcs
  <2>11. child' = child
    BY DEF Commit
  <2>12. JobInv' /\ PromptInv'
    BY <1>1, <1>2, <2>10, <2>11 DEF AiInv, JobInv, ModelPcs, PromptInv, ChildOwned
  <2>13. AiTypeOK'
    BY <2>9, <2>10, <2>11 DEF AiInv, AiTypeOK, Commit, environment
  <2> QED
    BY <2>9, <2>12, <2>13 DEF AiInv
<1> QED
  BY <1>3, <1>4 DEF Commit

LEMMA FactStep ==
    ASSUME AiInv, Fact
    PROVE  AiInv'
<1>1. job # NoJob
  BY DEF Fact, NoJob
<1>2. job \in AiJob /\ job.prompts = 0 /\ job.pc = "fact"
  BY <1>1, NotYetWritten DEF Fact, JobPcs
<1>3. Private /\ child' = child
  BY DEF Fact, Private
<1>4. CASE End("error")
  BY <1>2, <1>3, <1>4, EndStep
<1>5. CASE End("done")
  <2>1. /\ job' \in AiJob /\ job'.pc = "done" /\ job'.why = "done" /\ job'.prompts = 0
        /\ job'.result = job.result /\ job'.allowed = job.allowed
    BY <1>2, <1>5 DEF End, AiJob, JobPcs
  <2>2. JobInv' /\ PromptInv'
    BY <1>1, <1>2, <1>3, <2>1 DEF AiInv, JobInv, ModelPcs, PromptInv, ChildOwned
  <2> QED
    BY <1>3, <2>1, <2>2, PrivateStep DEF AiInv, AiTypeOK
<1> QED
  BY <1>4, <1>5 DEF Fact

-----------------------------------------------------------------------------
(* The model                                                               *)

LEMMA SelectInputStep ==
    ASSUME AiInv, SelectInput
    PROVE  AiInv'
<1>1. job # NoJob
  BY DEF SelectInput, NoJob
<1>2. job \in AiJob /\ ~job.wrote /\ job.prompts = 0 /\ job.pc = "select"
  BY <1>1, NotYetWritten DEF SelectInput, JobPcs
<1>3. Private /\ child' = child
  BY DEF SelectInput, Private
<1>4. current \in Nat
  BY DEF AiInv, AiTypeOK
<1>5. CASE job' = [job EXCEPT !.pc = "done", !.why = "done", !.result = "reused"]
  <2>1. job' \in AiJob /\ job'.pc = "done" /\ job'.why = "done" /\ job'.result = "reused"
    BY <1>2, <1>5 DEF AiJob, JobPcs
  <2>2. JobInv' /\ PromptInv'
    BY <1>2, <1>3, <2>1 DEF AiInv, JobInv, ModelPcs, PromptInv, ChildOwned
  <2> QED
    BY <1>3, <2>1, <2>2, PrivateStep DEF AiInv, AiTypeOK
<1>6. CASE job' = [job EXCEPT !.pc = "status", !.parent = current]
  <2>1. /\ job' \in AiJob /\ job'.pc = "status" /\ job'.prompts = 0 /\ job'.wrote = FALSE
        /\ job'.result = job.result /\ job'.allowed = job.allowed
    BY <1>2, <1>4, <1>6 DEF AiJob, JobPcs
  <2>2. JobInv' /\ PromptInv'
    BY <1>1, <1>2, <1>3, <2>1 DEF AiInv, JobInv, ModelPcs, PromptInv, ChildOwned
  <2> QED
    BY <1>3, <2>1, <2>2, PrivateStep DEF AiInv, AiTypeOK
<1> QED
  BY <1>5, <1>6 DEF SelectInput

LEMMA StatusStep ==
    ASSUME AiInv, Status
    PROVE  AiInv'
<1>1. job # NoJob
  BY DEF Status, NoJob
<1>2. job \in AiJob /\ ~job.wrote /\ job.prompts = 0 /\ job.pc = "status"
  BY <1>1, NotYetWritten DEF Status, JobPcs
<1>3. Private /\ child' = child
  BY DEF Status, Private
<1>4. CASE job' = [job EXCEPT !.pc = "read", !.model = "bundled"]
  <2>1. /\ job' \in AiJob /\ job'.pc = "read" /\ job'.prompts = 0 /\ job'.wrote = FALSE
        /\ job'.result = job.result /\ job'.allowed = job.allowed /\ job'.model = "bundled"
    BY <1>2, <1>4 DEF AiJob, JobPcs
  <2>2. JobInv' /\ PromptInv'
    BY <1>1, <1>2, <1>3, <2>1 DEF AiInv, JobInv, ModelPcs, PromptInv, ChildOwned
  <2> QED
    BY <1>3, <2>1, <2>2, PrivateStep DEF AiInv, AiTypeOK
<1>5. CASE ModelError("unavailable")
  BY <1>2, <1>3, <1>5, ModelErrorStep
<1>6. CASE End("error")
  BY <1>2, <1>3, <1>6, EndStep
<1> QED
  BY <1>4, <1>5, <1>6 DEF Status

LEMMA ReadInputStep ==
    ASSUME AiInv, ReadInput
    PROVE  AiInv'
<1>1. job # NoJob
  BY DEF ReadInput, NoJob
<1>2. /\ job \in AiJob /\ ~job.wrote /\ job.prompts = 0 /\ job.pc = "read" /\ job.model = "bundled"
      /\ job.result = "heuristic" => job.allowed
  BY <1>1, NotYetWritten DEF ReadInput, JobPcs, AiInv, JobInv
<1>3. Private /\ child' = child /\ revisions' = revisions
  BY DEF ReadInput, Private, storeVars
<1>4. /\ current \in Nat /\ cleaned \in Nat /\ Len(revisions) \in Nat
      /\ cleaned # 0 => cleaned \in 1..Len(revisions) /\ revisions[cleaned].kind = "cleaned"
  BY DEF AiInv, AiTypeOK, RevisionInv
<1>5. CASE ModelError("cancelled")
  BY <1>2, <1>3, <1>5, ModelErrorStep
<1>6. CASE job.kind = "cleanup" /\ job' = [job EXCEPT !.pc = "config", !.input = current, !.parent = current]
  <2>1. /\ job' \in AiJob /\ job'.pc = "config" /\ job'.prompts = 0 /\ job'.wrote = FALSE
        /\ job'.result = job.result /\ job'.allowed = job.allowed /\ job'.model = "bundled"
        /\ job'.input = job'.parent /\ job'.kind = "cleanup"
    BY <1>2, <1>4, <1>6 DEF AiJob, JobPcs
  <2>2. JobInv' /\ PromptInv'
    BY <1>2, <1>3, <2>1 DEF AiInv, JobInv, ModelPcs, PromptInv, ChildOwned
  <2> QED
    BY <1>3, <2>1, <2>2, PrivateStep DEF AiInv, AiTypeOK
<1>7. CASE job.kind # "cleanup"
           /\ job' = [job EXCEPT !.pc = "config", !.input = InputForAi, !.fallback = ~UsesCleaned]
  <2>1. PICK input, plain : input = InputForAi /\ plain = ~UsesCleaned
    OBVIOUS
  <2>2. input \in Nat /\ plain \in BOOLEAN
        /\ (~plain => input \in 1..Len(revisions) /\ revisions[input].kind = "cleaned")
    BY <1>4, <2>1 DEF InputForAi, UsesCleaned
  <2>3. job' = [job EXCEPT !.pc = "config", !.input = input, !.fallback = plain]
    BY <1>7, <2>1, Zenon
  <2>4. /\ job' \in AiJob /\ job'.pc = "config" /\ job'.prompts = 0 /\ job'.wrote = FALSE
        /\ job'.result = job.result /\ job'.allowed = job.allowed /\ job'.model = "bundled"
        /\ job'.input = input /\ job'.fallback = plain /\ job'.kind # "cleanup"
    BY <1>2, <1>7, <2>2, <2>3 DEF AiJob, JobPcs
  <2>5. JobInv' /\ PromptInv'
    BY <1>2, <1>3, <2>2, <2>4 DEF AiInv, JobInv, ModelPcs, PromptInv, ChildOwned
  <2> QED
    BY <1>3, <2>4, <2>5, PrivateStep DEF AiInv, AiTypeOK
<1> QED
  BY <1>5, <1>6, <1>7 DEF ReadInput

\* What is known of the model while it runs.
LEMMA WhileItRuns ==
    ASSUME AiInv, job # NoJob, job.pc \in ModelPcs
    PROVE  /\ job.model = "bundled" /\ (job.kind = "cleanup" => job.input = job.parent)
           /\ job.kind # "cleanup" =>
                 (~job.fallback => job.input \in 1..Len(revisions) /\ revisions[job.input].kind = "cleaned")
           /\ job.result = "heuristic" => job.allowed
           /\ job.pc # "config" => job.result = "bundled" \/ (job.result = "managed" /\ managed # "none")
           /\ job.pc \in {"write", "complete"} => job.kind = "cleanup"
           /\ job.pc = "identity" => job.kind # "cleanup"
BY DEF AiInv, JobInv

\* A step from one place of the run to another: the record keeps what the
\* model was given and who it is.
LEMMA RunStep ==
    ASSUME AiInv, job # NoJob, job.pc \in ModelPcs, Private, child' \in BOOLEAN,
           job' \in AiJob, job'.pc \in ModelPcs \ {"config", "complete"}, job'.wrote = FALSE,
           job'.kind = job.kind, job'.model = job.model, job'.input = job.input,
           job'.parent = job.parent, job'.fallback = job.fallback, job'.allowed = job.allowed,
           (job'.result = job.result /\ job.pc # "config") \/ job'.result = Generator,
           job'.pc = "write" => job.kind = "cleanup",
           job'.pc = "identity" => job.kind # "cleanup",
           child' => job'.pc = "running",
           job'.pc \in {"running", "delete"} => job'.prompts = 1,
           job'.pc = "error" => job'.why = "invalid" \/ job'.prompts = 0,
           job'.pc \notin {"running", "delete", "error"} => job'.prompts = 0
    PROVE  AiInv'
<1>1. revisions' = revisions /\ managed' = managed
  BY DEF Private, storeVars, environment
<1>2. job'.result = "bundled" \/ (job'.result = "managed" /\ managed # "none")
  BY WhileItRuns DEF Generator
<1>3. JobInv'
  BY <1>1, <1>2, WhileItRuns DEF JobInv, ModelPcs
<1>4. PromptInv'
  BY DEF PromptInv, ChildOwned, ModelPcs
<1> QED
  BY <1>3, <1>4, PrivateStep

LEMMA ConfigureStep ==
    ASSUME AiInv, Configure
    PROVE  AiInv'
<1>1. job # NoJob
  BY DEF Configure, NoJob
<1>2. job \in AiJob /\ ~job.wrote /\ job.prompts = 0 /\ job.pc = "config" /\ child = FALSE
  BY <1>1, NotYetWritten DEF Configure, JobPcs, AiInv, AiTypeOK, PromptInv, ChildOwned
<1>3. Private /\ child' = child
  BY DEF Configure, Private
<1>4. CASE ModelError("unavailable")
  BY <1>2, <1>3, <1>4, ModelErrorStep
<1>5. CASE job' = [job EXCEPT !.pc = "batch", !.result = Generator, !.batches = 0]
  <2>1. Generator \in {"bundled", "managed"}
    BY DEF Generator
  <2>2. /\ job' \in AiJob /\ job'.pc = "batch" /\ job'.prompts = 0 /\ job'.wrote = FALSE
        /\ job'.kind = job.kind /\ job'.model = job.model /\ job'.input = job.input
        /\ job'.parent = job.parent /\ job'.fallback = job.fallback /\ job'.allowed = job.allowed
        /\ job'.result = Generator
    BY <1>2, <1>5, <2>1 DEF AiJob, JobPcs
  <2> QED
    BY <1>1, <1>2, <1>3, <2>2, RunStep DEF ModelPcs
<1> QED
  BY <1>4, <1>5 DEF Configure

LEMMA WritePromptStep ==
    ASSUME AiInv, WritePrompt
    PROVE  AiInv'
<1>1. job # NoJob
  BY DEF WritePrompt, NoJob
<1>2. job \in AiJob /\ ~job.wrote /\ job.prompts = 0 /\ job.pc = "batch"
  BY <1>1, NotYetWritten DEF WritePrompt, JobPcs
<1>3. Private
  BY DEF WritePrompt, Private
<1>4. CASE ModelError("cancelled") /\ UNCHANGED child
  BY <1>2, <1>3, <1>4, ModelErrorStep
<1>5. CASE job' = [job EXCEPT !.pc = "running", !.prompts = @ + 1] /\ child' = TRUE
  <2>1. /\ job' \in AiJob /\ job'.pc = "running" /\ job'.prompts = 1 /\ job'.wrote = FALSE
        /\ job'.kind = job.kind /\ job'.model = job.model /\ job'.input = job.input
        /\ job'.parent = job.parent /\ job'.fallback = job.fallback /\ job'.allowed = job.allowed
        /\ job'.result = job.result
    <3>1. job' = [job EXCEPT !.pc = "running", !.prompts = 1]
      BY <1>2, <1>5
    <3> QED
      BY <1>2, <3>1 DEF AiJob, JobPcs
  <2> QED
    BY <1>1, <1>2, <1>3, <1>5, <2>1, RunStep DEF ModelPcs
<1> QED
  BY <1>4, <1>5 DEF WritePrompt

LEMMA RunEndsStep ==
    ASSUME AiInv, RunEnds
    PROVE  AiInv'
<1>1. job # NoJob
  BY DEF RunEnds, NoJob
<1>2. job \in AiJob /\ ~job.wrote /\ job.prompts = 1 /\ job.pc = "running"
  BY <1>1, NotYetWritten DEF RunEnds, AiInv, PromptInv
<1>3. Private
  BY DEF RunEnds, Private
<1>4. PICK code \in {"none", "runtime", "cancelled"} : Stopped(code)
  BY DEF RunEnds
<1>5. /\ job' \in AiJob /\ job'.pc = "delete" /\ job'.prompts = 1 /\ job'.wrote = FALSE
      /\ job'.kind = job.kind /\ job'.model = job.model /\ job'.input = job.input
      /\ job'.parent = job.parent /\ job'.fallback = job.fallback /\ job'.allowed = job.allowed
      /\ job'.result = job.result
  BY <1>2, <1>4 DEF AiJob, JobPcs, Stopped
<1>6. child' = FALSE
  BY <1>4 DEF Stopped
<1> QED
  BY <1>1, <1>2, <1>3, <1>5, <1>6, RunStep DEF ModelPcs

LEMMA DeletePromptStep ==
    ASSUME AiInv, DeletePrompt
    PROVE  AiInv'
<1>1. job # NoJob
  BY DEF DeletePrompt, NoJob
<1>2. job \in AiJob /\ ~job.wrote /\ job.prompts = 1 /\ job.pc = "delete" /\ child = FALSE
  BY <1>1, NotYetWritten DEF DeletePrompt, AiInv, AiTypeOK, PromptInv, ChildOwned
<1>3. Private /\ child' = child
  BY DEF DeletePrompt, Private
<1>4. PICK gone : gone = [job EXCEPT !.prompts = @ - 1, !.why = "none"]
  OBVIOUS
<1>5. /\ gone \in AiJob /\ gone.prompts = 0 /\ gone.wrote = FALSE
      /\ gone.kind = job.kind /\ gone.model = job.model /\ gone.input = job.input
      /\ gone.parent = job.parent /\ gone.fallback = job.fallback /\ gone.allowed = job.allowed
      /\ gone.result = job.result
  <2>1. gone = [job EXCEPT !.prompts = 0, !.why = "none"]
    BY <1>2, <1>4
  <2> QED
    BY <1>2, <2>1 DEF AiJob
<1>6. \/ job' = [gone EXCEPT !.pc = "validate"]
      \/ job' = [gone EXCEPT !.pc = "error", !.why = job.why]
      \/ job' = [job EXCEPT !.pc = "error", !.why = "invalid"]
  BY <1>4 DEF DeletePrompt
<1>7. /\ job' \in AiJob /\ job'.wrote = FALSE
      /\ job'.kind = job.kind /\ job'.model = job.model /\ job'.input = job.input
      /\ job'.parent = job.parent /\ job'.fallback = job.fallback /\ job'.allowed = job.allowed
      /\ job'.result = job.result
      /\ job'.pc \in {"validate", "error"} /\ (job'.pc = "validate" => job'.prompts = 0)
      /\ job'.pc = "error" => job'.why = "invalid" \/ job'.prompts = 0
  <2>1. CASE job' = [gone EXCEPT !.pc = "validate"]
    BY <1>5, <2>1 DEF AiJob, JobPcs
  <2>2. CASE job' = [gone EXCEPT !.pc = "error", !.why = job.why]
    BY <1>2, <1>5, <2>2 DEF AiJob, JobPcs
  <2>3. CASE job' = [job EXCEPT !.pc = "error", !.why = "invalid"]
    BY <1>2, <2>3 DEF AiJob, JobPcs
  <2> QED
    BY <1>6, <2>1, <2>2, <2>3
<1> QED
  BY <1>1, <1>2, <1>3, <1>7, RunStep DEF ModelPcs

LEMMA RunFailedStep ==
    ASSUME AiInv, RunFailed
    PROVE  AiInv'
<1>1. job # NoJob
  BY DEF RunFailed, NoJob
<1>2. job \in AiJob /\ ~job.wrote /\ job.pc = "error" /\ (job.why = "invalid" \/ job.prompts = 0)
  BY <1>1, NotYetWritten DEF RunFailed, AiInv, PromptInv
<1>3. Private /\ child' = child /\ ModelError(job.why)
  BY DEF RunFailed, Private
<1> QED
  BY <1>2, <1>3, ModelErrorStep

LEMMA ValidateStep ==
    ASSUME AiInv, Validate
    PROVE  AiInv'
<1>1. job # NoJob
  BY DEF Validate, NoJob
<1>2. job \in AiJob /\ ~job.wrote /\ job.prompts = 0 /\ job.pc = "validate" /\ child = FALSE
  BY <1>1, NotYetWritten DEF Validate, JobPcs, AiInv, AiTypeOK, PromptInv, ChildOwned
<1>3. Private /\ child' = child
  BY DEF Validate, Private
<1>4. CASE ModelError("invalid")
  BY <1>2, <1>3, <1>4, ModelErrorStep
<1>5. CASE job' = [job EXCEPT !.batches = @ + 1,
                    !.pc = IF job.batches + 1 < MaxBatches THEN "batch"
                           ELSE IF job.kind = "cleanup" THEN "write" ELSE "identity"]
  <2>1. PICK pc : pc = IF job.batches + 1 < MaxBatches THEN "batch"
                       ELSE IF job.kind = "cleanup" THEN "write" ELSE "identity"
    OBVIOUS
  <2>2. /\ pc \in {"batch", "write", "identity"} /\ (pc = "write" => job.kind = "cleanup")
        /\ pc = "identity" => job.kind # "cleanup"
    BY <2>1
  <2>3. \E n \in Nat : job' = [job EXCEPT !.batches = n, !.pc = pc]
    <3>1. job.batches + 1 \in Nat
      BY <1>2 DEF AiJob
    <3> QED
      BY <1>5, <2>1, <3>1
  <2>4. /\ job' \in AiJob /\ job'.wrote = FALSE /\ job'.pc = pc /\ job'.prompts = 0
        /\ job'.kind = job.kind /\ job'.model = job.model /\ job'.input = job.input
        /\ job'.parent = job.parent /\ job'.fallback = job.fallback /\ job'.allowed = job.allowed
        /\ job'.result = job.result
    BY <1>2, <2>2, <2>3 DEF AiJob, JobPcs
  <2> QED
    BY <1>1, <1>2, <1>3, <2>2, <2>4, RunStep DEF ModelPcs
<1> QED
  BY <1>4, <1>5 DEF Validate

-----------------------------------------------------------------------------
(* What the job stores                                                     *)

LEMMA WriteCleanupStep ==
    ASSUME AiInv, WriteCleanup
    PROVE  AiInv'
<1>1. job # NoJob
  BY DEF WriteCleanup, NoJob
<1>2. job \in AiJob /\ ~job.wrote /\ job.prompts = 0 /\ job.pc = "write"
  BY <1>1, NotYetWritten DEF WriteCleanup, JobPcs
<1>3. Private /\ child' = child
  BY DEF WriteCleanup, Private
<1>4. CASE ModelError("cancelled")
  BY <1>2, <1>3, <1>4, ModelErrorStep
<1>5. CASE Goto("complete")
  BY <1>2, <1>3, <1>5, GotoStep DEF JobPcs, ModelPcs
<1> QED
  BY <1>4, <1>5 DEF WriteCleanup

LEMMA CompleteCleanupStep ==
    ASSUME AiInv, CompleteCleanup
    PROVE  AiInv'
<1>1. job # NoJob
  BY DEF CompleteCleanup, NoJob
<1>2. /\ job \in AiJob /\ ~job.wrote /\ job.prompts = 0 /\ job.pc = "complete"
      /\ job.kind = "cleanup" /\ job.input = job.parent /\ (job.result = "heuristic" => job.allowed)
  BY <1>1, NotYetWritten, WhileItRuns DEF CompleteCleanup, JobPcs, ModelPcs
<1>3. CASE (\E code \in {"cancelled", "invalid"} : ModelError(code)) /\ UNCHANGED storeVars
  <2>1. Private /\ child' = child
    BY <1>3 DEF CompleteCleanup, Private
  <2> QED
    BY <1>2, <1>3, <2>1, ModelErrorStep
<1>4. CASE /\ current = job.parent
           /\ revisions' = Append(revisions, Revision("cleaned", job.input, job.parent))
           /\ cleaned' = Len(revisions) + 1 /\ UNCHANGED <<current, receipts>>
           /\ job' = [job EXCEPT !.pc = "fact", !.wrote = TRUE]
  <2>1. current \in Nat
    BY DEF AiInv, AiTypeOK
  <2>2. PICK r : r = Revision("cleaned", job.input, job.parent)
    OBVIOUS
  <2>3. /\ r \in Revisions /\ r.whole /\ r.kind = "cleaned" /\ r.of = r.parent /\ r.parent = r.base
        /\ r.parent = current
    BY <1>2, <1>4, <2>1, <2>2 DEF Revision, Revisions
  <2>4. /\ revisions' \in Seq(Revisions) /\ current' \in 1..Len(revisions')
        /\ cleaned' \in 0..Len(revisions') /\ RevisionInv' /\ ReceiptInv'
    BY <1>4, <2>2, <2>3, AppendKeeps DEF AiInv
  <2>5. /\ job' \in AiJob /\ job'.pc = "fact" /\ job'.prompts = 0
        /\ job'.result = job.result /\ job'.allowed = job.allowed
    BY <1>2, <1>4 DEF AiJob, JobPcs
  <2>6. child' = child
    BY DEF CompleteCleanup
  <2>7. JobInv' /\ PromptInv'
    BY <1>2, <2>5, <2>6 DEF AiInv, JobInv, ModelPcs, PromptInv, ChildOwned
  <2>8. AiTypeOK'
    BY <2>4, <2>5, <2>6 DEF AiInv, AiTypeOK, CompleteCleanup, environment
  <2> QED
    BY <2>4, <2>7, <2>8 DEF AiInv
<1> QED
  BY <1>3, <1>4 DEF CompleteCleanup

LEMMA SameIdentityStep ==
    ASSUME AiInv, SameIdentity
    PROVE  AiInv'
<1>1. job # NoJob
  BY DEF SameIdentity, NoJob
<1>2. job \in AiJob /\ ~job.wrote /\ job.prompts = 0 /\ job.pc = "identity"
  BY <1>1, NotYetWritten DEF SameIdentity, JobPcs
<1>3. Private /\ child' = child
  BY DEF SameIdentity, Private
<1>4. CASE End("error")
  BY <1>2, <1>3, <1>4, EndStep
<1>5. CASE Identified /\ Goto("save")
  <2>1. managed = "none"
    BY <1>5 DEF Identified, Source, AiInv, AiTypeOK
  <2>2. MarkedTruly(job.result, job.model, job.fallback, job.input)
    BY <1>1, <1>2, <2>1, WhileItRuns DEF ModelPcs, MarkedTruly
  <2> QED
    BY <1>2, <1>3, <1>5, <2>2, GotoStep DEF JobPcs, ModelPcs
<1> QED
  BY <1>4, <1>5 DEF SameIdentity

LEMMA HeuristicStep ==
    ASSUME AiInv, Heuristic
    PROVE  AiInv'
<1>1. job # NoJob
  BY DEF Heuristic, NoJob
<1>2. job \in AiJob /\ ~job.wrote /\ job.prompts = 0 /\ job.pc = "heuristic" /\ job.allowed
  BY <1>1, NotYetWritten DEF Heuristic, JobPcs, AiInv, JobInv
<1>3. Private /\ child' = child
  BY DEF Heuristic, Private
<1>4. InputForAi \in Nat
  BY DEF InputForAi, AiInv, AiTypeOK
<1>5. PICK input \in Nat : input = InputForAi
  BY <1>4
<1>6. job' = [job EXCEPT !.pc = "save", !.result = "heuristic", !.model = "none", !.input = input,
                         !.fallback = TRUE]
  BY <1>5 DEF Heuristic
<1>7. /\ job' \in AiJob /\ job'.pc = "save" /\ job'.prompts = 0 /\ job'.wrote = FALSE
      /\ job'.result = "heuristic" /\ job'.fallback = TRUE /\ job'.allowed = job.allowed
  BY <1>2, <1>6 DEF AiJob, JobPcs
<1>8. JobInv' /\ PromptInv'
  BY <1>2, <1>3, <1>7 DEF AiInv, JobInv, ModelPcs, MarkedTruly, PromptInv, ChildOwned
<1> QED
  BY <1>3, <1>7, <1>8, PrivateStep DEF AiInv, AiTypeOK

LEMMA SaveStep ==
    ASSUME AiInv, Save
    PROVE  AiInv'
<1>1. job # NoJob
  BY DEF Save, NoJob
<1>2. /\ job \in AiJob /\ ~job.wrote /\ job.prompts = 0 /\ job.pc = "save"
      /\ MarkedTruly(job.result, job.model, job.fallback, job.input)
  BY <1>1, NotYetWritten DEF Save, JobPcs, AiInv, JobInv
<1>3. Private /\ child' = child
  BY DEF Save, Private
<1>4. CASE End("cancelled")
  BY <1>2, <1>3, <1>4, EndStep
<1>5. CASE Goto("receipt")
  BY <1>2, <1>3, <1>5, GotoStep DEF JobPcs, ModelPcs
<1> QED
  BY <1>4, <1>5 DEF Save

LEMMA RecordReceiptStep ==
    ASSUME AiInv, RecordReceipt
    PROVE  AiInv'
<1>1. job # NoJob
  BY DEF RecordReceipt, NoJob
<1>2. /\ job \in AiJob /\ ~job.wrote /\ job.prompts = 0 /\ job.pc = "receipt"
      /\ MarkedTruly(job.result, job.model, job.fallback, job.input)
      /\ job.result = "heuristic" => job.allowed
  BY <1>1, NotYetWritten DEF RecordReceipt, JobPcs, AiInv, JobInv
<1>3. CASE End("error") /\ UNCHANGED storeVars
  <2>1. Private /\ child' = child
    BY <1>3 DEF RecordReceipt, Private
  <2> QED
    BY <1>2, <1>3, <2>1, EndStep
<1>4. CASE /\ receipts' = receipts \cup {[input |-> job.input, model |-> job.model,
                                           by |-> job.result, fallback |-> job.fallback]}
           /\ job' = [job EXCEPT !.pc = "fact", !.wrote = TRUE]
           /\ UNCHANGED <<revisions, current, cleaned>>
  <2>1. /\ job' \in AiJob /\ job'.pc = "fact" /\ job'.prompts = 0
        /\ job'.result = job.result /\ job'.allowed = job.allowed
    BY <1>2, <1>4 DEF AiJob, JobPcs
  <2>2. child' = child
    BY DEF RecordReceipt
  <2>3. JobInv' /\ PromptInv'
    BY <1>2, <2>1, <2>2 DEF AiInv, JobInv, ModelPcs, PromptInv, ChildOwned
  <2>4. ReceiptInv'
    BY <1>2, <1>4 DEF AiInv, ReceiptInv, MarkedTruly
  <2>5. RevisionInv'
    BY <1>4 DEF AiInv, RevisionInv
  <2>6. AiTypeOK'
    BY <1>4, <2>1, <2>2 DEF AiInv, AiTypeOK, RecordReceipt, environment
  <2> QED
    BY <2>3, <2>4, <2>5, <2>6 DEF AiInv
<1> QED
  BY <1>3, <1>4 DEF RecordReceipt

LEMMA SaveAnswerStep ==
    ASSUME AiInv, SaveAnswer
    PROVE  AiInv'
<1>1. job # NoJob
  BY DEF SaveAnswer, NoJob
<1>2. job \in AiJob /\ ~job.wrote /\ job.prompts = 0 /\ job.pc = "save"
  BY <1>1, NotYetWritten DEF SaveAnswer, JobPcs
<1>3. Private /\ child' = child
  BY DEF SaveAnswer, Private
<1>4. CASE End("cancelled")
  BY <1>2, <1>3, <1>4, EndStep
<1>5. CASE Goto("fact")
  BY <1>2, <1>3, <1>5, GotoStep DEF JobPcs, ModelPcs
<1> QED
  BY <1>4, <1>5 DEF SaveAnswer

-----------------------------------------------------------------------------
(* Meanwhile                                                               *)

LEMMA SubmitStep ==
    ASSUME AiInv, ListInv, NEW kind \in JobKinds, NEW intent \in Intents, Submit(kind, intent)
    PROVE  AiInv'
<1>1. PICK plan \in Intents : Start(kind, plan)
  BY DEF Submit, Intents
<1>2. PICK allowed : allowed = Allows(plan)
  OBVIOUS
<1>3. allowed \in BOOLEAN
  BY <1>2 DEF Allows
<1>4. PICK mode \in {"llm", "heuristic"} : mode = Mode(plan)
  BY DEF Mode
<1>5. mode = "heuristic" => allowed
  BY <1>1, <1>2, <1>4 DEF Mode, Allows
<1>6. PICK pc \in {"attempt", "select", "status", "heuristic"} :
         pc = CASE kind = "transcription" -> "attempt"
                [] kind = "cleanup" -> "select"
                [] OTHER -> IF Mode(plan) = "heuristic" THEN "heuristic" ELSE "status"
  OBVIOUS
<1>7. pc = "heuristic" => mode = "heuristic"
  BY <1>4, <1>6
<1>8. job' = [kind |-> kind, mode |-> mode, allowed |-> allowed, why |-> "none", pc |-> pc,
              parent |-> 0, input |-> 0, model |-> "none", batches |-> 0, prompts |-> 0,
              fallback |-> FALSE, wrote |-> FALSE, result |-> "none"]
  BY <1>1, <1>2, <1>4, <1>6, Zenon DEF Start
<1>9. /\ job' \in AiJob /\ job'.pc = pc /\ job'.wrote = FALSE /\ job'.result = "none"
      /\ job'.prompts = 0 /\ job'.allowed = allowed
  BY <1>3, <1>8 DEF AiJob, JobPcs
<1>10. JobInv'
  BY <1>5, <1>7, <1>9 DEF JobInv, ModelPcs
<1>11. child' = child /\ child = FALSE
  BY DEF Submit, AiInv, AiTypeOK, PromptInv, ChildOwned, ListInv
<1>12. PromptInv'
  BY <1>9, <1>11 DEF PromptInv, ChildOwned
<1>13. AiTypeOK' /\ RevisionInv' /\ ReceiptInv'
  BY <1>9, <1>11
  DEF AiInv, AiTypeOK, RevisionInv, ReceiptInv, MarkedTruly, Submit, storeVars
<1> QED
  BY <1>10, <1>12, <1>13 DEF AiInv

\* What the job holds stays true when revisions are added or files imported.
LEMMA JobKept ==
    ASSUME AiInv, Grows, Len(revisions') \in Nat, UNCHANGED <<job, child>>,
           managed' = managed \/ managed = "none"
    PROVE  JobInv' /\ PromptInv'
<1>1. Len(revisions) \in Nat
  BY DEF AiInv, AiTypeOK
<1>2. PromptInv'
  BY DEF AiInv, PromptInv, ChildOwned
<1>3. ASSUME job # NoJob, job.pc \in {"save", "receipt"}
      PROVE  MarkedTruly(job.result, job.model, job.fallback, job.input)'
  <2>1. MarkedTruly(job.result, job.model, job.fallback, job.input)
    BY <1>3 DEF AiInv, JobInv
  <2> QED
    BY <1>1, <2>1 DEF MarkedTruly, Grows
<1>4. JobInv'
  BY <1>1, <1>3 DEF AiInv, JobInv, Grows
<1> QED
  BY <1>2, <1>4

LEMMA SettingStep ==
    ASSUME AiInv,
           \/ Cancel \/ Settle \/ BreakBundled \/ ShowReview \/ ApplyReview
           \/ \E p \in {"ask-first", "automatic", "never"} : SetPreference(p)
           \/ \E parts \in {"model", "both"} : ImportManaged(parts)
    PROVE  AiInv'
<1>1. UNCHANGED <<revisions, current, cleaned, receipts, job, child>>
  BY DEF Cancel, Settle, BreakBundled, ShowReview, ApplyReview, SetPreference, ImportManaged, storeVars
<1>2. managed' = managed \/ managed = "none"
  BY DEF Cancel, Settle, BreakBundled, ShowReview, ApplyReview, SetPreference, ImportManaged, environment
<1>3. Len(revisions) \in Nat
  BY DEF AiInv, AiTypeOK
<1>4. JobInv' /\ PromptInv'
  BY <1>1, <1>2, <1>3, JobKept DEF Grows
<1>5. RevisionInv' /\ ReceiptInv'
  BY <1>1 DEF AiInv, RevisionInv, ReceiptInv, MarkedTruly
<1>6. managed' \in {"none", "model", "both"} /\ bundled' \in {"sound", "broken"}
  BY DEF Cancel, Settle, BreakBundled, ShowReview, ApplyReview, SetPreference, ImportManaged, environment,
         AiInv, AiTypeOK
<1>7. preference' \in {"ask-first", "automatic", "never"} /\ cancelFlag' \in BOOLEAN
  BY DEF Cancel, Settle, BreakBundled, ShowReview, ApplyReview, SetPreference, ImportManaged, environment,
         AiInv, AiTypeOK
<1>8. reviewing' \in [pc : {"none", "shown", "apply"}, revision : Nat]
  BY DEF Cancel, Settle, BreakBundled, ShowReview, ApplyReview, SetPreference, ImportManaged, environment,
         AiInv, AiTypeOK
<1>9. AiTypeOK'
  BY <1>1, <1>6, <1>7, <1>8 DEF AiInv, AiTypeOK
<1> QED
  BY <1>4, <1>5, <1>9 DEF AiInv

LEMMA SelectRevisionStep ==
    ASSUME AiInv, NEW i \in DOMAIN revisions, SelectRevision(i)
    PROVE  AiInv'
<1>1. Len(revisions) \in Nat /\ i \in 1..Len(revisions)
  BY DEF AiInv, AiTypeOK
<1>2. JobInv' /\ PromptInv'
  BY <1>1, JobKept DEF Grows, SelectRevision
<1>3. AiTypeOK' /\ RevisionInv' /\ ReceiptInv'
  BY <1>1 DEF SelectRevision, AiInv, AiTypeOK, RevisionInv, ReceiptInv, MarkedTruly
<1> QED
  BY <1>2, <1>3 DEF AiInv

\* A transcript or a review is committed.
LEMMA CommitKeeps ==
    ASSUME AiInv, NEW r \in Revisions, CommitTranscript(r), r.whole, r.kind # "cleaned",
           r.kind # "raw" => /\ r.of = r.parent /\ r.parent = r.base /\ r.parent = current,
           UNCHANGED <<managed, bundled, preference, job, cancelFlag, child>>,
           reviewing' \in [pc : {"none", "shown", "apply"}, revision : Nat]
    PROVE  AiInv'
<1>1. /\ revisions' = Append(revisions, r) /\ current' = Len(revisions) + 1 /\ cleaned' = cleaned
      /\ receipts' = receipts
  BY DEF CommitTranscript
<1>2. /\ revisions' \in Seq(Revisions) /\ current' \in 1..Len(revisions')
      /\ cleaned' \in 0..Len(revisions') /\ Grows /\ RevisionInv' /\ ReceiptInv'
  BY <1>1, AppendKeeps DEF AiInv
<1>3. JobInv' /\ PromptInv'
  BY <1>2, JobKept
<1>4. AiTypeOK'
  BY <1>2 DEF AiInv, AiTypeOK
<1> QED
  BY <1>2, <1>3, <1>4 DEF AiInv

LEMMA RequestTranscriptStep ==
    ASSUME AiInv, RequestTranscript
    PROVE  AiInv'
<1>1. PICK r : r = Revision("raw", 0, 0)
  OBVIOUS
<1>2. r \in Revisions /\ r.whole /\ r.kind = "raw"
  BY <1>1 DEF Revision, Revisions, AiInv, AiTypeOK
<1> QED
  BY <1>1, <1>2, CommitKeeps DEF RequestTranscript, AiInv, AiTypeOK

LEMMA CompleteReviewStep ==
    ASSUME AiInv, CompleteReview
    PROVE  AiInv'
<1>1. reviewing' \in [pc : {"none", "shown", "apply"}, revision : Nat]
  BY DEF CompleteReview, AiInv, AiTypeOK
<1>2. UNCHANGED <<managed, bundled, preference, job, cancelFlag, child>>
  BY DEF CompleteReview
<1>3. CASE /\ reviewing.revision = current
           /\ CommitTranscript(Revision("reviewed", reviewing.revision, reviewing.revision))
  <2>1. PICK r : r = Revision("reviewed", reviewing.revision, reviewing.revision)
    OBVIOUS
  <2>2. /\ r \in Revisions /\ r.whole /\ r.kind = "reviewed" /\ r.of = r.parent
        /\ r.parent = r.base /\ r.parent = current
    BY <1>3, <2>1 DEF Revision, Revisions, AiInv, AiTypeOK
  <2> QED
    BY <1>1, <1>2, <1>3, <2>1, <2>2, CommitKeeps
<1>4. CASE UNCHANGED storeVars
  <2>1. UNCHANGED <<revisions, current, cleaned, receipts>>
    BY <1>4 DEF storeVars
  <2>2. Len(revisions) \in Nat
    BY DEF AiInv, AiTypeOK
  <2>3. JobInv' /\ PromptInv'
    BY <1>2, <2>1, <2>2, JobKept DEF Grows
  <2>4. AiTypeOK' /\ RevisionInv' /\ ReceiptInv'
    BY <1>1, <1>2, <2>1 DEF AiInv, AiTypeOK, RevisionInv, ReceiptInv, MarkedTruly
  <2> QED
    BY <2>3, <2>4 DEF AiInv
<1> QED
  BY <1>3, <1>4 DEF CompleteReview

-----------------------------------------------------------------------------
(* The theorems                                                            *)

LEMMA AiInvInit ==
    ASSUME AiInit
    PROVE  AiInv
<1>1. PICK r : r = [kind |-> "raw", of |-> 0, parent |-> 0, base |-> 0, whole |-> TRUE]
  OBVIOUS
<1>2. r \in Revisions /\ r.kind = "raw" /\ r.whole
  BY <1>1 DEF Revisions
<1>3. revisions = <<r>>
  BY <1>1, Zenon DEF AiInit
<1>4. revisions \in Seq(Revisions) /\ Len(revisions) = 1 /\ revisions[1] = r
  BY <1>2, <1>3
<1>5. AiTypeOK
  <2>1. reviewing \in [pc : {"none", "shown", "apply"}, revision : Nat]
    BY DEF AiInit
  <2>2. current \in 1..Len(revisions) /\ cleaned \in 0..Len(revisions)
    BY <1>4 DEF AiInit
  <2> QED
    BY <1>4, <2>1, <2>2 DEF AiInit, AiTypeOK
<1>6. RevisionInv
  BY <1>2, <1>4 DEF AiInit, RevisionInv
<1>7. ReceiptInv /\ JobInv /\ PromptInv
  BY DEF AiInit, ReceiptInv, JobInv, PromptInv, ChildOwned
<1> QED
  BY <1>5, <1>6, <1>7 DEF AiInv

LEMMA AiInvStep ==
    ASSUME AiInv, ListInv, [AiNext]_aiVars
    PROVE  AiInv'
<1>1. CASE \E kind \in JobKinds, intent \in Intents : Submit(kind, intent)
  BY <1>1, SubmitStep
<1>2. CASE AiJobStep /\ ~Settle
  BY <1>2, AttemptStep, SegmentsStep, FinalizeStep, CommitStep, FactStep, SelectInputStep,
     StatusStep, ReadInputStep, ConfigureStep, WritePromptStep, RunEndsStep, DeletePromptStep,
     RunFailedStep, ValidateStep, WriteCleanupStep, CompleteCleanupStep, SameIdentityStep,
     HeuristicStep, SaveStep, RecordReceiptStep, SaveAnswerStep
  DEF AiJobStep
<1>3. CASE \/ Cancel \/ Settle \/ BreakBundled \/ ShowReview \/ ApplyReview
           \/ \E p \in {"ask-first", "automatic", "never"} : SetPreference(p)
           \/ \E parts \in {"model", "both"} : ImportManaged(parts)
  BY <1>3, SettingStep
<1>4. CASE \E i \in DOMAIN revisions : SelectRevision(i)
  BY <1>4, SelectRevisionStep
<1>5. CASE RequestTranscript \/ CompleteReview
  BY <1>5, RequestTranscriptStep, CompleteReviewStep
<1>6. CASE UNCHANGED aiVars
  BY <1>6
  DEF aiVars, AiInv, AiTypeOK, RevisionInv, ReceiptInv, MarkedTruly, JobInv, PromptInv, ChildOwned
<1> QED
  BY <1>1, <1>2, <1>3, <1>4, <1>5, <1>6 DEF AiNext

\* A job that ends, or goes on after an error, stores nothing more.
LEMMA ErrorIsQuiet ==
    ASSUME job \in AiJob,
           \/ \E code : ModelError(code) \/ \E why \in {"cancelled", "error"} : End(why)
    PROVE  job'.wrote = job.wrote /\ job'.pc \notin LateStores
BY DEF ModelError, End, Goto, AiJob, LateStores

\* Once the flag is set, a job that has not had its last look is kept from
\* storing.
LEMMA FlagIsSeen ==
    ASSUME AiInv, AiJobStep, ~Settle
    PROVE  /\ job.pc \notin {"idle", "done", "failed"} /\ UNCHANGED <<outcome, late, cancelFlag>>
           /\ cancelFlag /\ job.pc \notin LateStores =>
                  job'.wrote = job.wrote /\ job'.pc \notin LateStores
<1>1. job.pc \notin {"idle", "done", "failed"} /\ UNCHANGED <<outcome, late, cancelFlag>>
  BY DEF AiJobStep, Attempt, WhisperTrack, ParakeetTrack, Finalize, Commit, Fact, SelectInput, Status,
     ReadInput, Configure, WritePrompt, RunEnds, DeletePrompt, RunFailed, Validate, WriteCleanup,
     CompleteCleanup, SameIdentity, Heuristic, Save, RecordReceipt, SaveAnswer, environment, listVars
<1>2. job \in AiJob
  BY <1>1 DEF AiInv, AiTypeOK, NoJob
<1> SUFFICES ASSUME cancelFlag, job.pc \notin LateStores
             PROVE  job'.wrote = job.wrote /\ job'.pc \notin LateStores
  BY <1>1
<1>3. CASE Attempt \/ WhisperTrack \/ ParakeetTrack \/ Finalize
  BY <1>2, <1>3, ErrorIsQuiet DEF Attempt, WhisperTrack, ParakeetTrack, Finalize, Checked
<1>4. CASE SelectInput \/ Status \/ ReadInput \/ Configure
  BY <1>2, <1>4, ErrorIsQuiet DEF SelectInput, Status, ReadInput, Configure, AiJob, LateStores
<1>5. CASE WritePrompt \/ RunEnds \/ DeletePrompt \/ RunFailed \/ Validate
  BY <1>2, <1>5, ErrorIsQuiet
  DEF WritePrompt, RunEnds, Stopped, DeletePrompt, RunFailed, Validate, AiJob, LateStores
<1>6. CASE WriteCleanup \/ SameIdentity \/ Heuristic \/ Save \/ SaveAnswer
  BY <1>2, <1>6, ErrorIsQuiet
  DEF WriteCleanup, SameIdentity, Heuristic, Save, SaveAnswer, Goto, AiJob, LateStores
<1>7. CASE Commit \/ Fact \/ CompleteCleanup \/ RecordReceipt
  BY <1>7 DEF Commit, Fact, CompleteCleanup, RecordReceipt, LateStores
<1> QED
  BY <1>3, <1>4, <1>5, <1>6, <1>7 DEF AiJobStep

LEMMA ListInvStep ==
    ASSUME AiInv, ListInv, [AiNext]_aiVars
    PROVE  ListInv'
<1>1. CASE \E kind \in JobKinds, intent \in Intents : Submit(kind, intent)
  BY <1>1 DEF Submit, ListInv
<1>2. CASE AiJobStep /\ ~Settle
  <2>1. outcome = "none" /\ outcome' = "none" /\ job # NoJob
    BY <1>2, FlagIsSeen DEF ListInv, NoJob
  <2>2. cancelFlag' /\ ~late' => ~job'.wrote /\ job'.pc \notin LateStores
    BY <1>2, <2>1, FlagIsSeen DEF ListInv
  <2> QED
    BY <2>1, <2>2 DEF ListInv
<1>3. CASE Settle
  BY <1>3 DEF Settle, ListInv
<1>4. CASE Cancel
  <2>1. job' = job /\ outcome' = outcome /\ outcome = "none" /\ late' = (job.pc \in LateSteps)
    BY <1>4 DEF Cancel
  <2>2. job # NoJob => (job.wrote => job.pc \in LateSteps)
    BY DEF AiInv, JobInv, LateSteps
  <2> QED
    BY <2>1, <2>2 DEF ListInv, LateSteps, LateStores
<1>5. CASE \/ BreakBundled \/ ShowReview \/ ApplyReview \/ RequestTranscript \/ CompleteReview
           \/ \E p \in {"ask-first", "automatic", "never"} : SetPreference(p)
           \/ \E parts \in {"model", "both"} : ImportManaged(parts)
           \/ \E i \in DOMAIN revisions : SelectRevision(i)
           \/ UNCHANGED aiVars
  <2>1. UNCHANGED <<job, outcome, late, cancelFlag>>
    BY <1>5 DEF BreakBundled, ShowReview, ApplyReview, RequestTranscript, CompleteReview, SetPreference,
       ImportManaged, SelectRevision, aiVars, listVars
  <2> QED
    BY <2>1 DEF ListInv
<1> QED
  BY <1>1, <1>2, <1>3, <1>4, <1>5 DEF AiNext

LEMMA AiInvHolds == AiSpec => [](AiInv /\ ListInv)
<1>1. AiInit => ListInv
  BY DEF AiInit, ListInv
<1> QED
  BY <1>1, AiInvInit, AiInvStep, ListInvStep, PTL DEF AiSpec

LEMMA InvIsTruthful ==
    ASSUME AiInv
    PROVE  TranscriptsTruthful
<1>1. DOMAIN revisions = 1..Len(revisions)
  BY DEF AiInv, AiTypeOK
<1>2. LineageTrue /\ WholeTranscripts
  BY <1>1 DEF AiInv, RevisionInv, LineageTrue, WholeTranscripts
<1>3. RecapNamesModel /\ FallbackMarked
  BY DEF AiInv, ReceiptInv, MarkedTruly, RecapNamesModel, FallbackMarked
<1>4. NeverHeuristic
  BY DEF AiInv, JobInv, NeverHeuristic
<1> QED
  BY <1>2, <1>3, <1>4 DEF TranscriptsTruthful

LEMMA InvLeavesNothing ==
    ASSUME AiInv, ListInv
    PROVE  JobsLeaveNothing
BY DEF AiInv, ListInv, JobInv, PromptInv, JobsLeaveNothing, CancelledStoresNothing, PromptsGone

\* TranscriptsTruthful for every number of revisions, batches, prompts and
\* jobs: a cleaned or reviewed revision is whole and was made from the
\* revision it names, a recap receipt names the model that wrote it and marks
\* a fallback, and no heuristic answer is given where none was allowed,
\* though the selection, the models and the preference change while a job
\* runs (background_jobs.rs).
THEOREM TranscriptsAreTruthful == AiSpec => []TranscriptsTruthful
BY AiInvHolds, InvIsTruthful, PTL

\* JobsLeaveNothing for every number of revisions, batches, prompts and jobs:
\* a job that is listed as cancelled stored nothing unless the cancellation
\* came after its last look at the flag (background_jobs.rs), the model process
\* is alive only while its job waits for it, and a job that returns the model's
\* work has deleted every prompt file it wrote (local_instruct_model.rs).
THEOREM JobsAreTidy == AiSpec => []JobsLeaveNothing
BY AiInvHolds, InvLeavesNothing, PTL

-----------------------------------------------------------------------------
(* What the user imports and what comes with the program                   *)

AssetPcs == {"idle", "read", "aside", "commit", "permit", "manifest-aside", "manifest"}

\* A file as it was copied or written: its digest belongs to its stamp.
Mark == {f \in [digest : Nat, stamp : Nat] : f.digest = f.stamp}
AssetRecords == [AssetKinds -> Mark]

ImportJob == [pc : AssetPcs, kind : AssetKinds, part : Mark, records : AssetRecords,
              had : BOOLEAN, staged : BOOLEAN]

\* No other import than w's is under way.
Only(w) == \A v \in Importers \ {w} : importing[v] = Settled

InstructTypeOK(w) ==
    /\ asset \in AssetRecords /\ aside \in AssetRecords
    /\ manifest \in [target : AssetRecords \cup {NoManifest}, backup : AssetRecords \cup {NoManifest}]
    /\ w \in Importers /\ importing \in [Importers -> ImportJob] /\ Only(w)
    /\ expects \in [AssetKinds -> BOOLEAN] /\ halfway \subseteq AssetKinds /\ assetImports \in Nat

\* The steps at which the file of the import may be set aside.
Replacing == {"commit", "permit", "manifest-aside", "manifest"}

\* The records as they are restored when the import fails, and the files.
Recorded(m) == IF m = NoManifest THEN NoRecords ELSE m
Restored(w) == Recorded(IF importing[w].pc = "manifest" THEN manifest.backup ELSE manifest.target)
OldFile(w, k) ==
    IF importing[w].pc \in Replacing /\ k = importing[w].kind
    THEN IF importing[w].had THEN aside[k] ELSE Gone
    ELSE asset[k]

\* What the user counts on could be restored at every step.
ExpectedInv(w) ==
    \A k \in AssetKinds :
        expects[k] /\ k \notin halfway => OldFile(w, k) # Gone /\ Restored(w)[k] = OldFile(w, k)

\* What the one import knows at each of its steps.
ImportingInv(w) ==
    LET i == importing[w] IN
    /\ i.pc = "idle" => i = Settled
    /\ i.pc # "idle" => i.part # Gone
    /\ i.pc = "aside" => (i.had <=> asset[i.kind] # Gone)
    /\ i.pc \in Replacing /\ i.had => aside[i.kind] # Gone
    /\ i.pc \in {"permit", "manifest-aside", "manifest"} => asset[i.kind] = i.part
    /\ i.pc \in {"aside", "commit", "permit"} => i.records = Restored(w)
    /\ i.pc \in {"manifest-aside", "manifest"} => i.records = [Restored(w) EXCEPT ![i.kind] = i.part]
    /\ i.pc = "manifest" => /\ manifest.target = NoManifest
                            /\ i.staged <=> manifest.backup # NoManifest

InstructInv(w) == InstructTypeOK(w) /\ ExpectedInv(w) /\ ImportingInv(w)

LEMMA MarksAre ==
    /\ Gone \in Mark /\ NoRecords \in AssetRecords
    /\ NoManifest \notin AssetRecords
    /\ \A m \in AssetRecords \cup {NoManifest} : Recorded(m) \in AssetRecords
    /\ \A m \in AssetRecords : Recorded(m) = m
    /\ Recorded(NoManifest) = NoRecords
    /\ \A k \in AssetKinds : NoRecords[k] = Gone
<1>1. Gone \in Mark
  BY DEF Gone, Mark
<1>2. NoRecords \in AssetRecords /\ \A k \in AssetKinds : NoRecords[k] = Gone
  BY <1>1 DEF NoRecords, AssetRecords
<1>3. NoManifest \notin AssetRecords
  <2>1. DOMAIN NoManifest = {} /\ "runner" \in AssetKinds
    BY DEF NoManifest, AssetKinds
  <2> QED
    BY <2>1 DEF AssetRecords
<1> QED
  BY <1>1, <1>2, <1>3 DEF Recorded

LEMMA RecordsAre == Records = Recorded(manifest.target)
BY DEF Records, Recorded

LEMMA InstructInitInv ==
    ASSUME NEW w \in Importers, InstructInit
    PROVE  InstructInv(w)
<1>1. importing = [v \in Importers |-> Settled] /\ importing[w] = Settled /\ Only(w)
  BY DEF InstructInit, Only
<1>2. Settled \in ImportJob
  BY MarksAre DEF Settled, AssetPcs, AssetKinds, ImportJob
<1>3. InstructTypeOK(w)
  BY <1>1, <1>2, MarksAre DEF InstructInit, InstructTypeOK
<1>4. ExpectedInv(w)
  BY DEF InstructInit, ExpectedInv
<1>5. Settled.pc = "idle"
  BY DEF Settled
<1>6. ImportingInv(w)
  BY <1>1, <1>5 DEF ImportingInv, Replacing
<1> QED
  BY <1>3, <1>4, <1>6 DEF InstructInv

LEMMA CopyAssetInv ==
    ASSUME NEW w, InstructInv(w), NEW k \in AssetKinds,
           NEW replace \in BOOLEAN, NEW good \in BOOLEAN, CopyAsset(w, k, replace, good)
    PROVE  InstructInv(w)'
<1> DEFINE copy == [digest |-> assetImports + 1, stamp |-> assetImports + 1]
           new == [Settled EXCEPT !.pc = "read", !.kind = k, !.part = copy]
<1>1. InstructTypeOK(w) /\ importing[w].pc = "idle"
  BY DEF InstructInv, CopyAsset, AtStep
<1>2. copy \in Mark /\ copy # Gone
  BY <1>1 DEF InstructTypeOK, Mark, Gone
<1>3. /\ new \in ImportJob
      /\ new.pc = "read" /\ new.part = copy
  BY <1>2, MarksAre DEF Settled, AssetPcs, AssetKinds, ImportJob
<1>4. UNCHANGED <<asset, aside, manifest, expects, halfway>> /\ assetImports' = assetImports + 1
  BY DEF CopyAsset
<1>5. \/ importing' = [importing EXCEPT ![w] = new]
      \/ importing' = importing
  BY DEF CopyAsset
<1> HIDE DEF copy, new
<1>6. CASE importing' = [importing EXCEPT ![w] = new]
  <2>1. importing'[w] = new
    BY <1>1, <1>6 DEF InstructTypeOK
  <2>2. InstructTypeOK(w)'
    BY <1>1, <1>3, <1>4, <1>6 DEF InstructTypeOK, Only
  <2>3. ExpectedInv(w)'
    BY <1>1, <1>3, <1>4, <2>1 DEF InstructInv, ExpectedInv, OldFile, Restored, Replacing
  <2>4. ImportingInv(w)'
    BY <1>2, <1>3, <2>1 DEF ImportingInv, Replacing
  <2> QED
    BY <2>2, <2>3, <2>4 DEF InstructInv
<1>7. CASE importing' = importing
  <2>1. InstructTypeOK(w)'
    BY <1>1, <1>4, <1>7 DEF InstructTypeOK, Only
  <2> QED
    BY <1>4, <1>7, <2>1 DEF InstructInv, ExpectedInv, ImportingInv, OldFile, Restored
<1> QED
  BY <1>5, <1>6, <1>7

\* A step of the import: what it becomes, and the files and records with it.
LEMMA ImportSteps ==
    ASSUME NEW w, InstructTypeOK(w), NEW i,
           i \in ImportJob,
           importing' = [importing EXCEPT ![w] = i],
           asset' \in AssetRecords, aside' \in AssetRecords,
           manifest' \in [target : AssetRecords \cup {NoManifest}, backup : AssetRecords \cup {NoManifest}],
           expects' \in [AssetKinds -> BOOLEAN], halfway' \subseteq AssetKinds,
           assetImports' = assetImports
    PROVE  InstructTypeOK(w)' /\ importing'[w] = i
BY DEF InstructTypeOK, Only

\* An import that ends, with the files and records it leaves.
LEMMA ImportEnds ==
    ASSUME NEW w, InstructTypeOK(w), EndImport(w),
           asset' \in AssetRecords, aside' \in AssetRecords,
           manifest' \in [target : AssetRecords \cup {NoManifest}, backup : AssetRecords \cup {NoManifest}],
           expects' \in [AssetKinds -> BOOLEAN], halfway' \subseteq AssetKinds,
           assetImports' = assetImports,
           \A k \in AssetKinds : expects'[k] /\ k \notin halfway' => asset'[k] # Gone /\ Recorded(manifest'.target)[k] = asset'[k]
    PROVE  InstructInv(w)'
<1>1. Settled \in ImportJob
  BY MarksAre DEF Settled, AssetPcs, AssetKinds, ImportJob
<1>2. importing' = [importing EXCEPT ![w] = Settled]
  BY DEF EndImport
<1>3. InstructTypeOK(w)' /\ importing'[w] = Settled
  BY <1>1, <1>2, ImportSteps
<1>4. Settled.pc = "idle" /\ "idle" \notin Replacing
  BY DEF Settled, Replacing
<1>5. ExpectedInv(w)'
  BY <1>3, <1>4 DEF ExpectedInv, OldFile, Restored
<1>6. ImportingInv(w)'
  BY <1>3, <1>4 DEF ImportingInv, Replacing
<1> QED
  BY <1>3, <1>5, <1>6 DEF InstructInv

LEMMA ReadManifestInv ==
    ASSUME NEW w, InstructInv(w), ReadManifest(w)
    PROVE  InstructInv(w)'
<1> DEFINE had == asset[importing[w].kind] # Gone
           i == [importing[w] EXCEPT !.pc = "aside", !.records = Records, !.had = had]
<1>1. InstructTypeOK(w) /\ importing[w].pc = "read"
  BY DEF InstructInv, ReadManifest, AtStep
<1>2. UNCHANGED <<asset, aside, manifest, expects, halfway, assetImports>>
  BY DEF ReadManifest, ghostVars
<1>3. Records \in AssetRecords
  BY <1>1, MarksAre, RecordsAre DEF InstructTypeOK
<1>4. importing[w] \in ImportJob
  BY <1>1 DEF InstructTypeOK
<1>5. /\ i \in ImportJob
      /\ i.pc = "aside" /\ i.kind = importing[w].kind /\ i.part = importing[w].part
      /\ i.records = Records /\ i.had = had
  BY <1>3, <1>4 DEF AssetPcs, ImportJob
<1>6. importing' = [importing EXCEPT ![w] = i]
  BY <1>1, <1>4 DEF ReadManifest, InstructTypeOK
<1> HIDE DEF i
<1>7. InstructTypeOK(w)' /\ importing'[w] = i
  BY <1>1, <1>2, <1>5, <1>6, ImportSteps DEF InstructTypeOK
<1>8. ExpectedInv(w)'
  BY <1>1, <1>2, <1>5, <1>7 DEF InstructInv, ExpectedInv, OldFile, Restored, Replacing
<1>9. ImportingInv(w)'
  <2>1. Restored(w)' = Records
    BY <1>2, <1>5, <1>7, RecordsAre DEF Restored
  <2>2. i.part # Gone
    BY <1>1, <1>5 DEF InstructInv, ImportingInv
  <2> QED
    BY <1>2, <1>5, <1>7, <2>1, <2>2 DEF ImportingInv, Replacing
<1> QED
  BY <1>7, <1>8, <1>9 DEF InstructInv

\* What a step of the one import starts from.
LEMMA ImportAt ==
    ASSUME NEW w, InstructInv(w)
    PROVE  /\ InstructTypeOK(w) /\ importing[w] \in ImportJob /\ importing[w].kind \in AssetKinds
           /\ importing[w].part \in Mark /\ importing[w].records \in AssetRecords
           /\ \A pc \in AssetPcs : /\ [importing[w] EXCEPT !.pc = pc] \in ImportJob
                                   /\ [importing EXCEPT ![w].pc = pc] =
                                        [importing EXCEPT ![w] = [importing[w] EXCEPT !.pc = pc]]
           /\ asset \in AssetRecords /\ aside \in AssetRecords
           /\ manifest \in [target : AssetRecords \cup {NoManifest}, backup : AssetRecords \cup {NoManifest}]
           /\ expects \in [AssetKinds -> BOOLEAN] /\ halfway \subseteq AssetKinds
           /\ Restored(w) \in AssetRecords /\ w \in Importers /\ Only(w)
<1>1. InstructTypeOK(w) /\ importing[w] \in ImportJob
  BY DEF InstructInv, InstructTypeOK, ImportJob
<1>2. \A pc \in AssetPcs : [importing[w] EXCEPT !.pc = pc] \in ImportJob
  BY <1>1 DEF ImportJob
<1>3. Restored(w) \in AssetRecords
  BY <1>1, MarksAre DEF InstructTypeOK, Restored
<1> QED
  BY <1>1, <1>2, <1>3 DEF InstructTypeOK, ImportJob

LEMMA SetAssetAsideInv ==
    ASSUME NEW w, InstructInv(w), SetAssetAside(w)
    PROVE  InstructInv(w)'
<1> DEFINE k == importing[w].kind
           i == [importing[w] EXCEPT !.pc = "commit"]
<1>1. importing[w].pc = "aside" /\ UNCHANGED <<manifest, expects, halfway, assetImports>>
  BY DEF SetAssetAside, AtStep, ghostVars
<1>2. k \in AssetKinds /\ Gone \in Mark /\ importing[w].had \in BOOLEAN
  BY ImportAt, MarksAre DEF ImportJob
<1>3. /\ importing[w].had <=> asset[k] # Gone
      /\ importing[w].records = Recorded(manifest.target)
      /\ importing[w].part # Gone
  BY <1>1 DEF InstructInv, ImportingInv, Restored
<1>4. \A q \in AssetKinds : expects[q] /\ q \notin halfway => asset[q] # Gone /\ Recorded(manifest.target)[q] = asset[q]
  BY <1>1 DEF InstructInv, ExpectedInv, OldFile, Restored, Replacing
<1>5. CASE /\ EndImport(w) /\ UNCHANGED asset
           /\ aside' = [aside EXCEPT ![k] = Gone] \/ UNCHANGED aside
  <2>1. aside' \in AssetRecords /\ asset' = asset
    BY <1>2, <1>5, ImportAt DEF AssetRecords
  <2> QED
    BY <1>1, <1>4, <1>5, <2>1, ImportAt, ImportEnds
<1>6. CASE /\ GoTo(w, "commit")
           /\ IF importing[w].had
              THEN /\ asset' = [asset EXCEPT ![k] = Gone] /\ aside' = [aside EXCEPT ![k] = asset[k]]
              ELSE /\ aside' = [aside EXCEPT ![k] = Gone] /\ UNCHANGED asset
  <2>1. asset' \in AssetRecords /\ aside' \in AssetRecords
    BY <1>2, <1>6, ImportAt DEF AssetRecords
  <2>2. /\ i \in ImportJob /\ i.pc = "commit" /\ i.kind = k /\ i.part = importing[w].part
        /\ i.records = importing[w].records /\ i.had = importing[w].had
    <3>1. importing[w] \in ImportJob
      BY ImportAt
    <3> QED
      BY <3>1 DEF ImportJob, AssetPcs
  <2>3. importing' = [importing EXCEPT ![w] = i]
    BY <1>6, ImportAt DEF GoTo, AssetPcs
  <2> HIDE DEF i
  <2>4. InstructTypeOK(w)' /\ importing'[w] = i
    BY <1>1, <2>1, <2>2, <2>3, ImportAt, ImportSteps DEF ImportJob
  <2>5. Restored(w)' = Recorded(manifest.target)
    BY <1>1, <2>2, <2>4 DEF Restored
  <2>6. asset \in [AssetKinds -> Mark] /\ aside \in [AssetKinds -> Mark]
    BY ImportAt DEF AssetRecords
  <2>7. /\ \A q \in AssetKinds : q # k => asset'[q] = asset[q]
        /\ importing[w].had => aside'[k] = asset[k]
    BY <1>2, <1>6, <2>6
  <2>8. ExpectedInv(w)'
    <3> SUFFICES ASSUME NEW q \in AssetKinds, expects[q], q \notin halfway
                 PROVE  OldFile(w, q)' # Gone /\ Restored(w)'[q] = OldFile(w, q)'
      BY <1>1 DEF ExpectedInv
    <3>1. OldFile(w, q)' = asset[q]
      BY <1>3, <1>4, <2>2, <2>4, <2>7 DEF OldFile, Replacing
    <3> QED
      BY <1>4, <2>5, <3>1
  <2>9. ImportingInv(w)'
    BY <1>3, <2>2, <2>4, <2>5, <2>7 DEF ImportingInv, Replacing
  <2> QED
    BY <2>4, <2>8, <2>9 DEF InstructInv
<1> QED
  BY <1>5, <1>6 DEF SetAssetAside

\* What PutBack restores is what the user counts on.
LEMMA PutBackRestores ==
    ASSUME NEW w, InstructInv(w), importing[w].pc \in Replacing, NEW otherwise \in Mark,
           PutBack(w, importing[w].kind, otherwise)
    PROVE  /\ asset' \in AssetRecords /\ aside' \in AssetRecords
           /\ \A q \in AssetKinds : expects[q] /\ q \notin halfway => asset'[q] # Gone /\ Restored(w)[q] = asset'[q]
<1> DEFINE k == importing[w].kind
<1>1. /\ k \in AssetKinds /\ Gone \in Mark /\ asset \in [AssetKinds -> Mark]
      /\ aside \in [AssetKinds -> Mark] /\ importing[w].had \in BOOLEAN
  BY ImportAt, MarksAre DEF AssetRecords, ImportJob
<1>2. importing[w].had => aside[k] # Gone
  BY DEF InstructInv, ImportingInv
<1>3. \A q \in AssetKinds : expects[q] /\ q \notin halfway => OldFile(w, q) # Gone /\ Restored(w)[q] = OldFile(w, q)
  BY DEF InstructInv, ExpectedInv
<1>4. CASE importing[w].had
  <2>1. asset' = [asset EXCEPT ![k] = aside[k]] /\ aside' = [aside EXCEPT ![k] = Gone]
    BY <1>2, <1>4 DEF PutBack
  <2>2. \A q \in AssetKinds : asset'[q] = OldFile(w, q)
    BY <1>1, <1>4, <2>1 DEF OldFile
  <2> QED
    BY <1>1, <1>3, <2>1, <2>2 DEF AssetRecords
<1>5. CASE ~importing[w].had
  <2>1. asset' = [asset EXCEPT ![k] = otherwise] /\ aside' = aside
    BY <1>5 DEF PutBack
  <2>2. ~expects[k] \/ k \in halfway
    BY <1>1, <1>3, <1>5 DEF OldFile
  <2>3. \A q \in AssetKinds : q # k => asset'[q] = OldFile(w, q)
    BY <1>1, <2>1 DEF OldFile
  <2> QED
    BY <1>1, <1>3, <2>1, <2>2, <2>3 DEF AssetRecords
<1> QED
  BY <1>1, <1>4, <1>5

LEMMA CommitAssetInv ==
    ASSUME NEW w, InstructInv(w), CommitAsset(w)
    PROVE  InstructInv(w)'
<1> DEFINE k == importing[w].kind
           i == [importing[w] EXCEPT !.pc = "permit"]
<1>1. importing[w].pc = "commit" /\ UNCHANGED <<manifest, expects, halfway, assetImports>>
  BY DEF CommitAsset, AtStep, ghostVars
<1>2. /\ k \in AssetKinds /\ asset \in [AssetKinds -> Mark] /\ importing[w].part \in Mark
      /\ asset[k] \in Mark
  BY ImportAt DEF AssetRecords
<1>3. CASE EndImport(w) /\ PutBack(w, k, asset[k])
  <2>1. /\ asset' \in AssetRecords /\ aside' \in AssetRecords
        /\ \A q \in AssetKinds : expects[q] /\ q \notin halfway => asset'[q] # Gone /\ Restored(w)[q] = asset'[q]
    BY <1>1, <1>2, <1>3, PutBackRestores DEF Replacing
  <2>2. Restored(w) = Recorded(manifest'.target)
    BY <1>1 DEF Restored
  <2> QED
    BY <1>1, <1>3, <2>1, <2>2, ImportAt, ImportEnds
<1>4. CASE /\ asset' = [asset EXCEPT ![k] = importing[w].part]
           /\ GoTo(w, "permit") /\ UNCHANGED aside
  <2>1. asset' \in AssetRecords /\ aside' \in AssetRecords
    BY <1>2, <1>4, ImportAt DEF AssetRecords
  <2>2. /\ i \in ImportJob /\ i.pc = "permit" /\ i.kind = k /\ i.part = importing[w].part
        /\ i.records = importing[w].records /\ i.had = importing[w].had
    <3>1. importing[w] \in ImportJob
      BY ImportAt
    <3> QED
      BY <3>1 DEF ImportJob, AssetPcs
  <2>3. importing' = [importing EXCEPT ![w] = i]
    BY <1>4, ImportAt DEF GoTo, AssetPcs
  <2> HIDE DEF i
  <2>4. InstructTypeOK(w)' /\ importing'[w] = i
    BY <1>1, <2>1, <2>2, <2>3, ImportAt, ImportSteps DEF ImportJob
  <2>5. Restored(w)' = Restored(w)
    BY <1>1, <2>2, <2>4 DEF Restored
  <2>6. asset'[k] = importing[w].part /\ \A q \in AssetKinds : q # k => asset'[q] = asset[q]
    BY <1>2, <1>4
  <2>7. \A q \in AssetKinds : OldFile(w, q)' = OldFile(w, q)
    BY <1>1, <1>4, <2>2, <2>4, <2>6 DEF OldFile, Replacing
  <2>8. ExpectedInv(w)'
    BY <1>1, <2>5, <2>7 DEF InstructInv, ExpectedInv
  <2>9. ImportingInv(w)'
    <3>1. /\ importing[w].records = Restored(w) /\ importing[w].part # Gone
          /\ importing[w].had => aside[k] # Gone
      BY <1>1 DEF InstructInv, ImportingInv, Replacing
    <3> QED
      BY <1>4, <2>2, <2>4, <2>5, <2>6, <3>1 DEF ImportingInv, Replacing
  <2> QED
    BY <2>4, <2>8, <2>9 DEF InstructInv
<1> QED
  BY <1>3, <1>4 DEF CommitAsset

LEMMA PermitInv ==
    ASSUME NEW w, InstructInv(w), Permit(w)
    PROVE  InstructInv(w)'
<1> DEFINE k == importing[w].kind
           rec == [digest |-> importing[w].part.digest, stamp |-> asset[k].stamp]
           recs == [importing[w].records EXCEPT ![k] = rec]
           i == [importing[w] EXCEPT !.pc = "manifest-aside", !.records = recs]
<1>1. importing[w].pc = "permit" /\ UNCHANGED <<asset, aside, manifest, expects, assetImports>>
  BY DEF Permit, AtStep
<1>2. /\ k \in AssetKinds /\ asset \in [AssetKinds -> Mark] /\ importing[w].part \in Mark
      /\ importing[w].records \in [AssetKinds -> Mark] /\ expects \in [AssetKinds -> BOOLEAN]
  BY ImportAt DEF AssetRecords
<1>3. /\ asset[k] = importing[w].part /\ importing[w].records = Restored(w)
      /\ importing[w].part # Gone
      /\ importing[w].had => aside[k] # Gone
  BY <1>1 DEF InstructInv, ImportingInv, Replacing
<1>4. Restored(w) = Recorded(manifest.target)
  BY <1>1 DEF Restored
<1>5. CASE EndImport(w) /\ halfway' = halfway \cup {k}
  <2>1. \A q \in AssetKinds : expects'[q] /\ q \notin halfway' =>
            asset'[q] # Gone /\ Recorded(manifest'.target)[q] = asset'[q]
    <3> SUFFICES ASSUME NEW q \in AssetKinds, expects[q], q \notin halfway'
                 PROVE  asset[q] # Gone /\ Restored(w)[q] = asset[q]
      BY <1>1, <1>4
    <3>1. q # k /\ q \notin halfway
      BY <1>2, <1>5
    <3> QED
      BY <3>1 DEF InstructInv, ExpectedInv, OldFile
  <2>2. expects' \in [AssetKinds -> BOOLEAN] /\ halfway' \subseteq AssetKinds
    BY <1>1, <1>2, <1>5, ImportAt
  <2> QED
    BY <1>1, <1>5, <2>1, <2>2, ImportAt, ImportEnds
<1>6. CASE /\ importing' = [importing EXCEPT ![w].pc = "manifest-aside", ![w].records[k] = rec]
           /\ UNCHANGED halfway
  <2>1. rec = importing[w].part
    BY <1>2, <1>3 DEF Mark
  <2>2. recs \in AssetRecords
    BY <1>2, <2>1 DEF AssetRecords
  <2>3. /\ i \in ImportJob /\ i.pc = "manifest-aside" /\ i.kind = k /\ i.part = importing[w].part
        /\ i.records = recs /\ i.had = importing[w].had
    <3>1. importing[w] \in ImportJob
      BY ImportAt
    <3> HIDE DEF recs
    <3> QED
      BY <2>2, <3>1 DEF ImportJob, AssetPcs
  <2>4. importing' = [importing EXCEPT ![w] = i]
    BY <1>6, ImportAt DEF InstructTypeOK, ImportJob
  <2> HIDE DEF i
  <2>10. UNCHANGED <<expects, halfway>>
    BY <1>1, <1>6
  <2>5. InstructTypeOK(w)' /\ importing'[w] = i
    <3>1. /\ InstructTypeOK(w) /\ asset' \in AssetRecords /\ aside' \in AssetRecords
          /\ manifest' \in [target : AssetRecords \cup {NoManifest}, backup : AssetRecords \cup {NoManifest}]
          /\ expects' \in [AssetKinds -> BOOLEAN] /\ halfway' \subseteq AssetKinds
          /\ assetImports' = assetImports
      BY <1>1, <2>10, ImportAt
    <3> QED
      BY <2>3, <2>4, <3>1, ImportSteps
  <2>6. Restored(w)' = Restored(w)
    BY <1>1, <2>3, <2>5 DEF Restored
  <2>7. \A q \in AssetKinds : OldFile(w, q)' = OldFile(w, q)
    BY <1>1, <2>3, <2>5 DEF OldFile, Replacing
  <2>8. ExpectedInv(w)'
    BY <2>10, <2>6, <2>7 DEF InstructInv, ExpectedInv
  <2>9. ImportingInv(w)'
    <3>1. i.records = [Restored(w) EXCEPT ![k] = i.part]
      BY <1>3, <2>1, <2>3
    <3> QED
      BY <1>1, <1>3, <2>3, <2>5, <2>6, <3>1 DEF ImportingInv, Replacing
  <2> QED
    BY <2>5, <2>8, <2>9 DEF InstructInv
<1> QED
  BY <1>5, <1>6 DEF Permit

LEMMA SetManifestAsideInv ==
    ASSUME NEW w, InstructInv(w), SetManifestAside(w)
    PROVE  InstructInv(w)'
<1> DEFINE k == importing[w].kind
           i == [importing[w] EXCEPT !.pc = "manifest", !.staged = manifest.target # NoManifest]
           M == AssetRecords \cup {NoManifest}
<1>1. importing[w].pc = "manifest-aside" /\ UNCHANGED <<expects, halfway, assetImports>>
  BY DEF SetManifestAside, AtStep, ghostVars
<1>2. Restored(w) = Recorded(manifest.target)
  BY <1>1 DEF Restored
<1>3. /\ asset[k] = importing[w].part
      /\ importing[w].records = [Restored(w) EXCEPT ![k] = importing[w].part]
      /\ importing[w].part # Gone
      /\ importing[w].had => aside[k] # Gone
  BY <1>1 DEF InstructInv, ImportingInv, Replacing
<1>4. CASE EndImport(w) /\ PutBack(w, k, Gone) /\ UNCHANGED manifest
  <2>1. /\ asset' \in AssetRecords /\ aside' \in AssetRecords
        /\ \A q \in AssetKinds : expects[q] /\ q \notin halfway => asset'[q] # Gone /\ Restored(w)[q] = asset'[q]
    BY <1>1, <1>4, MarksAre, PutBackRestores DEF Replacing
  <2> QED
    BY <1>1, <1>2, <1>4, <2>1, ImportAt, ImportEnds
<1>5. CASE /\ manifest' = IF manifest.target = NoManifest THEN [manifest EXCEPT !.backup = NoManifest]
                          ELSE [target |-> NoManifest, backup |-> manifest.target]
           /\ importing' = [importing EXCEPT ![w].pc = "manifest",
                                             ![w].staged = manifest.target # NoManifest]
           /\ UNCHANGED <<asset, aside, assetFaults>>
  <2>1. manifest \in [target : M, backup : M]
    BY ImportAt
  <2>2. /\ manifest' \in [target : M, backup : M] /\ manifest'.target = NoManifest
        /\ manifest'.backup = manifest.target
    <3>1. CASE manifest.target = NoManifest
      BY <1>5, <2>1, <3>1
    <3>2. CASE manifest.target # NoManifest
      BY <1>5, <2>1, <3>2
    <3> QED
      BY <3>1, <3>2
  <2>3. /\ i \in ImportJob /\ i.pc = "manifest" /\ i.kind = k /\ i.part = importing[w].part
        /\ i.records = importing[w].records /\ i.had = importing[w].had
        /\ i.staged <=> manifest.target # NoManifest
    <3>1. importing[w] \in ImportJob
      BY ImportAt
    <3> QED
      BY <3>1 DEF ImportJob, AssetPcs
  <2>4. importing' = [importing EXCEPT ![w] = i]
    BY <1>5, ImportAt DEF InstructTypeOK, ImportJob
  <2> HIDE DEF i
  <2>10. UNCHANGED <<asset, aside>>
    BY <1>5
  <2>5. InstructTypeOK(w)' /\ importing'[w] = i
    BY <1>1, <2>2, <2>3, <2>4, <2>10, ImportAt, ImportSteps DEF ImportJob
  <2>6. Restored(w)' = Restored(w)
    BY <1>2, <2>2, <2>3, <2>5 DEF Restored
  <2>7. \A q \in AssetKinds : OldFile(w, q)' = OldFile(w, q)
    BY <1>1, <2>3, <2>5, <2>10 DEF OldFile, Replacing
  <2>8. ExpectedInv(w)'
    BY <1>1, <2>6, <2>7 DEF InstructInv, ExpectedInv
  <2>9. ImportingInv(w)'
    BY <1>3, <2>2, <2>3, <2>5, <2>6, <2>10 DEF ImportingInv, Replacing
  <2> QED
    BY <2>5, <2>8, <2>9 DEF InstructInv
<1> QED
  BY <1>4, <1>5 DEF SetManifestAside

LEMMA WriteManifestInv ==
    ASSUME NEW w, InstructInv(w), WriteManifest(w)
    PROVE  InstructInv(w)'
<1> DEFINE k == importing[w].kind
           M == AssetRecords \cup {NoManifest}
<1>1. importing[w].pc = "manifest" /\ assetImports' = assetImports /\ EndImport(w)
  BY DEF WriteManifest, AtStep
<1>2. Restored(w) = Recorded(manifest.backup)
  BY <1>1 DEF Restored
<1>3. /\ asset[k] = importing[w].part
      /\ importing[w].records = [Restored(w) EXCEPT ![k] = importing[w].part]
      /\ importing[w].part # Gone /\ manifest.target = NoManifest
      /\ importing[w].staged <=> manifest.backup # NoManifest
  BY <1>1 DEF InstructInv, ImportingInv, Replacing
<1>4. /\ manifest \in [target : M, backup : M] /\ k \in AssetKinds /\ importing[w].records \in AssetRecords
      /\ expects \in [AssetKinds -> BOOLEAN] /\ aside \in AssetRecords /\ asset \in AssetRecords
      /\ Restored(w) \in [AssetKinds -> Mark]
  BY ImportAt DEF AssetRecords
<1>5. CASE /\ manifest' = [target |-> importing[w].records,
                           backup |-> IF importing[w].staged THEN NoManifest ELSE manifest.backup]
           /\ aside' = IF importing[w].had THEN [aside EXCEPT ![k] = Gone] ELSE aside
           /\ Imported(k) /\ UNCHANGED asset
  <2>1. manifest' \in [target : M, backup : M] /\ manifest'.target = importing[w].records
    BY <1>4, <1>5
  <2>2. Recorded(manifest'.target) = importing[w].records
    BY <1>4, <2>1, MarksAre
  <2>3. aside' \in AssetRecords
    BY <1>4, <1>5, MarksAre DEF AssetRecords
  <2>4. /\ expects' \in [AssetKinds -> BOOLEAN] /\ halfway' \subseteq AssetKinds
        /\ \A q \in AssetKinds : q # k => /\ expects'[q] = expects[q]
                                          /\ q \notin halfway' => q \notin halfway
    BY <1>4, <1>5, ImportAt DEF Imported
  <2>5. \A q \in AssetKinds : expects'[q] /\ q \notin halfway' =>
            asset[q] # Gone /\ importing[w].records[q] = asset[q]
    <3> SUFFICES ASSUME NEW q \in AssetKinds, expects'[q], q \notin halfway'
                 PROVE  asset[q] # Gone /\ importing[w].records[q] = asset[q]
      OBVIOUS
    <3>1. CASE q = k
      BY <1>3, <1>4, <3>1
    <3>2. CASE q # k
      <4>1. OldFile(w, q) = asset[q]
        BY <3>2 DEF OldFile
      <4>2. asset[q] # Gone /\ Restored(w)[q] = asset[q]
        BY <2>4, <3>2, <4>1 DEF InstructInv, ExpectedInv
      <4> QED
        BY <1>3, <1>4, <3>2, <4>2
    <3> QED
      BY <3>1, <3>2
  <2>6. asset' = asset
    BY <1>5
  <2> QED
    BY <1>1, <1>4, <2>1, <2>2, <2>3, <2>4, <2>5, <2>6, ImportAt, ImportEnds
<1>6. CASE PutBack(w, k, Gone) /\ UNCHANGED <<expects, halfway>> /\ ManifestBack(w)
  <2>1. manifest' \in [target : M, backup : M] /\ manifest'.target = manifest.backup
    <3>1. CASE manifest.backup = NoManifest
      BY <1>3, <1>4, <1>6, <3>1 DEF ManifestBack
    <3>2. CASE manifest.backup # NoManifest
      BY <1>3, <1>4, <1>6, <3>2 DEF ManifestBack
    <3> QED
      BY <3>1, <3>2
  <2>2. /\ asset' \in AssetRecords /\ aside' \in AssetRecords
        /\ \A q \in AssetKinds : expects[q] /\ q \notin halfway => asset'[q] # Gone /\ Restored(w)[q] = asset'[q]
    BY <1>1, <1>6, MarksAre, PutBackRestores DEF Replacing
  <2>3. expects' = expects /\ halfway' = halfway
    BY <1>6
  <2> QED
    BY <1>1, <1>2, <1>4, <2>1, <2>2, <2>3, ImportAt, ImportEnds
<1> QED
  BY <1>5, <1>6 DEF WriteManifest

LEMMA InstructCrashInv ==
    ASSUME NEW w, InstructInv(w), InstructCrash
    PROVE  InstructInv(w)'
<1>1. /\ importing' = [v \in Importers |-> Settled]
      /\ UNCHANGED <<asset, aside, manifest, expects, assetImports>>
  BY DEF InstructCrash
<1>2. halfway' = halfway \cup
         {k \in AssetKinds : \/ manifest.target = NoManifest
                             \/ \E v \in Importers : ~AtStep(v, "idle") /\ importing[v].kind = k}
  BY DEF InstructCrash
<1>3. InstructTypeOK(w) /\ w \in Importers /\ Only(w)
  BY ImportAt
<1>4. EndImport(w)
  BY <1>1, <1>3 DEF EndImport, InstructTypeOK, Only
<1>5. halfway' \subseteq AssetKinds
  BY <1>2, ImportAt
<1>6. ASSUME NEW k \in AssetKinds, expects[k], k \notin halfway'
      PROVE  asset[k] # Gone /\ Recorded(manifest.target)[k] = asset[k]
  <2>1. /\ k \notin halfway /\ manifest.target # NoManifest
        /\ importing[w].pc # "idle" => importing[w].kind # k
    BY <1>2, <1>3, <1>6 DEF AtStep
  <2>2. importing[w].pc # "manifest"
    BY <2>1 DEF InstructInv, ImportingInv
  <2>3. OldFile(w, k) = asset[k]
    BY <2>1 DEF OldFile, Replacing
  <2>4. Restored(w) = Recorded(manifest.target)
    BY <2>2 DEF Restored
  <2> QED
    BY <1>6, <2>1, <2>3, <2>4 DEF InstructInv, ExpectedInv
<1> QED
  BY <1>1, <1>3, <1>4, <1>5, <1>6, ImportAt, ImportEnds

LEMMA ChangeAssetInv ==
    ASSUME NEW w, InstructInv(w), NEW k \in AssetKinds, ChangeAsset(k)
    PROVE  InstructInv(w)'
<1> DEFINE new == [digest |-> assetImports + 1, stamp |-> assetImports + 1]
<1>1. /\ importing[w].pc = "idle" /\ UNCHANGED <<aside, manifest, importing, halfway>>
      /\ asset' = [asset EXCEPT ![k] = new] /\ expects' = [expects EXCEPT ![k] = FALSE]
      /\ assetImports' = assetImports + 1
  BY ImportAt DEF ChangeAsset, AtStep
<1>2. InstructTypeOK(w)
  BY ImportAt
<1>3. new \in Mark
  BY <1>2 DEF InstructTypeOK, Mark
<1> HIDE DEF new
<1>4. InstructTypeOK(w)'
  BY <1>1, <1>2, <1>3 DEF InstructTypeOK, AssetRecords, Only
<1>5. ExpectedInv(w)'
  <2> SUFFICES ASSUME NEW q \in AssetKinds, expects'[q], q \notin halfway'
               PROVE  OldFile(w, q)' # Gone /\ Restored(w)'[q] = OldFile(w, q)'
    BY DEF ExpectedInv
  <2>1. q # k /\ expects[q] /\ q \notin halfway
    BY <1>1, <1>2 DEF InstructTypeOK
  <2>2. asset'[q] = asset[q]
    BY <1>1, <1>2, <2>1 DEF InstructTypeOK, AssetRecords
  <2>3. OldFile(w, q)' = OldFile(w, q) /\ Restored(w)' = Restored(w)
    BY <1>1, <2>2 DEF OldFile, Restored, Replacing
  <2> QED
    BY <2>1, <2>3 DEF InstructInv, ExpectedInv
<1>6. ImportingInv(w)'
  BY <1>1 DEF InstructInv, ImportingInv, Replacing
<1> QED
  BY <1>4, <1>5, <1>6 DEF InstructInv

\* When nothing is being imported, any importer may be the one.
LEMMA AnyImporter ==
    ASSUME NEW w, InstructInv(w), importing[w].pc = "idle", NEW v \in Importers
    PROVE  InstructInv(v)
<1>1. /\ InstructTypeOK(w) /\ Only(w) /\ importing[w] = Settled
      /\ Settled.pc = "idle" /\ "idle" \notin Replacing
  BY ImportAt DEF InstructInv, ImportingInv, Settled, Replacing
<1>2. \A u \in Importers : importing[u] = Settled
  BY <1>1 DEF Only
<1>3. InstructTypeOK(v)
  BY <1>1, <1>2 DEF InstructTypeOK, Only
<1>4. ExpectedInv(v)
  BY <1>1, <1>2 DEF InstructInv, ExpectedInv, OldFile, Restored
<1>5. ImportingInv(v)
  BY <1>1, <1>2 DEF ImportingInv, Replacing
<1> QED
  BY <1>3, <1>4, <1>5 DEF InstructInv

\* As long as no two imports ran at once there is one that may be running.
AloneInv == together \/ \E w \in Importers : InstructInv(w)

LEMMA AloneInitial == InstructInit => AloneInv
<1>1. PICK w \in Importers : TRUE
  BY InstructConstants
<1> QED
  BY <1>1, InstructInitInv DEF AloneInv

LEMMA AloneNextInv == AloneInv /\ [InstructNext]_instructVars => AloneInv'
<1> SUFFICES ASSUME AloneInv, [InstructNext]_instructVars, ~together' PROVE AloneInv'
  BY DEF AloneInv
<1>1. together => together'
  BY DEF InstructNext, CopyAsset, ReadManifest, SetAssetAside, CommitAsset, Permit,
     SetManifestAside, WriteManifest, InstructCrash, ChangeAsset, instructVars, ghostVars
<1>2. PICK w \in Importers : InstructInv(w)
  BY <1>1 DEF AloneInv
<1>3. /\ importing[w].pc = "idle" \/ importing[w].pc # "idle"
      /\ \A v \in Importers : v # w => importing[v].pc = "idle"
  BY <1>2, ImportAt DEF Only, Settled
<1>4. CASE UNCHANGED instructVars
  <2>1. InstructInv(w)'
    BY <1>2, <1>4 DEF instructVars, ghostVars, InstructInv, InstructTypeOK, ExpectedInv,
       ImportingInv, OldFile, Restored, Only
  <2> QED
    BY <2>1 DEF AloneInv
<1>5. ASSUME NEW v \in Importers, NEW k \in AssetKinds, NEW replace \in BOOLEAN,
             NEW good \in BOOLEAN, CopyAsset(v, k, replace, good)
      PROVE  AloneInv'
  <2>1. CASE good
    <3>1. importing[w].pc = "idle"
      BY <1>5, <2>1 DEF CopyAsset, AtStep
    <3>2. InstructInv(v)
      BY <1>2, <3>1, AnyImporter
    <3> QED
      BY <1>5, <3>2, CopyAssetInv DEF AloneInv
  <2>2. CASE ~good
    <3>1. /\ UNCHANGED <<asset, aside, manifest, importing, expects, halfway>>
          /\ assetImports' = assetImports + 1
      BY <1>5, <2>2 DEF CopyAsset
    <3>2. InstructInv(w)'
      <4>1. InstructTypeOK(w)'
        BY <1>2, <3>1 DEF InstructInv, InstructTypeOK, Only
      <4> QED
        BY <1>2, <3>1, <4>1 DEF InstructInv, ExpectedInv, ImportingInv, OldFile, Restored
    <3> QED
      BY <3>2 DEF AloneInv
  <2> QED
    BY <2>1, <2>2
<1>6. ASSUME NEW v \in Importers,
             \/ ReadManifest(v) \/ SetAssetAside(v) \/ CommitAsset(v) \/ Permit(v)
             \/ SetManifestAside(v) \/ WriteManifest(v)
      PROVE  AloneInv'
  <2>1. importing[v].pc # "idle"
    BY <1>6 DEF ReadManifest, SetAssetAside, CommitAsset, Permit, SetManifestAside,
       WriteManifest, AtStep
  <2>2. v = w
    BY <1>3, <2>1
  <2>3. InstructInv(w)'
    BY <1>2, <1>6, <2>2, ReadManifestInv, SetAssetAsideInv, CommitAssetInv, PermitInv,
       SetManifestAsideInv, WriteManifestInv
  <2> QED
    BY <2>3 DEF AloneInv
<1>7. CASE InstructCrash
  BY <1>2, <1>7, InstructCrashInv DEF AloneInv
<1>8. ASSUME NEW k \in AssetKinds, ChangeAsset(k) PROVE AloneInv'
  BY <1>2, <1>8, ChangeAssetInv DEF AloneInv
<1> QED
  BY <1>4, <1>5, <1>6, <1>7, <1>8 DEF InstructNext

\* Of a kind that two imports never shared, every record has the digest of
\* the file with its stamp: files always do, and the import that records one
\* finds its own file under the name.
SomeRecords == [AssetKinds -> [digest : Nat, stamp : Nat]]
SomeImport == [pc : AssetPcs, kind : AssetKinds, part : Mark, records : SomeRecords,
               had : BOOLEAN, staged : BOOLEAN]

KindType ==
    /\ asset \in AssetRecords /\ aside \in AssetRecords
    /\ manifest \in [target : SomeRecords \cup {NoManifest}, backup : SomeRecords \cup {NoManifest}]
    /\ importing \in [Importers -> SomeImport] /\ assetImports \in Nat

KindOK(k) ==
    /\ \A m \in {manifest.target, manifest.backup} : m # NoManifest => m[k] \in Mark
    /\ \A w \in Importers :
        /\ importing[w].records[k] \in Mark
        /\ importing[w].pc = "permit" /\ importing[w].kind = k => asset[k] = importing[w].part
    /\ \A v, w \in Importers :
        importing[v].pc # "idle" /\ importing[w].pc # "idle"
            /\ importing[v].kind = k /\ importing[w].kind = k => v = w

KindInv == KindType /\ \A k \in AssetKinds \ shared : KindOK(k)

LEMMA SomeMarks ==
    /\ \A f \in Mark : f \in [digest : Nat, stamp : Nat]
    /\ Gone \in Mark /\ NoRecords \in SomeRecords /\ \A k \in AssetKinds : NoRecords[k] \in Mark
    /\ Settled \in SomeImport /\ Settled.pc = "idle" /\ Settled.records = NoRecords
    /\ NoManifest \notin SomeRecords
<1>1. Gone \in Mark /\ \A f \in Mark : f \in [digest : Nat, stamp : Nat]
  BY DEF Gone, Mark
<1>2. NoRecords \in SomeRecords /\ \A k \in AssetKinds : NoRecords[k] \in Mark
  BY <1>1 DEF NoRecords, SomeRecords
<1>3. Settled \in SomeImport /\ Settled.pc = "idle" /\ Settled.records = NoRecords
  BY <1>1, <1>2 DEF Settled, SomeImport, AssetPcs, AssetKinds
<1>4. NoManifest \notin SomeRecords
  <2>1. DOMAIN NoManifest = {} /\ "runner" \in AssetKinds
    BY DEF NoManifest, AssetKinds
  <2> QED
    BY <2>1 DEF SomeRecords
<1> QED
  BY <1>1, <1>2, <1>3, <1>4

LEMMA KindInitial == InstructInit => KindInv
<1> SUFFICES ASSUME InstructInit PROVE KindInv
  OBVIOUS
<1>1. \A w \in Importers : importing[w] = Settled
  BY DEF InstructInit
<1>2. KindType
  BY SomeMarks, MarksAre DEF InstructInit, KindType
<1>3. ASSUME NEW k \in AssetKinds PROVE KindOK(k)
  BY <1>1, SomeMarks DEF InstructInit, KindOK
<1> QED
  BY <1>2, <1>3 DEF KindInv

\* A step of one import touches the file of its own kind only.
LEMMA KindStep ==
    ASSUME KindInv, NEW w \in Importers, NEW i \in SomeImport, importing[w].pc # "idle",
           importing' = [importing EXCEPT ![w] = i],
           i.pc # "idle" => i.kind = importing[w].kind,
           asset' \in AssetRecords, aside' \in AssetRecords,
           manifest' \in [target : SomeRecords \cup {NoManifest}, backup : SomeRecords \cup {NoManifest}],
           assetImports' = assetImports, shared' = shared,
           \A q \in AssetKinds : q # importing[w].kind => asset'[q] = asset[q],
           \A q \in AssetKinds \ shared :
               /\ \A m \in {manifest'.target, manifest'.backup} : m # NoManifest => m[q] \in Mark
               /\ i.records[q] \in Mark,
           i.pc = "permit" => asset'[i.kind] = i.part
    PROVE  KindInv'
<1>1. KindType'
  BY DEF KindInv, KindType
<1>2. ASSUME NEW k \in AssetKinds \ shared PROVE KindOK(k)'
  <2>1. KindOK(k) /\ importing \in [Importers -> SomeImport]
    BY DEF KindInv, KindType
  <2>2. importing'[w] = i /\ \A v \in Importers : v # w => importing'[v] = importing[v]
    BY <2>1
  <2>3. ASSUME NEW v \in Importers, NEW u \in Importers,
               importing'[v].pc # "idle", importing'[u].pc # "idle",
               importing'[v].kind = k, importing'[u].kind = k
        PROVE  v = u
    <3>1. /\ importing[v].pc # "idle" /\ importing[v].kind = k
          /\ importing[u].pc # "idle" /\ importing[u].kind = k
      BY <2>2, <2>3
    <3> QED
      BY <2>1, <3>1 DEF KindOK
  <2>4. ASSUME NEW v \in Importers
        PROVE  /\ importing'[v].records[k] \in Mark
               /\ importing'[v].pc = "permit" /\ importing'[v].kind = k => asset'[k] = importing'[v].part
    <3>1. CASE v = w
      BY <2>2, <3>1
    <3>2. CASE v # w
      <4>1. importing'[v] = importing[v] /\ importing[v].records[k] \in Mark
        BY <2>1, <2>2, <3>2 DEF KindOK
      <4>2. ASSUME importing[v].pc = "permit", importing[v].kind = k
            PROVE  asset'[k] = importing[v].part
        <5>1. importing[w].kind # k
          BY <2>1, <3>2, <4>2 DEF KindOK
        <5> QED
          BY <2>1, <4>2, <5>1 DEF KindOK
      <4> QED
        BY <4>1, <4>2
    <3> QED
      BY <3>1, <3>2
  <2> QED
    BY <2>3, <2>4 DEF KindOK
<1> QED
  BY <1>1, <1>2 DEF KindInv

\* The kinds, files and records that a step starts from.
LEMMA KindAt ==
    ASSUME KindInv, NEW w \in Importers
    PROVE  /\ importing[w] \in SomeImport /\ importing[w].kind \in AssetKinds
           /\ importing[w].part \in Mark /\ importing[w].records \in SomeRecords
           /\ asset \in [AssetKinds -> Mark] /\ aside \in [AssetKinds -> Mark]
           /\ manifest \in [target : SomeRecords \cup {NoManifest}, backup : SomeRecords \cup {NoManifest}]
           /\ \A pc \in AssetPcs :
                /\ [importing EXCEPT ![w].pc = pc] =
                        [importing EXCEPT ![w] = [importing[w] EXCEPT !.pc = pc]]
                /\ [importing[w] EXCEPT !.pc = pc] \in SomeImport
           /\ \A q \in AssetKinds \ shared :
                /\ importing[w].records[q] \in Mark
                /\ \A m \in {manifest.target, manifest.backup} : m # NoManifest => m[q] \in Mark
<1>1. importing[w] \in SomeImport /\ importing \in [Importers -> SomeImport]
  BY DEF KindInv, KindType
<1>2. \A pc \in AssetPcs : [importing[w] EXCEPT !.pc = pc] \in SomeImport
  BY <1>1 DEF SomeImport
<1>3. \A q \in AssetKinds \ shared :
        /\ importing[w].records[q] \in Mark
        /\ \A m \in {manifest.target, manifest.backup} : m # NoManifest => m[q] \in Mark
  BY DEF KindInv, KindOK
<1>4. importing[w].kind \in AssetKinds /\ importing[w].part \in Mark /\ importing[w].records \in SomeRecords
  BY <1>1 DEF SomeImport
<1>5. asset \in [AssetKinds -> Mark] /\ aside \in [AssetKinds -> Mark]
      /\ manifest \in [target : SomeRecords \cup {NoManifest}, backup : SomeRecords \cup {NoManifest}]
  BY DEF KindInv, KindType, AssetRecords
<1> QED
  BY <1>1, <1>2, <1>3, <1>4, <1>5

\* An import that ends, whatever it leaves of its kind.
LEMMA KindEnds ==
    ASSUME KindInv, NEW w \in Importers, importing[w].pc # "idle", EndImport(w),
           asset' \in AssetRecords, aside' \in AssetRecords,
           manifest' \in [target : SomeRecords \cup {NoManifest}, backup : SomeRecords \cup {NoManifest}],
           assetImports' = assetImports, shared' = shared,
           \A q \in AssetKinds : q # importing[w].kind => asset'[q] = asset[q],
           \A q \in AssetKinds \ shared :
               \A m \in {manifest'.target, manifest'.backup} : m # NoManifest => m[q] \in Mark
    PROVE  KindInv'
<1>1. importing' = [importing EXCEPT ![w] = Settled] /\ Settled \in SomeImport
      /\ Settled.pc = "idle" /\ \A q \in AssetKinds : Settled.records[q] \in Mark
  BY SomeMarks DEF EndImport
<1>2. Settled.pc # "permit"
  BY <1>1
<1> QED
  BY <1>1, <1>2, KindStep

LEMMA KindPutBack ==
    ASSUME KindInv, NEW w \in Importers, NEW otherwise \in Mark,
           PutBack(w, importing[w].kind, otherwise)
    PROVE  /\ asset' \in AssetRecords /\ aside' \in AssetRecords
           /\ \A q \in AssetKinds : q # importing[w].kind => asset'[q] = asset[q]
<1> DEFINE k == importing[w].kind
<1>1. k \in AssetKinds /\ Gone \in Mark /\ asset \in [AssetKinds -> Mark] /\ aside \in [AssetKinds -> Mark]
  BY KindAt, SomeMarks
<1>2. CASE asset' = [asset EXCEPT ![k] = aside[k]] /\ aside' = [aside EXCEPT ![k] = Gone]
  BY <1>1, <1>2 DEF AssetRecords
<1>3. CASE asset' = [asset EXCEPT ![k] = otherwise] /\ aside' = aside
  BY <1>1, <1>3 DEF AssetRecords
<1> QED
  BY <1>2, <1>3 DEF PutBack

LEMMA KindCopies ==
    ASSUME KindInv, NEW w \in Importers, NEW k \in AssetKinds,
           NEW replace \in BOOLEAN, NEW good \in BOOLEAN, CopyAsset(w, k, replace, good)
    PROVE  KindInv'
<1> DEFINE copy == [digest |-> assetImports + 1, stamp |-> assetImports + 1]
           new == [Settled EXCEPT !.pc = "read", !.kind = k, !.part = copy]
<1>1. /\ importing \in [Importers -> SomeImport] /\ importing[w].pc = "idle" /\ assetImports \in Nat
      /\ UNCHANGED <<asset, aside, manifest>> /\ assetImports' = assetImports + 1
  BY DEF KindInv, KindType, CopyAsset, AtStep
<1>2. copy \in Mark
  BY <1>1 DEF Mark
<1>3. /\ new \in SomeImport /\ new.pc = "read" /\ new.kind = k
      /\ new.records = NoRecords
  BY <1>2, SomeMarks DEF Settled, AssetPcs, SomeImport
<1>4. CASE good
  <2>1. importing' = [importing EXCEPT ![w] = new]
    BY <1>4 DEF CopyAsset
  <2>2. shared' = IF \E v \in {v \in Importers : ~AtStep(v, "idle")} : importing[v].kind = k
                  THEN shared \cup {k} ELSE shared
    BY <1>4 DEF CopyAsset
  <2> HIDE DEF new
  <2>3. importing'[w] = new /\ \A v \in Importers : v # w => importing'[v] = importing[v]
    BY <1>1, <2>1
  <2>4. KindType'
    BY <1>1, <1>3, <2>1 DEF KindInv, KindType
  <2>5. ASSUME NEW q \in AssetKinds \ shared' PROVE KindOK(q)'
    <3>1. q \notin shared /\ KindOK(q)
      BY <2>2, <2>5 DEF KindInv
    <3>2. ASSUME NEW v \in Importers
          PROVE  /\ importing'[v].records[q] \in Mark
                 /\ importing'[v].pc = "permit" /\ importing'[v].kind = q => asset'[q] = importing'[v].part
      <4>1. CASE v = w
        BY <1>3, <2>3, <4>1, SomeMarks
      <4>2. CASE v # w
        BY <1>1, <2>3, <3>1, <4>2 DEF KindOK
      <4> QED
        BY <4>1, <4>2
    <3>3. ASSUME NEW v \in Importers, v # w, importing'[v].pc # "idle", importing'[v].kind = q
          PROVE  q # k
      <4>1. importing[v].pc # "idle" /\ importing[v].kind = q
        BY <2>3, <3>3
      <4> QED
        BY <2>2, <2>5, <4>1 DEF AtStep
    <3>4. ASSUME NEW v \in Importers, NEW u \in Importers,
                 importing'[v].pc # "idle", importing'[u].pc # "idle",
                 importing'[v].kind = q, importing'[u].kind = q
          PROVE  v = u
      <4>1. CASE v = w \/ u = w
        BY <1>3, <2>3, <3>3, <3>4, <4>1
      <4>2. CASE v # w /\ u # w
        BY <2>3, <3>1, <3>4, <4>2 DEF KindOK
      <4> QED
        BY <4>1, <4>2
    <3>5. \A m \in {manifest'.target, manifest'.backup} : m # NoManifest => m[q] \in Mark
      BY <1>1, <3>1 DEF KindOK
    <3> QED
      BY <3>2, <3>4, <3>5 DEF KindOK
  <2> QED
    BY <2>4, <2>5 DEF KindInv
<1>5. CASE ~good
  <2>1. UNCHANGED <<importing, shared>>
    BY <1>5 DEF CopyAsset
  <2>2. \A q \in AssetKinds : KindOK(q)' <=> KindOK(q)
    BY <1>1, <2>1 DEF KindOK
  <2> QED
    BY <1>1, <2>1, <2>2 DEF KindInv, KindType
<1> QED
  BY <1>4, <1>5

LEMMA KindSteps ==
    ASSUME KindInv, NEW w \in Importers,
           \/ ReadManifest(w) \/ SetAssetAside(w) \/ CommitAsset(w) \/ Permit(w)
           \/ SetManifestAside(w) \/ WriteManifest(w)
    PROVE  KindInv'
<1> DEFINE k == importing[w].kind
           Manifests == [target : SomeRecords \cup {NoManifest}, backup : SomeRecords \cup {NoManifest}]
           Fine(m) == \A q \in AssetKinds \ shared : m # NoManifest => m[q] \in Mark
<1>0. /\ k \in AssetKinds /\ importing[w] \in SomeImport /\ Gone \in Mark
      /\ asset \in [AssetKinds -> Mark] /\ aside \in [AssetKinds -> Mark]
      /\ asset \in AssetRecords /\ aside \in AssetRecords /\ manifest \in Manifests
      /\ importing \in [Importers -> SomeImport]
      /\ \A q \in AssetKinds \ shared : importing[w].records[q] \in Mark
  BY KindAt, SomeMarks DEF AssetRecords, KindInv, KindType
<1>m. /\ Fine(manifest.target) /\ Fine(manifest.backup) /\ Fine(importing[w].records)
      /\ importing[w].records \in SomeRecords
  BY KindAt
<1>1. CASE ReadManifest(w)
  <2> DEFINE i == [importing[w] EXCEPT !.pc = "aside", !.records = Records, !.had = asset[k] # Gone]
  <2>1. UNCHANGED <<asset, aside, manifest, shared, assetImports>> /\ importing[w].pc = "read"
    BY <1>1 DEF ReadManifest, ghostVars, AtStep
  <2>2. importing' = [importing EXCEPT ![w] = i]
    BY <1>0, <1>1 DEF ReadManifest
  <2>3. Records \in SomeRecords /\ \A q \in AssetKinds \ shared : Records[q] \in Mark
    BY <1>0, <1>m, SomeMarks DEF Records
  <2>4. i \in SomeImport /\ i.pc = "aside" /\ i.kind = k /\ i.records = Records
    BY <1>0, <2>3 DEF SomeImport, AssetPcs
  <2> HIDE DEF i
  <2> QED
    BY <1>0, <1>m, <2>1, <2>2, <2>3, <2>4, KindStep
<1>2. CASE SetAssetAside(w)
  <2>1. UNCHANGED <<manifest, shared, assetImports>> /\ importing[w].pc = "aside"
    BY <1>2 DEF SetAssetAside, ghostVars, AtStep
  <2>2. /\ asset' \in AssetRecords /\ aside' \in AssetRecords
        /\ \A q \in AssetKinds : q # k => asset'[q] = asset[q]
    <3>1. \/ asset' = [asset EXCEPT ![k] = Gone]
          \/ asset' = asset
      BY <1>2 DEF SetAssetAside
    <3>2. \/ aside' = [aside EXCEPT ![k] = asset[k]]
          \/ aside' = [aside EXCEPT ![k] = Gone]
          \/ aside' = aside
      BY <1>2 DEF SetAssetAside
    <3> QED
      BY <1>0, <3>1, <3>2 DEF AssetRecords
  <2>3. CASE EndImport(w)
    BY <1>0, <1>m, <2>1, <2>2, <2>3, KindEnds
  <2>4. CASE GoTo(w, "commit")
    <3> DEFINE i == [importing[w] EXCEPT !.pc = "commit"]
    <3>1. importing' = [importing EXCEPT ![w] = i] /\ i \in SomeImport
      BY <2>4, KindAt DEF GoTo, AssetPcs
    <3>2. i.pc = "commit" /\ i.kind = k /\ i.records = importing[w].records
      BY <1>0 DEF SomeImport
    <3> HIDE DEF i
    <3> QED
      BY <1>0, <1>m, <2>1, <2>2, <3>1, <3>2, KindStep
  <2> QED
    BY <1>2, <2>3, <2>4 DEF SetAssetAside
<1>3. CASE CommitAsset(w)
  <2>1. UNCHANGED <<manifest, shared, assetImports>> /\ importing[w].pc = "commit"
    BY <1>3 DEF CommitAsset, ghostVars, AtStep
  <2>2. CASE EndImport(w) /\ PutBack(w, k, asset[k])
    <3>1. asset[k] \in Mark
      BY <1>0
    <3>2. /\ asset' \in AssetRecords /\ aside' \in AssetRecords
          /\ \A q \in AssetKinds : q # k => asset'[q] = asset[q]
      BY <2>2, <3>1, KindPutBack
    <3> QED
      BY <1>0, <1>m, <2>1, <2>2, <3>2, KindEnds
  <2>3. CASE asset' = [asset EXCEPT ![k] = importing[w].part] /\ GoTo(w, "permit") /\ UNCHANGED aside
    <3> DEFINE i == [importing[w] EXCEPT !.pc = "permit"]
    <3>1. importing' = [importing EXCEPT ![w] = i] /\ i \in SomeImport
      BY <2>3, KindAt DEF GoTo, AssetPcs
    <3>2. /\ i.pc = "permit" /\ i.kind = k /\ i.records = importing[w].records
          /\ i.part = importing[w].part /\ i.part \in Mark
      BY <1>0 DEF SomeImport
    <3>3. /\ asset' \in AssetRecords /\ asset'[k] = importing[w].part
          /\ \A q \in AssetKinds : q # k => asset'[q] = asset[q]
      BY <1>0, <2>3, <3>2 DEF AssetRecords
    <3> HIDE DEF i
    <3>4. /\ asset'[i.kind] = i.part /\ aside' \in AssetRecords /\ manifest' \in Manifests
          /\ Fine(manifest'.target) /\ Fine(manifest'.backup) /\ Fine(i.records)
          /\ \A q \in AssetKinds \ shared : i.records[q] \in Mark
      BY <1>0, <1>m, <2>1, <2>3, <3>2, <3>3
    <3> QED
      BY <2>1, <3>1, <3>2, <3>3, <3>4, KindStep
  <2> QED
    BY <1>3, <2>2, <2>3 DEF CommitAsset
<1>4. CASE Permit(w)
  <2>1. UNCHANGED <<asset, aside, manifest, shared, assetImports>> /\ importing[w].pc = "permit"
    BY <1>4 DEF Permit, AtStep
  <2>2. CASE EndImport(w)
    BY <1>0, <1>m, <2>1, <2>2, KindEnds
  <2>3. CASE importing' = [importing EXCEPT ![w].pc = "manifest-aside",
                ![w].records[k] = [digest |-> importing[w].part.digest, stamp |-> asset[k].stamp]]
    <3> DEFINE f == [digest |-> importing[w].part.digest, stamp |-> asset[k].stamp]
               r == [importing[w].records EXCEPT ![k] = f]
               i == [importing[w] EXCEPT !.pc = "manifest-aside", !.records = r]
    <3>1. importing' = [importing EXCEPT ![w] = i]
      BY <1>0, <2>3
    <3>2. f \in [digest : Nat, stamp : Nat]
      <4>1. importing[w].part \in Mark /\ asset[k] \in Mark
        BY <1>0 DEF SomeImport
      <4> QED
        BY <4>1 DEF Mark
    <3>3. k \notin shared => f \in Mark
      <4> SUFFICES ASSUME k \notin shared PROVE f \in Mark
        OBVIOUS
      <4>1. asset[k] = importing[w].part
        BY <1>0, <2>1 DEF KindInv, KindOK
      <4>2. importing[w].part \in Mark
        BY <1>0 DEF SomeImport
      <4> QED
        BY <4>1, <4>2 DEF Mark
    <3> HIDE DEF f
    <3>4. r \in SomeRecords /\ \A q \in AssetKinds \ shared : r[q] \in Mark
      BY <1>0, <1>m, <3>2, <3>3 DEF SomeRecords
    <3> HIDE DEF r
    <3>5. i \in SomeImport /\ i.pc = "manifest-aside" /\ i.kind = k /\ i.records = r
      BY <1>0, <3>4 DEF SomeImport, AssetPcs
    <3> HIDE DEF i
    <3> QED
      BY <1>0, <1>m, <2>1, <3>1, <3>4, <3>5, KindStep
  <2> QED
    BY <1>4, <2>2, <2>3 DEF Permit
<1>5. CASE SetManifestAside(w)
  <2>1. UNCHANGED <<shared, assetImports>> /\ importing[w].pc = "manifest-aside"
    BY <1>5 DEF SetManifestAside, ghostVars, AtStep
  <2>2. CASE EndImport(w) /\ PutBack(w, k, Gone) /\ UNCHANGED manifest
    <3>1. /\ asset' \in AssetRecords /\ aside' \in AssetRecords
          /\ \A q \in AssetKinds : q # k => asset'[q] = asset[q]
      BY <1>0, <2>2, KindPutBack
    <3> QED
      BY <1>0, <1>m, <2>1, <2>2, <3>1, KindEnds
  <2>3. CASE /\ manifest' = IF manifest.target = NoManifest THEN [manifest EXCEPT !.backup = NoManifest]
                            ELSE [target |-> NoManifest, backup |-> manifest.target]
             /\ importing' = [importing EXCEPT ![w].pc = "manifest",
                                               ![w].staged = manifest.target # NoManifest]
             /\ UNCHANGED <<asset, aside>>
    <3> DEFINE i == [importing[w] EXCEPT !.pc = "manifest", !.staged = manifest.target # NoManifest]
    <3>1. importing' = [importing EXCEPT ![w] = i]
      BY <1>0, <2>3
    <3>2. i \in SomeImport /\ i.pc = "manifest" /\ i.kind = k /\ i.records = importing[w].records
      BY <1>0 DEF SomeImport, AssetPcs
    <3>3. manifest' \in Manifests /\ Fine(manifest'.target) /\ Fine(manifest'.backup)
      BY <1>0, <1>m, <2>3
    <3> HIDE DEF i
    <3>4. /\ asset' \in AssetRecords /\ aside' \in AssetRecords /\ i.pc # "permit"
          /\ \A q \in AssetKinds \ shared : i.records[q] \in Mark
          /\ \A q \in AssetKinds : q # k => asset'[q] = asset[q]
      BY <1>0, <1>m, <2>3, <3>2
    <3> QED
      BY <2>1, <3>1, <3>2, <3>3, <3>4, KindStep
  <2> QED
    BY <1>5, <2>2, <2>3 DEF SetManifestAside
<1>6. CASE WriteManifest(w)
  <2>1. UNCHANGED <<shared, assetImports>> /\ importing[w].pc = "manifest" /\ EndImport(w)
    BY <1>6 DEF WriteManifest, AtStep
  <2>2. CASE PutBack(w, k, Gone) /\ ManifestBack(w)
    <3>1. /\ asset' \in AssetRecords /\ aside' \in AssetRecords
          /\ \A q \in AssetKinds : q # k => asset'[q] = asset[q]
      BY <1>0, <2>2, KindPutBack
    <3>2. manifest' \in Manifests /\ Fine(manifest'.target) /\ Fine(manifest'.backup)
      BY <1>0, <1>m, <2>2 DEF ManifestBack
    <3> QED
      BY <1>0, <2>1, <3>1, <3>2, KindEnds
  <2>3. CASE /\ manifest' = [target |-> importing[w].records,
                             backup |-> IF importing[w].staged THEN NoManifest ELSE manifest.backup]
             /\ aside' = IF importing[w].had THEN [aside EXCEPT ![k] = Gone] ELSE aside
             /\ UNCHANGED asset
    <3>1. asset' \in AssetRecords /\ aside' \in AssetRecords
      BY <1>0, <2>3 DEF AssetRecords
    <3>2. manifest' \in Manifests /\ Fine(manifest'.target) /\ Fine(manifest'.backup)
      BY <1>0, <1>m, <2>3
    <3> QED
      BY <1>0, <2>1, <2>3, <3>1, <3>2, KindEnds
  <2> QED
    BY <1>6, <2>2, <2>3 DEF WriteManifest
<1> QED
  BY <1>1, <1>2, <1>3, <1>4, <1>5, <1>6

LEMMA KindNextInv ==
    ASSUME KindInv, [InstructNext]_instructVars
    PROVE  KindInv'
<1>1. CASE UNCHANGED instructVars
  <2>1. UNCHANGED <<asset, aside, manifest, importing, shared, assetImports>>
    BY <1>1 DEF instructVars, ghostVars
  <2>2. \A q \in AssetKinds : KindOK(q)' <=> KindOK(q)
    BY <2>1 DEF KindOK
  <2> QED
    BY <2>1, <2>2 DEF KindInv, KindType
<1>2. CASE InstructCrash
  <2>1. /\ UNCHANGED <<asset, aside, manifest, shared, assetImports>>
        /\ importing' = [w \in Importers |-> Settled]
    BY <1>2 DEF InstructCrash
  <2>2. KindType'
    BY <2>1, SomeMarks DEF KindInv, KindType
  <2>3. \A q \in AssetKinds \ shared : KindOK(q)'
    BY <2>1, SomeMarks DEF KindInv, KindOK
  <2> QED
    BY <2>1, <2>2, <2>3 DEF KindInv
<1>3. ASSUME NEW k \in AssetKinds, ChangeAsset(k) PROVE KindInv'
  <2> DEFINE f == [digest |-> assetImports + 1, stamp |-> assetImports + 1]
  <2>1. /\ UNCHANGED <<aside, manifest, importing, shared>> /\ assetImports' = assetImports + 1
        /\ asset' = [asset EXCEPT ![k] = f] /\ \A w \in Importers : importing[w].pc = "idle"
    BY <1>3 DEF ChangeAsset, AtStep
  <2>2. f \in Mark
    BY DEF KindInv, KindType, Mark
  <2> HIDE DEF f
  <2>3. KindType'
    BY <2>1, <2>2 DEF KindInv, KindType, AssetRecords
  <2>4. \A q \in AssetKinds \ shared : KindOK(q)'
    BY <2>1 DEF KindInv, KindOK
  <2> QED
    BY <2>1, <2>3, <2>4 DEF KindInv
<1> QED
  BY <1>1, <1>2, <1>3, KindCopies, KindSteps DEF InstructNext

LEMMA InstructIsSound ==
    ASSUME AloneInv, KindInv
    PROVE  RunsVerified /\ ImportedStaysUsable
<1>1. RunsVerified
  <2> SUFFICES ASSUME NEW k \in AssetKinds \ shared, Verified(k)
               PROVE  asset[k].digest = Records[k].digest
    BY DEF RunsVerified
  <2>1. asset[k] \in Mark
    BY DEF KindInv, KindType, AssetRecords
  <2>2. Records[k] \in Mark
    BY SomeMarks DEF KindInv, KindOK, Records
  <2> QED
    BY <2>1, <2>2 DEF Verified, Mark
<1>2. ImportedStaysUsable
  <2> SUFFICES ASSUME ~together, \A w \in Importers : importing[w].pc = "idle",
                      NEW k \in AssetKinds \ halfway, expects[k]
               PROVE  Verified(k)
    BY DEF ImportedStaysUsable, AtStep
  <2>1. PICK w \in Importers : InstructInv(w)
    BY DEF AloneInv
  <2>2. asset[k] # Gone /\ Records[k] = asset[k]
    BY <2>1, RecordsAre DEF InstructInv, ExpectedInv, OldFile, Restored, Replacing
  <2> QED
    BY <2>2 DEF Verified
<1> QED
  BY <1>1, <1>2

-----------------------------------------------------------------------------
(* The Parakeet package *)

\* A required member was seen exactly when it was written whole.
ExtractInv ==
    /\ extraction \in {"reading", "failed", "extracted"}
    /\ extracted \in [Required -> {"absent", "whole"}]
    /\ extraction # "failed" => \A m \in Required : m \in seen => extracted[m] = "whole"
    /\ extraction = "extracted" => Required \subseteq seen
    /\ extraction = "failed" => extracted = Unwritten

LEMMA ExtractInitInv == ExtractInit => ExtractInv
BY DEF ExtractInit, ExtractInv, Unwritten

LEMMA RejectInv ==
    ASSUME ExtractInv, RejectArchive PROVE ExtractInv'
BY DEF ExtractInv, RejectArchive, Unwritten

LEMMA ExtractNextInv ==
    ASSUME ExtractInv, [ExtractNext]_extractVars
    PROVE  ExtractInv'
<1>1. CASE UNCHANGED extractVars
  BY <1>1 DEF extractVars, ExtractInv
<1>2. ASSUME NEW e \in Entries, ReadEntry(e) PROVE ExtractInv'
  <2>1. CASE RejectArchive
    BY <2>1, RejectInv
  <2>2. CASE /\ Admissible(e) /\ seen' = seen \cup {Folded(e.path)} /\ UNCHANGED extraction
             /\ extracted' = IF e.path \in Required THEN [extracted EXCEPT ![e.path] = "whole"] ELSE extracted
    <3>1. extraction = "reading"
      BY <1>2 DEF ReadEntry
    <3>2. extracted' \in [Required -> {"absent", "whole"}]
      BY <2>2 DEF ExtractInv
    <3>3. ASSUME NEW m \in Required, m \in seen' PROVE extracted'[m] = "whole"
      <4>1. CASE m \in seen
        BY <2>2, <3>1, <4>1 DEF ExtractInv
      <4>2. CASE m = Folded(e.path)
        <5>1. e.path \in Required /\ e.path = m
          BY <2>2, <4>2 DEF Admissible, Folded, Members, Directories, Required
        <5> QED
          BY <2>2, <5>1 DEF ExtractInv
      <4> QED
        BY <2>2, <3>3, <4>1, <4>2
    <3> QED
      BY <2>2, <3>1, <3>2, <3>3 DEF ExtractInv
  <2> QED
    BY <1>2, <2>1, <2>2 DEF ReadEntry
<1>3. CASE CancelExtraction
  BY <1>3, RejectInv DEF CancelExtraction
<1>4. CASE EndOfArchive
  <2>1. CASE RejectArchive
    BY <2>1, RejectInv
  <2>2. CASE Required \subseteq seen /\ extraction' = "extracted" /\ UNCHANGED <<seen, extracted, entriesRead>>
    BY <1>4, <2>2 DEF ExtractInv, EndOfArchive
  <2> QED
    BY <1>4, <2>1, <2>2 DEF EndOfArchive
<1> QED
  BY <1>1, <1>2, <1>3, <1>4 DEF ExtractNext

LEMMA ExtractIsWhole == ExtractInv => ExtractedIsWhole
BY DEF ExtractInv, ExtractedIsWhole

\* A stamp that was noted for a member is at most the one it has, and when it
\* is that one the member was hashed as it is.
Noted(m, stamp) ==
    stamp \in Nat /\ stamp <= member[m].stamp /\ (stamp = member[m].stamp => member[m].content = "whole")

Remembers(f) == DOMAIN f \subseteq Required /\ \A m \in DOMAIN f : Noted(m, f[m])

PackagePcs == {"idle", "member", "hash", "cache"}

PackageInv ==
    /\ member \in [Required -> [content : {"whole", "other"}, stamp : Nat]]
    /\ Remembers(cache) /\ Remembers(verifying.done)
    /\ verifying.pc = "hash" =>
           /\ DOMAIN verifying.done # Required
           /\ verifying.at \in Nat /\ verifying.at <= member[NextMember].stamp
    /\ verifying.pc = "cache" => DOMAIN verifying.done = Required
    /\ verifying \in [pc : PackagePcs, done : {verifying.done}, at : {verifying.at}]
    /\ AcceptedIsWhole

LEMMA PackageInitInv == PackageInit => PackageInv
<1> SUFFICES ASSUME PackageInit PROVE PackageInv
  OBVIOUS
<1>1. DOMAIN NoCache = {}
  BY DEF NoCache
<1>2. Remembers(NoCache)
  BY <1>1 DEF Remembers
<1> QED
  BY <1>2 DEF PackageInit, PackageInv, NotVerifying, AcceptedIsWhole, PackagePcs

LEMMA PackageNextInv ==
    ASSUME PackageInv, [PackageNext]_packageVars
    PROVE  PackageInv'
<1>0. /\ DOMAIN NoCache = {} /\ Remembers(NoCache)
      /\ NotVerifying.pc = "idle" /\ NotVerifying.done = NoCache
  BY DEF NoCache, Remembers, NotVerifying
<1>1. CASE UNCHANGED packageVars
  BY <1>1 DEF packageVars, PackageInv, Remembers, Noted, NextMember, AcceptedIsWhole
<1>2. ASSUME NEW quick \in BOOLEAN, BeginPackage(quick) PROVE PackageInv'
  <2>1. UNCHANGED <<member, strays, cache, touches>>
    BY <1>2 DEF BeginPackage
  <2>2. CASE UNCHANGED <<verifying, accepted>>
    BY <2>1, <2>2 DEF PackageInv, Remembers, Noted, NextMember, AcceptedIsWhole
  <2>3. CASE CacheValid /\ Accept(Required) /\ UNCHANGED verifying
    <3>1. AcceptedIsWhole'
      BY <2>3 DEF CacheValid, Accept, PackageInv, Remembers, Noted, AcceptedIsWhole
    <3> QED
      BY <2>1, <2>3, <3>1 DEF PackageInv, Remembers, Noted, NextMember
  <2>4. CASE verifying' = [NotVerifying EXCEPT !.pc = "member"] /\ UNCHANGED accepted
    <3>1. verifying'.pc = "member" /\ verifying'.done = NoCache
          /\ verifying' \in [pc : PackagePcs, done : {verifying'.done}, at : {verifying'.at}]
      BY <2>4 DEF NotVerifying, PackagePcs
    <3>2. Remembers(NoCache)'
      BY <1>0, <2>1 DEF Remembers, Noted
    <3> QED
      BY <2>1, <2>4, <3>1, <3>2 DEF PackageInv, Remembers, Noted, AcceptedIsWhole
  <2> QED
    BY <1>2, <2>2, <2>3, <2>4 DEF BeginPackage
<1>3. CASE LookAtMember
  <2>1. UNCHANGED <<member, strays, cache, accepted, touches>> /\ DOMAIN verifying.done # Required
    BY <1>3 DEF LookAtMember
  <2>2. verifying' = [verifying EXCEPT !.pc = "hash", !.at = member[NextMember].stamp]
    BY <1>3 DEF LookAtMember
  <2>3. /\ verifying'.pc = "hash" /\ verifying'.done = verifying.done
        /\ verifying'.at = member[NextMember].stamp
        /\ verifying' \in [pc : PackagePcs, done : {verifying'.done}, at : {verifying'.at}]
    BY <2>2 DEF PackageInv, PackagePcs
  <2>4. NextMember' = NextMember
    BY <2>3 DEF NextMember
  <2>5. NextMember \in Required
    BY <2>1 DEF NextMember, PackageInv, Remembers
  <2>6. member[NextMember].stamp \in Nat
    BY <2>5 DEF PackageInv
  <2> QED
    BY <2>1, <2>3, <2>4, <2>6 DEF PackageInv, Remembers, Noted, AcceptedIsWhole
<1>4. CASE HashMember
  <2>1. UNCHANGED <<member, strays, cache, accepted, touches>> /\ verifying.pc = "hash"
    BY <1>4 DEF HashMember
  <2>2. CASE verifying' = NotVerifying
    <3>1. Remembers(NoCache)'
      BY <1>0, <2>1 DEF Remembers, Noted
    <3>2. /\ verifying'.pc = "idle" /\ verifying'.done = NoCache
          /\ verifying' \in [pc : PackagePcs, done : {verifying'.done}, at : {verifying'.at}]
      BY <2>2 DEF NotVerifying, PackagePcs
    <3> QED
      BY <2>1, <3>1, <3>2 DEF PackageInv, Remembers, Noted, AcceptedIsWhole
  <2>3. CASE /\ member[NextMember].content = "whole"
             /\ verifying' = [verifying EXCEPT !.pc = "member", !.done = Put(@, NextMember, verifying.at)]
    <3> DEFINE n == NextMember
               d == Put(verifying.done, n, verifying.at)
    <3>1. /\ verifying'.pc = "member" /\ verifying'.done = d
          /\ verifying' \in [pc : PackagePcs, done : {verifying'.done}, at : {verifying'.at}]
      BY <2>3 DEF PackageInv, PackagePcs
    <3>2. n \in Required
      BY <2>1 DEF NextMember, PackageInv, Remembers
    <3>3. Noted(n, verifying.at)
      BY <2>1, <2>3 DEF Noted, PackageInv
    <3>4. DOMAIN d = DOMAIN verifying.done \cup {n}
      BY DEF Put
    <3>5. \A m \in DOMAIN d : d[m] = IF m = n THEN verifying.at ELSE verifying.done[m]
      BY DEF Put
    <3> HIDE DEF d, n
    <3>6. Remembers(d)
      BY <3>2, <3>3, <3>4, <3>5 DEF Remembers, PackageInv
    <3> QED
      BY <2>1, <3>1, <3>6 DEF PackageInv, Remembers, Noted, AcceptedIsWhole
  <2> QED
    BY <1>4, <2>2, <2>3 DEF HashMember
<1>5. CASE StageCache
  <2>1. UNCHANGED <<member, cache, accepted>> /\ DOMAIN verifying.done = Required
        /\ verifying' = [verifying EXCEPT !.pc = "cache"]
    BY <1>5 DEF StageCache
  <2>2. /\ verifying'.pc = "cache" /\ verifying'.done = verifying.done
        /\ verifying' \in [pc : PackagePcs, done : {verifying'.done}, at : {verifying'.at}]
    BY <2>1 DEF PackageInv, PackagePcs
  <2> QED
    BY <2>1, <2>2 DEF PackageInv, Remembers, Noted, AcceptedIsWhole
<1>6. CASE WriteCache \/ CacheCut
  <2>1. /\ member' = member /\ verifying' = NotVerifying /\ verifying.pc = "cache"
        /\ cache' = verifying.done \/ cache' = cache \/ cache' = NoCache
    BY <1>6 DEF WriteCache, CacheCut
  <2>2. Remembers(NoCache)' /\ Remembers(cache)'
    BY <1>0, <2>1 DEF PackageInv, Remembers, Noted
  <2>3. /\ verifying'.pc = "idle" /\ verifying'.done = NoCache
        /\ verifying' \in [pc : PackagePcs, done : {verifying'.done}, at : {verifying'.at}]
    BY <2>1 DEF NotVerifying, PackagePcs
  <2>4. AcceptedIsWhole'
    <3>1. CASE WriteCache
      <4>1. accepted' = {m \in {q \in Required : verifying.done[q] = member[q].stamp} :
                            member[m].content # "whole"}
        BY <3>1 DEF WriteCache, Accept
      <4>2. \A q \in Required : Noted(q, verifying.done[q])
        BY <2>1 DEF PackageInv, Remembers
      <4> QED
        BY <4>1, <4>2 DEF Noted, AcceptedIsWhole
    <3>2. CASE CacheCut
      BY <3>2 DEF CacheCut, PackageInv, AcceptedIsWhole
    <3> QED
      BY <1>6, <3>1, <3>2
  <2> QED
    BY <2>1, <2>2, <2>3, <2>4 DEF PackageInv, Remembers, Noted
<1>7. CASE DropFile
  BY <1>7 DEF DropFile, PackageInv, Remembers, Noted, NextMember, AcceptedIsWhole
<1>8. ASSUME NEW m \in Required, NEW content \in {"whole", "other"}, Touch(m, content)
      PROVE  PackageInv'
  <2>1. /\ member' = [member EXCEPT ![m] = [content |-> content, stamp |-> member[m].stamp + 1]]
        /\ UNCHANGED <<strays, cache, verifying, accepted>>
    BY <1>8 DEF Touch
  <2>2. member \in [Required -> [content : {"whole", "other"}, stamp : Nat]]
    BY DEF PackageInv
  <2>3. member' \in [Required -> [content : {"whole", "other"}, stamp : Nat]]
    BY <2>1, <2>2
  <2>4. /\ member'[m].stamp = member[m].stamp + 1
        /\ \A q \in Required : q # m => member'[q] = member[q]
        /\ \A q \in Required : member[q].stamp \in Nat /\ member[q].stamp <= member'[q].stamp
    BY <2>1, <2>2
  <2>5. ASSUME NEW q \in Required, NEW s, Noted(q, s) PROVE Noted(q, s)'
    BY <2>4, <2>5 DEF Noted
  <2>6. Remembers(cache)' /\ Remembers(verifying.done)'
    BY <2>1, <2>5 DEF PackageInv, Remembers
  <2>7. verifying.pc = "hash" => verifying.at <= member'[NextMember].stamp
    <3> SUFFICES ASSUME verifying.pc = "hash" PROVE verifying.at <= member'[NextMember].stamp
      OBVIOUS
    <3>1. NextMember \in Required
      BY DEF NextMember, PackageInv, Remembers
    <3>2. verifying.at \in Nat /\ verifying.at <= member[NextMember].stamp
      BY DEF PackageInv
    <3>3. member[NextMember].stamp \in Nat /\ member'[NextMember].stamp \in Nat
          /\ member[NextMember].stamp <= member'[NextMember].stamp
      BY <2>3, <2>4, <3>1
    <3> QED
      BY <3>2, <3>3
  <2>8. NextMember' = NextMember
    BY <2>1 DEF NextMember
  <2> QED
    BY <2>1, <2>3, <2>6, <2>7, <2>8 DEF PackageInv, AcceptedIsWhole
<1> QED
  BY <1>1, <1>2, <1>3, <1>4, <1>5, <1>6, <1>7, <1>8 DEF PackageNext

---------------------------------------------------------------------------
(* The bundled manifest.                                                   *)

BundleInv == records \in Seq(BundleRecords)

\* The places that verified_asset chooses from.
Matching(capability, kind, model) ==
    {i \in DOMAIN records :
        /\ OnHost(i) /\ records[i].capability = capability /\ records[i].kind = kind
        /\ model = "any" \/ records[i].model = model}

\* A set of numbers that is not empty has a least one.
LEMMA LeastNumber ==
    ASSUME NEW T \in SUBSET Nat, T # {}
    PROVE  \E n \in T : \A m \in T : n <= m
<1> DEFINE Less == {ss \in Nat \X Nat : ss[1] < ss[2]}
<1>1. IsWellFoundedOn(Less, Nat)
  BY NatLessThanWellFounded, Zenon DEF OpToRel
<1>2. \E n \in T : \A m \in T : <<m, n>> \notin Less
  <2> HIDE DEF Less
  <2> QED
    BY <1>1, WFMin
<1>3. ASSUME NEW n \in T, NEW m \in T, <<m, n>> \notin Less
      PROVE  n <= m
  <2>1. n \in Nat /\ m \in Nat
    OBVIOUS
  <2> QED
    BY <1>3, <2>1
<1> QED
  BY <1>2, <1>3

\* Of some places of a sequence one is the last.
LEMMA LastPlace ==
    ASSUME NEW n \in Nat, NEW T \in SUBSET (1..n), T # {}
    PROVE  \E i \in T : \A j \in T : j <= i
<1> DEFINE U == {u \in Nat : \E i \in T : u = n - i}
<1>1. \A i \in T : i \in Nat /\ n - i \in Nat
  OBVIOUS
<1>2. U \in SUBSET Nat /\ U # {}
  BY <1>1
<1>3. PICK u \in U : \A v \in U : u <= v
  <2> HIDE DEF U
  <2> QED
    BY <1>2, LeastNumber
<1>4. PICK i \in T : u = n - i
  OBVIOUS
<1>5. ASSUME NEW j \in T PROVE j <= i
  <2>1. n - j \in U
    BY <1>1
  <2>2. n - i <= n - j
    BY <1>3, <1>4, <2>1
  <2> QED
    BY <1>1, <2>2
<1> QED
  BY <1>5

\* verified_asset chooses one of the places that match.
LEMMA VerifiedIsMatching ==
    ASSUME BundleInv, NEW capability, NEW kind, NEW model,
           ManifestValid, Matching(capability, kind, model) # {}
    PROVE  \E i \in Matching(capability, kind, model) :
             VerifiedAsset(capability, kind, model) =
               IF Verifies(i) THEN [state |-> "verified", id |-> records[i].id] ELSE FailedAsset
<1> DEFINE M == Matching(capability, kind, model)
           L == CHOOSE i \in M : \A j \in M : j <= i
<1>1. DOMAIN records = 1..Len(records) /\ Len(records) \in Nat
  BY DEF BundleInv
<1>2. M \in SUBSET (1..Len(records)) /\ M # {}
  BY <1>1 DEF Matching
<1>3. \E i \in M : \A j \in M : j <= i
  <2> HIDE DEF M
  <2> QED
    BY <1>1, <1>2, LastPlace
<1>4. L \in M
  BY <1>3
<1>5. VerifiedAsset(capability, kind, model) =
        IF Verifies(L) THEN [state |-> "verified", id |-> records[L].id] ELSE FailedAsset
  BY DEF VerifiedAsset, Matching
<1> QED
  BY <1>4, <1>5

LEMMA NothingVerified ==
    ASSUME NEW capability, NEW kind, NEW model,
           ~ManifestValid \/ Matching(capability, kind, model) = {}
    PROVE  VerifiedAsset(capability, kind, model) = None
BY DEF VerifiedAsset, Matching

\* The two readers agree where one place at most answers.
LEMMA OneAnswerAgrees ==
    ASSUME BundleInv, NEW capability, NEW kind, NEW model,
           ManifestValid => \A i, j \in Matching(capability, kind, model) : i = j
    PROVE  Agree(capability, kind, model)
<1> DEFINE M == Matching(capability, kind, model)
           F == {i \in BundleSnapshot :
                    /\ records[i].capability = capability /\ records[i].kind = kind
                    /\ model = "any" \/ records[i].model = model
                    /\ Verifies(i)}
           L == CHOOSE i \in F : \A j \in F : i <= j
<1>1. CachedAsset(capability, kind, model) =
        IF F = {} THEN None ELSE [state |-> "verified", id |-> records[L].id]
  BY DEF CachedAsset
<1>2. F = IF ManifestValid THEN {i \in M : Verifies(i)} ELSE {}
  BY DEF BundleSnapshot, Matching
<1>3. CASE ~ManifestValid \/ M = {}
  <2>1. F = {}
    BY <1>2, <1>3
  <2>2. VerifiedAsset(capability, kind, model) = None
    BY <1>3, NothingVerified
  <2> QED
    BY <1>1, <2>1, <2>2 DEF Agree
<1>4. CASE ManifestValid /\ M # {}
  <2>1. PICK i \in M :
          VerifiedAsset(capability, kind, model) =
            IF Verifies(i) THEN [state |-> "verified", id |-> records[i].id] ELSE FailedAsset
    BY <1>4, VerifiedIsMatching
  <2>2. M = {i}
    BY <1>4, <2>1
  <2>3. CASE Verifies(i)
    <3>1. F = {i}
      BY <1>2, <1>4, <2>2, <2>3
    <3>2. i \in Nat
      BY <2>1 DEF Matching, BundleInv
    <3>3. L = i
      <4> HIDE DEF F, M
      <4>1. \E k \in F : \A j \in F : k <= j
        BY <3>1, <3>2
      <4> QED
        BY <3>1, <4>1
    <3> QED
      BY <1>1, <2>1, <2>3, <3>1, <3>3 DEF Agree
  <2>4. CASE ~Verifies(i)
    <3>1. F = {}
      BY <1>2, <2>2, <2>4
    <3>2. CachedAsset(capability, kind, model) = None
      BY <1>1, <3>1
    <3>3. VerifiedAsset(capability, kind, model) = FailedAsset
      BY <2>1, <2>4
    <3>4. None.state = "none" /\ FailedAsset.state = "failed"
      BY DEF None, FailedAsset
    <3> QED
      BY <3>2, <3>3, <3>4 DEF Agree
  <2> QED
    BY <2>3, <2>4
<1> QED
  BY <1>3, <1>4

\* A valid manifest has one model of an id for this host.
LEMMA OneModelOfAnId ==
    ASSUME BundleInv, ManifestValid, NEW capability, NEW model, model # "any",
           NEW i \in Matching(capability, "model", model),
           NEW j \in Matching(capability, "model", model)
    PROVE  i = j
<1>1. /\ i \in DOMAIN records /\ j \in DOMAIN records /\ OnHost(i) /\ OnHost(j)
      /\ i \in Int /\ j \in Int
  BY DEF Matching, BundleInv
<1>2. Selector(records[i]) = Selector(records[j])
  BY DEF Matching, Selector
<1> QED
  BY <1>1, <1>2 DEF ManifestValid

LEMMA BundleReadersAgree ==
    ASSUME BundleInv PROVE ReadersAgree
<1>1. ASSUME NEW m \in {r.model : r \in BundleRecords}
      PROVE  Agree("speech", "model", m)
  <2>1. m # "any"
    BY <1>1, BundleConstants
  <2> QED
    BY <2>1, OneModelOfAnId, OneAnswerAgrees
<1>2. ASSUME Single("language", "model")
      PROVE  Agree("language", "model", "any")
  <2>1. \A i, j \in Matching("language", "model", "any") : i = j
    BY <1>2 DEF Single, Matching
  <2> QED
    BY <2>1, OneAnswerAgrees
<1> QED
  BY <1>1, <1>2 DEF ReadersAgree

\* What a capability that is ready looks up has been verified.
LEMMA ReadyIsVerified ==
    ASSUME BundleInv, NEW capability, NEW kind, NEW model, CapabilityReady(capability),
           VerifiedAsset(capability, kind, model).state # "none"
    PROVE  VerifiedAsset(capability, kind, model).state = "verified"
<1>1. ManifestValid /\ Matching(capability, kind, model) # {}
  <2>1. None.state = "none"
    BY DEF None
  <2> QED
    BY <2>1, NothingVerified
<1>2. PICK i \in Matching(capability, kind, model) :
        VerifiedAsset(capability, kind, model) =
          IF Verifies(i) THEN [state |-> "verified", id |-> records[i].id] ELSE FailedAsset
  BY <1>1, VerifiedIsMatching
<1>3. Verifies(i)
  BY <1>1 DEF CapabilityReady, BundleSnapshot, Matching
<1> QED
  BY <1>2, <1>3

LEMMA BundleReadyIsUsable ==
    ASSUME BundleInv PROVE ReadyIsUsable
<1> SUFFICES ASSUME BundleReady
             PROVE  /\ \A m \in {r.model : r \in BundleRecords} :
                         VerifiedAsset("speech", "model", m) # FailedAsset
                    /\ VerifiedAsset("language", "runtime", "any").state # "none"
                       /\ VerifiedAsset("language", "model", "any").state # "none"
                         => LanguageConfig = "config"
  BY DEF ReadyIsUsable
<1>1. CapabilityReady("speech") /\ CapabilityReady("language")
  BY DEF BundleReady
<1>2. ASSUME NEW m PROVE VerifiedAsset("speech", "model", m) # FailedAsset
  <2>1. FailedAsset.state = "failed"
    BY DEF FailedAsset
  <2> QED
    BY <1>1, <2>1, ReadyIsVerified
<1>3. ASSUME VerifiedAsset("language", "runtime", "any").state # "none",
             VerifiedAsset("language", "model", "any").state # "none"
      PROVE  LanguageConfig = "config"
  <2>1. /\ VerifiedAsset("language", "runtime", "any").state = "verified"
        /\ VerifiedAsset("language", "model", "any").state = "verified"
    BY <1>1, <1>3, ReadyIsVerified
  <2> QED
    BY <2>1 DEF LanguageConfig
<1> QED
  BY <1>2, <1>3

LEMMA BundleNextInv ==
    ASSUME BundleInv, [BundleNext]_bundleVars PROVE BundleInv'
BY DEF BundleInv, BundleNext, AddRecord, bundleVars

---------------------------------------------------------------------------
(* All of them together.                                                   *)

LEMMA AssetsInitInv ==
    ASSUME AssetInit
    PROVE  AloneInv /\ KindInv /\ ExtractInv /\ PackageInv /\ BundleInv
<1>1. BundleInv
  BY DEF AssetInit, BundleInit, BundleInv
<1> QED
  BY <1>1, AloneInitial, KindInitial, ExtractInitInv, PackageInitInv DEF AssetInit

LEMMA AssetsNextInv ==
    ASSUME AloneInv, KindInv, ExtractInv, PackageInv, BundleInv, [AssetNext]_assetVars
    PROVE  AloneInv' /\ KindInv' /\ ExtractInv' /\ PackageInv' /\ BundleInv'
<1>1. /\ [InstructNext]_instructVars /\ [ExtractNext]_extractVars
      /\ [PackageNext]_packageVars /\ [BundleNext]_bundleVars
  BY DEF AssetNext, assetVars
<1> QED
  BY <1>1, AloneNextInv, KindNextInv, ExtractNextInv, PackageNextInv, BundleNextInv

\* The runner and the model that were imported, the extracted package and the
\* bundled manifest are used only as they were verified, whatever fails or is
\* damaged on the way and however many imports run, and an import that fails
\* leaves what was usable before it.  The exceptions are those of the
\* properties: a kind of which two imports ran at once may pass for verified
\* with another digest, and permissions that fail, a crash half-way or two
\* imports at once can make a kind unusable (AssetsSound:
\* local_instruct_assets.rs, parakeet_package.rs and bundled_ai_assets.rs).
THEOREM AssetsAreSound == AssetSpec => []AssetsSound
<1>1. AssetInit => AloneInv /\ KindInv /\ ExtractInv /\ PackageInv /\ BundleInv
  BY AssetsInitInv
<1>2. AloneInv /\ KindInv /\ ExtractInv /\ PackageInv /\ BundleInv /\ [AssetNext]_assetVars
        => AloneInv' /\ KindInv' /\ ExtractInv' /\ PackageInv' /\ BundleInv'
  BY AssetsNextInv
<1>3. AloneInv /\ KindInv /\ ExtractInv /\ PackageInv /\ BundleInv => AssetsSound
  BY InstructIsSound, ExtractIsWhole, BundleReadersAgree, BundleReadyIsUsable DEF AssetsSound, PackageInv
<1> QED
  BY <1>1, <1>2, <1>3, PTL DEF AssetSpec
=============================================================================
