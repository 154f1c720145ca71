--------------------------- MODULE ParakeetPackage ---------------------------
(***************************************************************************)
(* The Parakeet package (parakeet_package.rs): the extraction of its       *)
(* archive into a staging directory, entry by entry, and the verification  *)
(* of the installed directory with the stamps of its members remembered in *)
(* a cache file beside them.  Two members of the four stand for those that *)
(* are installed and one for the samples, which are read and dropped.      *)
(***************************************************************************)
EXTENDS Naturals, FiniteSets

CONSTANTS
    MaxEntries,         \* MAX_ARCHIVE_ENTRIES
    MaxEntryReads, MaxTouches       \* bounds

ASSUME PackageConstants == {MaxEntries, MaxEntryReads, MaxTouches} \subseteq Nat

Required == {"encoder", "tokens"}
Members == Required \cup {"sample"}
Directories == {"root", "test_wavs"}

\* A path in the archive, and the name it has without its case.
Paths == Members \cup Directories \cup {"ENCODER", "stray", "outside", "unsafe"}
Folded(path) == IF path = "ENCODER" THEN "encoder" ELSE path
Entries == [path : Paths, type : {"file", "directory", "link"}, sized : BOOLEAN, whole : BOOLEAN]

VARIABLES
    seen,       \* the folded paths read
    extracted,     \* member -> what was written of it: "absent", "whole", "other"
    extraction, \* "reading", "failed", "extracted"
    entriesRead

extractVars == <<seen, extracted, extraction, entriesRead>>

Unwritten == [m \in Required |-> "absent"]

\* ensure_not_cancelled and every rejection: the staging directory is removed.
RejectArchive ==
    extraction' = "failed" /\ extracted' = Unwritten /\ UNCHANGED <<seen, entriesRead>>

\* The checks that precede the copy, in their order.
Admissible(e) ==
    /\ entriesRead < MaxEntries /\ e.path # "unsafe" /\ Folded(e.path) \notin seen
    /\ IF e.path \in Directories THEN e.type = "directory"
       ELSE e.type = "file" /\ e.path \in Members /\ e.sized

\* One entry: checked, copied while it is hashed, and its digest compared.
ReadEntry(e) ==
    /\ extraction = "reading" /\ entriesRead < MaxEntryReads
    /\ \/ /\ Admissible(e) /\ (e.path \in Members => e.whole)
          /\ seen' = seen \cup {Folded(e.path)} /\ entriesRead' = entriesRead + 1
          /\ extracted' = IF e.path \in Required THEN [extracted EXCEPT ![e.path] = "whole"] ELSE extracted
          /\ UNCHANGED extraction
       \/ ~(Admissible(e) /\ (e.path \in Members => e.whole)) /\ RejectArchive

CancelExtraction == extraction = "reading" /\ RejectArchive

\* Mutant of EndOfArchive: the missing members are not looked for.
EndAnyway ==
    /\ extraction = "reading" /\ extraction' = "extracted"
    /\ UNCHANGED <<seen, extracted, entriesRead>>

\* The end of the archive: every required member was seen.
EndOfArchive ==
    /\ extraction = "reading"
    /\ \/ Required \subseteq seen /\ extraction' = "extracted" /\ UNCHANGED <<seen, extracted, entriesRead>>
       \/ ~(Required \subseteq seen) /\ RejectArchive

ExtractInit ==
    /\ seen = {} /\ extracted = Unwritten /\ extraction = "reading" /\ entriesRead = 0

ExtractNext ==
    (\E e \in Entries : ReadEntry(e)) \/ CancelExtraction \/ EndOfArchive

---------------------------------------------------------------------------
(* The installed directory.                                                *)

VARIABLES
    member,     \* member -> its content and its stamp
    strays,     \* what else lies in the directory: another file, the unfinished cache
    cache,      \* what the cache file says: member -> stamp, or none
    verifying,  \* the verification in progress: the members done, the one
                \* whose size and time were read
    accepted,   \* ghost: members last accepted as they are that are not the trusted ones
    touches

packageVars == <<member, strays, cache, verifying, accepted, touches>>

NoCache == [m \in {} |-> 0]
NotVerifying == [pc |-> "idle", done |-> NoCache, at |-> 0]
Put(f, m, x) == [k \in DOMAIN f \cup {m} |-> IF k = m THEN x ELSE f[k]]

\* Mutant of CacheValid: the times are not compared.
CacheNamesMembers == DOMAIN cache = Required

\* valid_verify_cache: every member as it was when hashed.
CacheValid == DOMAIN cache = Required /\ \A m \in Required : cache[m] = member[m].stamp

\* validate_directory_members: nothing but the members lies there.
DirectoryValid == strays = {}

Accept(members) == accepted' = {m \in members : member[m].content # "whole"}

\* verify_package: the directory and its manifest are read, then the cache.
\* A quick look ends there.
BeginPackage(quick) ==
    /\ verifying.pc = "idle"
    /\ IF ~DirectoryValid THEN UNCHANGED <<verifying, accepted>>
       ELSE IF CacheValid THEN Accept(Required) /\ UNCHANGED verifying
       ELSE /\ ~quick /\ verifying' = [NotVerifying EXCEPT !.pc = "member"] /\ UNCHANGED accepted
    /\ UNCHANGED <<member, strays, cache, touches>>

NextMember == CHOOSE m \in Required : m \notin DOMAIN verifying.done

\* The size and time of the next member ...
LookAtMember ==
    /\ verifying.pc = "member" /\ DOMAIN verifying.done # Required
    /\ verifying' = [verifying EXCEPT !.pc = "hash", !.at = member[NextMember].stamp]
    /\ UNCHANGED <<member, strays, cache, accepted, touches>>

\* ... and its digest, which ends the verification when it is wrong.
HashMember ==
    /\ verifying.pc = "hash"
    /\ verifying' = IF member[NextMember].content = "whole"
                    THEN [verifying EXCEPT !.pc = "member", !.done = Put(@, NextMember, verifying.at)]
                    ELSE NotVerifying
    /\ UNCHANGED <<member, strays, cache, accepted, touches>>

\* When all are done the cache is written to a temporary file beside them ...
StageCache ==
    /\ verifying.pc = "member" /\ DOMAIN verifying.done = Required
    /\ verifying' = [verifying EXCEPT !.pc = "cache"] /\ strays' = strays \cup {"temporary"}
    /\ UNCHANGED <<member, cache, accepted, touches>>

\* ... which takes its name, and the package is accepted: its members as they
\* were when they were hashed.
WriteCache ==
    /\ verifying.pc = "cache"
    /\ cache' = verifying.done /\ verifying' = NotVerifying /\ strays' = strays \ {"temporary"}
    /\ Accept({m \in Required : verifying.done[m] = member[m].stamp})
    /\ UNCHANGED <<member, touches>>

\* The process ends, or the cache cannot be written: the temporary file stays,
\* and nothing removes it.
CacheCut ==
    /\ verifying.pc = "cache" /\ touches < MaxTouches /\ touches' = touches + 1
    /\ verifying' = NotVerifying /\ cache' \in {cache, NoCache}
    /\ UNCHANGED <<member, strays, accepted>>

\* Another program writes a member, or a file beside them.
Touch(m, content) ==
    /\ touches < MaxTouches /\ touches' = touches + 1
    /\ member' = [member EXCEPT ![m] = [content |-> content, stamp |-> @.stamp + 1]]
    /\ UNCHANGED <<strays, cache, verifying, accepted>>

DropFile ==
    /\ touches < MaxTouches /\ touches' = touches + 1
    /\ strays' = IF "other" \in strays THEN strays \ {"other"} ELSE strays \cup {"other"}
    /\ UNCHANGED <<member, cache, verifying, accepted>>

PackageInit ==
    /\ member = [m \in Required |-> [content |-> "whole", stamp |-> 0]]
    /\ strays = {} /\ cache = NoCache /\ verifying = NotVerifying
    /\ accepted = {} /\ touches = 0

PackageNext ==
    \/ \E quick \in BOOLEAN : BeginPackage(quick)
    \/ LookAtMember \/ HashMember \/ StageCache \/ WriteCache \/ CacheCut \/ DropFile
    \/ \E m \in Required, content \in {"whole", "other"} : Touch(m, content)

---------------------------------------------------------------------------
(* Properties.                                                             *)

\* Whatever the archive holds, what is extracted is every required member
\* with its trusted content, and a failed extraction leaves nothing
\* (extract_archive, install_archive).
ExtractedIsWhole ==
    /\ extraction = "extracted" => extracted = [m \in Required |-> "whole"]
    /\ extraction = "failed" => extracted = Unwritten

\* A package that is accepted from its cache, without hashing, consists of
\* trusted members, and one that is accepted after all were hashed of members
\* that are trusted or were written since, which the cache will tell, though
\* they are written during and after the verification that filled it
\* (verify_package, valid_verify_cache).
AcceptedIsWhole == accepted = {}
=============================================================================
