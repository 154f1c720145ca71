-------------------------- MODULE DeletionProofs --------------------------
(***************************************************************************)
(* Deletion and search for every library, every number of requests, edits, *)
(* searches, failures and kills of the process: what a search finds, what  *)
(* a deletion leaves, and that no change is lost to the index.             *)
(***************************************************************************)
EXTENDS Deletion, FiniteSetTheorems, TLAPS

Places == {"active", "tombstone", "gone"}

\* Where the request thread has the search lock, and the mutation lock.
Searching == {"prepare", "intent", "rename", "invalidate", "remove", "removed", "kept"}
Mutating == Searching \cup {"search", "each", "marked", "unlock", "complete"}
RequestSteps == Mutating \cup {"idle", "lock", "finalize", "cleanup", "metadata"}

\* Where a backfill thread has the search lock, and where it has the flag.
Rebuilding == {"read", "written", "publish"}
Busy == Rebuilding \cup {"start", "succeeded", "failed", "finish"}

-----------------------------------------------------------------------------
(* The parts of the inductive invariant                                    *)

\* The request thread: a recording leaves the library with its intent stored
\* and no index on disk, and its intent is dropped once nothing is left.
RequestsAt(pcs) ==
    [pc : pcs, recover : BOOLEAN, rec : Recs \cup {NoFile}, todo : SUBSET Deletable,
     done : SUBSET Deletable, stage : Nat]

RequestType ==
    /\ req \in RequestsAt(RequestSteps)
    /\ place \in [Recs -> Places]
    /\ derived \in [Recs -> SUBSET DerivedStores]
    /\ marker \subseteq Deletable /\ torn \subseteq marker
    /\ \A r \in torn : place[r] = "tombstone"
    /\ ~up => req.pc = "idle"
    /\ req.pc \in Searching \cup {"search", "cleanup", "metadata", "complete"} => req.rec \in Deletable
    /\ req.pc = "lock" /\ ~req.recover => req.rec \in Deletable

RequestInv ==
    /\ req.pc \in {"intent", "rename"} => index = NoFile /\ next = NoFile
    /\ req.pc = "rename" => req.rec \in marker
    /\ req.pc \in {"invalidate", "remove"} => place[req.rec] # "active"
    /\ req.pc = "cleanup" => /\ req.stage \in 1..3
                             /\ req.stage > 1 => "stores" \notin derived[req.rec]
    /\ req.pc \in {"metadata", "complete"} => derived[req.rec] = {}

LockInv ==
    /\ mutation \in {Free, "editor", "request"}
    /\ search \in {Free, "request"} \cup Threads
    /\ req.pc \in Searching => search = "request"
    /\ req.pc \in Mutating => mutation = "request"
    /\ editor # "idle" => mutation = "editor"
    /\ editor \in {"idle", "committed", "marked"}
    /\ \A b \in Threads : backfill[b].pc \in Rebuilding => search = b

\* One backfill thread at a time has the flag, which is up exactly as long.
GenInv ==
    /\ sourceGen \in Nat /\ sourceGen > 0 /\ indexGen \in 0..sourceGen
    /\ failure \in BOOLEAN /\ running \in BOOLEAN
    /\ backfill = [b \in Threads |-> backfill[b]]
    /\ \A b, c \in Threads : backfill[b].pc \in Busy /\ backfill[c].pc \in Busy => b = c
    /\ running <=> \E b \in Threads : backfill[b].pc \in Busy
    /\ \A b \in Threads : backfill[b].pc \in Rebuilding => backfill[b].gen \in 1..sourceGen

\* Text that is not marked yet is being committed.  The rows of a rebuild, the
\* file it writes and the index it publishes are of recordings in the library,
\* and they are its text as long as their generation is the last.
Settled == editor # "committed"

RowsOf(t) ==
    t.pc = "read" =>
        /\ t = [pc |-> "read", gen |-> t.gen, rows |-> t.rows, todo |-> t.todo]
        /\ t.todo \subseteq Recs
        /\ t.rows = [r \in Active \ t.todo |-> t.rows[r]]
        /\ Settled /\ t.gen = sourceGen => \A r \in Active \ t.todo : t.rows[r] = text[r]

NextOf(t) ==
    t.pc \in {"written", "publish"} /\ Settled /\ t.gen = sourceGen => next = LibraryText

RebuildInv == \A b \in Threads : RowsOf(backfill[b]) /\ NextOf(backfill[b])

IndexInv ==
    /\ DeletedTextUnsearchable
    /\ Settled /\ index # NoFile /\ indexGen = sourceGen => index = LibraryText

TextInv == edits \in 0..MaxEdits /\ text \in [Recs -> 0..edits]

\* A search runs while no deletion does.
QueryInv ==
    /\ query.pc \in {"idle", "check", "read", "found", "answered"}
    /\ query.pc \in {"check", "read", "found"} => up /\ req.pc = "idle"
    /\ query.pc \in {"read", "found"} => query.gen \in 1..sourceGen
    /\ query.pc = "found" /\ Settled /\ query.gen = sourceGen => query.rows = LibraryText
    /\ SearchIsFresh

\* A change the index lacks has someone to index it, or failed.
Attended ==
    \/ editor # "idle" \/ req.pc \in {"remove", "removed", "kept", "marked"}
    \/ \E b \in Threads : backfill[b].pc # "idle"

ChangeInv ==
    /\ ~up => sourceGen = 1
    /\ up /\ sourceGen > 1 => Attended \/ sourceGen = indexGen \/ failure

DelInv ==
    /\ RequestType /\ RequestInv /\ LockInv /\ GenInv /\ RebuildInv
    /\ IndexInv /\ TextInv /\ QueryInv /\ ChangeInv /\ DeletionLeavesNothing

-----------------------------------------------------------------------------
(* The request thread                                                      *)

Deleting == RequestType /\ RequestInv /\ DeletionLeavesNothing

\* Other threads leave the request alone, and the index files while it has
\* removed them.
LEMMA DeletingFrame ==
    ASSUME Deleting, UNCHANGED <<delVars, place>>,
           req.pc \in {"intent", "rename"} => UNCHANGED <<index, next>>
    PROVE  Deleting'
BY DEF Deleting, delVars, RequestType, RequestInv, DeletionLeavesNothing, NothingLeftBehind,
   TombstoneHasIntent

\* A deletion ends with its locks but the mutation lock dropped.
LEMMA AfterDeletionFits ==
    ASSUME RequestType, NEW removed \in BOOLEAN, req.pc \in Searching \cup {"search"}
    PROVE  /\ AfterDeletion(removed) \in RequestsAt(RequestSteps)
           /\ AfterDeletion(removed).pc \in {"each", "unlock"}
<1>1. req.rec \in Deletable
  BY DEF RequestType
<1> QED
  BY <1>1 DEF AfterDeletion, RequestType, RequestsAt, RequestSteps, Mutating

LEMMA NextStageFits ==
    ASSUME RequestType, req.stage \in 1..3
    PROVE  /\ NextStage \in RequestsAt(RequestSteps)
           /\ NextStage.rec = req.rec /\ NextStage.stage = req.stage + 1
           /\ NextStage.pc = IF req.stage = 3 THEN "metadata" ELSE "cleanup"
<1>1. Len(Stages) = 3
  BY DEF Stages
<1> DEFINE pc == IF req.stage = 3 THEN "metadata" ELSE "cleanup"
<1>2. NextStage = [req EXCEPT !.stage = @ + 1, !.pc = pc]
  BY <1>1 DEF NextStage
<1>3. pc \in RequestSteps
  BY DEF RequestSteps
<1> HIDE DEF pc
<1>4. req.stage + 1 \in Nat /\ req \in RequestsAt(RequestSteps)
  BY DEF RequestType
<1>5. /\ NextStage \in RequestsAt(RequestSteps)
      /\ NextStage.rec = req.rec /\ NextStage.stage = req.stage + 1 /\ NextStage.pc = pc
  BY <1>2, <1>3, <1>4 DEF RequestsAt
<1> QED
  BY <1>5 DEF pc

LEMMA NewRequestFits ==
    /\ NoRequest \in RequestsAt(RequestSteps) /\ NoRequest.pc = "idle"
    /\ \A r \in Recs : LET q == [NoRequest EXCEPT !.pc = "lock", !.rec = r]
                      IN q \in RequestsAt(RequestSteps) /\ q.pc = "lock" /\ q.rec = r
    /\ LET q == [NoRequest EXCEPT !.pc = "lock", !.recover = TRUE]
       IN q \in RequestsAt(RequestSteps) /\ q.pc = "lock" /\ q.recover
BY DEF NoRequest, RequestsAt, RequestSteps, Mutating

LEMMA DeletingStep ==
    ASSUME Deleting, LockInv,
           \/ \E r \in Recs : DeleteRequest(r) \/ NextIntent(r) \/ FinalizeNext(r)
           \/ RecoverRequest \/ RequestStep \/ Kill \/ Quit \/ Start
    PROVE  Deleting'
<1> USE DeletionConstants
<1>0. RequestType /\ RequestInv /\ NothingLeftBehind /\ TombstoneHasIntent
  BY DEF Deleting, DeletionLeavesNothing
<1> SUFFICES RequestType' /\ RequestInv' /\ NothingLeftBehind' /\ TombstoneHasIntent'
  BY DEF Deleting, DeletionLeavesNothing
<1>1. ASSUME NEW r \in Recs, DeleteRequest(r)
      PROVE  RequestType' /\ RequestInv' /\ NothingLeftBehind' /\ TombstoneHasIntent'
  <2>1. /\ req' \in RequestsAt(RequestSteps) /\ req'.pc = "lock" /\ req'.rec = r /\ r \in Deletable
        /\ up /\ UNCHANGED <<place, index, next, marker, torn, derived, up>>
    BY <1>1, NewRequestFits DEF DeleteRequest, RequestThreadFree, searchVars, fileVars
  <2> QED
    BY <1>0, <2>1 DEF RequestType, RequestInv, NothingLeftBehind, TombstoneHasIntent, Searching
<1>2. CASE RecoverRequest
  <2>1. /\ req' \in RequestsAt(RequestSteps) /\ req'.pc = "lock" /\ req'.recover
        /\ up /\ UNCHANGED <<place, index, next, marker, torn, derived, up>>
    BY <1>2, NewRequestFits DEF RecoverRequest, RequestThreadFree, searchVars, fileVars
  <2> QED
    BY <1>0, <2>1 DEF RequestType, RequestInv, NothingLeftBehind, TombstoneHasIntent, Searching
<1>3. CASE TakeMutationLock
  BY <1>0, <1>3 DEF TakeMutationLock, fileVars, RequestType, RequestInv, NothingLeftBehind, TombstoneHasIntent,
     RequestsAt, RequestSteps, Mutating, Searching
<1>4. ASSUME NEW r \in Recs, NextIntent(r)
      PROVE  RequestType' /\ RequestInv' /\ NothingLeftBehind' /\ TombstoneHasIntent'
  BY <1>0, <1>4 DEF NextIntent, searchVars, fileVars, RequestType, RequestInv, NothingLeftBehind, TombstoneHasIntent,
     RequestsAt, RequestSteps, Mutating, Searching
<1>5. CASE TakeSearchLock
  BY <1>0, <1>5 DEF TakeSearchLock, Pc, fileVars, RequestType, RequestInv, NothingLeftBehind, TombstoneHasIntent,
     RequestsAt, RequestSteps, Mutating, Searching
<1>6. CASE QueueDeletion
  BY <1>0, <1>6, AfterDeletionFits DEF QueueDeletion, WriteIntent, fileVars, RequestType, RequestInv, NothingLeftBehind, TombstoneHasIntent,
     RequestsAt, RequestSteps, Mutating, Searching
<1>7. CASE DeleteFails
  BY <1>0, <1>7, AfterDeletionFits DEF DeleteFails, fileVars, RequestType, RequestInv, NothingLeftBehind, TombstoneHasIntent,
     RequestsAt, RequestSteps, Mutating, Searching
<1>8. CASE TombstoneUnreadable
  BY <1>0, <1>8, AfterDeletionFits DEF TombstoneUnreadable, fileVars, RequestType, RequestInv, NothingLeftBehind, TombstoneHasIntent,
     RequestsAt, RequestSteps, Mutating, Searching
<1>9. CASE Prepare
  BY <1>0, <1>9 DEF Prepare, Pc, RequestType, RequestInv, NothingLeftBehind, TombstoneHasIntent,
     RequestsAt, RequestSteps, Mutating, Searching
<1>10. CASE StoreIntent
  BY <1>0, <1>10 DEF StoreIntent, WriteIntent, Pc, searchVars, fileVars, RequestType, RequestInv, NothingLeftBehind, TombstoneHasIntent,
     RequestsAt, RequestSteps, Mutating, Searching
<1>11. CASE MoveToTombstone
  <2>1. /\ req.pc = "rename" /\ req.rec \in Deletable /\ req.rec \in Recs /\ req.rec \in marker
        /\ req' = [req EXCEPT !.pc = "invalidate"]
        /\ place' = [place EXCEPT ![req.rec] = "tombstone"]
        /\ UNCHANGED <<index, next, marker, torn, derived, up>>
    BY <1>0, <1>11 DEF MoveToTombstone, Pc, RequestType, RequestInv, Searching
  <2>2. /\ req' \in RequestsAt(RequestSteps) /\ req'.pc = "invalidate" /\ req'.rec = req.rec
    BY <1>0, <2>1 DEF RequestType, RequestsAt, RequestSteps, Mutating, Searching
  <2>3. /\ place' \in [Recs -> Places] /\ place'[req.rec] = "tombstone"
        /\ \A r \in Recs : r # req.rec => place'[r] = place[r]
    BY <1>0, <2>1 DEF RequestType, Places
  <2>4. RequestType'
    BY <1>0, <2>1, <2>2, <2>3 DEF RequestType
  <2> QED
    BY <1>0, <2>1, <2>2, <2>3, <2>4 DEF RequestInv, NothingLeftBehind, TombstoneHasIntent
<1>12. CASE InvalidateAndMark
  BY <1>0, <1>12 DEF InvalidateAndMark, Pc, RequestType, RequestInv, NothingLeftBehind, TombstoneHasIntent,
     RequestsAt, RequestSteps, Mutating, Searching
<1>13. CASE RemoveTombstone
  <2>1. /\ req.pc = "remove" /\ req.rec \in Deletable /\ req.rec \in Recs
        /\ place[req.rec] # "active" /\ place[req.rec] \in Places
        /\ UNCHANGED <<index, next, marker, derived, up>>
    BY <1>0, <1>13 DEF RemoveTombstone, RequestType, RequestInv, Searching
  <2>2. CASE /\ place' = [place EXCEPT ![req.rec] = "gone"] /\ torn' = torn \ {req.rec}
             /\ req' = [req EXCEPT !.pc = "removed"]
    <3>1. req' \in RequestsAt(RequestSteps) /\ req'.pc = "removed" /\ req'.rec = req.rec
      BY <1>0, <2>1, <2>2 DEF RequestType, RequestsAt, RequestSteps, Mutating, Searching
    <3>2. /\ place' \in [Recs -> Places] /\ place'[req.rec] = "gone"
          /\ \A r \in Recs : r # req.rec => place'[r] = place[r]
      BY <1>0, <2>1, <2>2 DEF RequestType, Places
    <3>3. RequestType'
      BY <1>0, <2>1, <2>2, <3>1, <3>2 DEF RequestType
    <3>4. place[req.rec] = "gone" \/ req.rec \in marker
      BY <1>0, <2>1 DEF TombstoneHasIntent, Places
    <3> QED
      BY <1>0, <2>1, <3>1, <3>2, <3>3, <3>4 DEF RequestInv, NothingLeftBehind, TombstoneHasIntent
  <2>3. CASE /\ place[req.rec] = "tombstone" /\ torn' \in {torn, torn \cup {req.rec}}
             /\ place' = place /\ req' = [req EXCEPT !.pc = "kept"]
    <3>1. req' \in RequestsAt(RequestSteps) /\ req'.pc = "kept" /\ req'.rec = req.rec
      BY <1>0, <2>1, <2>3 DEF RequestType, RequestsAt, RequestSteps, Mutating, Searching
    <3>2. req.rec \in marker
      BY <1>0, <2>1, <2>3 DEF TombstoneHasIntent
    <3>3. RequestType'
      BY <1>0, <2>1, <2>3, <3>1, <3>2 DEF RequestType
    <3> QED
      BY <1>0, <2>1, <2>3, <3>1, <3>3 DEF RequestInv, NothingLeftBehind, TombstoneHasIntent
  <2> QED
    BY <1>13, <2>2, <2>3 DEF RemoveTombstone, Pc
<1>14. CASE DropSearchLock
  BY <1>0, <1>14, AfterDeletionFits DEF DropSearchLock, fileVars, RequestType, RequestInv, NothingLeftBehind, TombstoneHasIntent,
     RequestsAt, RequestSteps, Mutating, Searching
<1>15. CASE RecoverMark
  BY <1>0, <1>15 DEF RecoverMark, Pc, fileVars, RequestType, RequestInv, NothingLeftBehind, TombstoneHasIntent,
     RequestsAt, RequestSteps, Mutating, Searching
<1>16. CASE RecoverSchedule
  BY <1>0, <1>16 DEF RecoverSchedule, Pc, fileVars, RequestType, RequestInv, NothingLeftBehind, TombstoneHasIntent,
     RequestsAt, RequestSteps, Mutating, Searching
<1>17. CASE Unlock
  BY <1>0, <1>17 DEF Unlock, Pc, fileVars, RequestType, RequestInv, NothingLeftBehind, TombstoneHasIntent,
     RequestsAt, RequestSteps, Mutating, Searching
<1>18. ASSUME NEW r \in Recs, FinalizeNext(r)
      PROVE  RequestType' /\ RequestInv' /\ NothingLeftBehind' /\ TombstoneHasIntent'
  <2>1. /\ req' = [req EXCEPT !.pc = "cleanup", !.rec = r, !.done = @ \ {r}, !.stage = 1]
        /\ r \in req.done /\ req.pc = "finalize"
        /\ UNCHANGED <<place, index, next, marker, torn, derived, up>>
    BY <1>18 DEF FinalizeNext, searchVars, fileVars
  <2>2. /\ req' \in RequestsAt(RequestSteps) /\ req'.pc = "cleanup" /\ req'.rec = r /\ req'.stage = 1
        /\ r \in Deletable
    BY <1>0, <2>1 DEF RequestType, RequestsAt, RequestSteps
  <2> QED
    BY <1>0, <2>1, <2>2 DEF RequestType, RequestInv, NothingLeftBehind, TombstoneHasIntent
<1>19. CASE FinalizeEnd
  BY <1>0, <1>19 DEF FinalizeEnd, NoRequest, searchVars, fileVars, RequestType, RequestInv, NothingLeftBehind, TombstoneHasIntent,
     RequestsAt, RequestSteps, Mutating, Searching
<1>20. CASE CleanStage
  <2> DEFINE s == Stages[req.stage]
  <2>1. /\ req.pc = "cleanup" /\ req.rec \in Deletable /\ req.rec \in Recs /\ req.stage \in 1..3
        /\ req.stage > 1 => "stores" \notin derived[req.rec]
        /\ derived[req.rec] \subseteq DerivedStores
    BY <1>0, <1>20 DEF CleanStage, RequestType, RequestInv
  <2>2. /\ s # "search-index" /\ req' = NextStage
        /\ derived' = [derived EXCEPT ![req.rec] = @ \ {s}]
        /\ UNCHANGED <<place, index, next, marker, torn, up>>
    BY <1>20 DEF CleanStage, searchVars, fileVars
  <2>3. (req.stage = 1 /\ s = "stores") \/ (req.stage = 3 /\ s = "vault-index")
    BY <2>1, <2>2 DEF Stages
  <2>4. /\ derived' \in [Recs -> SUBSET DerivedStores]
        /\ derived'[req.rec] = derived[req.rec] \ {s}
        /\ \A r \in Recs : derived'[r] \subseteq derived[r]
    BY <1>0, <2>1, <2>2 DEF RequestType
  <2>5. /\ req' \in RequestsAt(RequestSteps) /\ req'.rec = req.rec
        /\ req.stage = 1 => req'.pc = "cleanup" /\ req'.stage = 2
        /\ req.stage = 3 => req'.pc = "metadata"
    BY <1>0, <2>1, <2>2, NextStageFits
  <2> HIDE DEF s
  <2>6. RequestType' /\ TombstoneHasIntent'
    BY <1>0, <2>1, <2>2, <2>3, <2>4, <2>5 DEF RequestType, TombstoneHasIntent
  <2>7. NothingLeftBehind'
    BY <1>0, <2>2, <2>4 DEF NothingLeftBehind
  <2>8. RequestInv'
    BY <2>1, <2>3, <2>4, <2>5 DEF RequestInv, DerivedStores
  <2> QED
    BY <2>6, <2>7, <2>8
<1>21. CASE CleanSearchStage
  <2>1. /\ req.pc = "cleanup" /\ req.rec \in Deletable /\ req.stage \in 1..3
        /\ req.stage > 1 => "stores" \notin derived[req.rec]
        /\ Stages[req.stage] = "search-index" /\ req' = NextStage
        /\ UNCHANGED <<place, marker, torn, derived, up>>
    BY <1>0, <1>21 DEF CleanSearchStage, RequestType, RequestInv
  <2>2. req.stage \in {1, 2, 3}
    BY <2>1
  <2>3. req.stage = 2
    BY <2>1, <2>2 DEF Stages
  <2>4. req.pc = "cleanup" /\ "stores" \notin derived[req.rec] /\ index' = NoFile /\ next' = NoFile
    BY <2>1, <2>3, <1>21 DEF CleanSearchStage
  <2>5. /\ req' \in RequestsAt(RequestSteps) /\ req'.rec = req.rec
        /\ req'.pc = "cleanup" /\ req'.stage = 3
    BY <1>0, <2>1, <2>3, NextStageFits
  <2> QED
    BY <1>0, <2>1, <2>4, <2>5 DEF RequestType, RequestInv, NothingLeftBehind, TombstoneHasIntent
<1>22. CASE CleanupPending
  BY <1>0, <1>22 DEF CleanupPending, SearchBusy, NoFault, Pc, fileVars, RequestType, RequestInv, NothingLeftBehind, TombstoneHasIntent,
     RequestsAt, RequestSteps, Mutating, Searching
<1>23. CASE CompleteMetadata
  BY <1>0, <1>23 DEF CompleteMetadata, Pc, fileVars, RequestType, RequestInv, NothingLeftBehind, TombstoneHasIntent,
     RequestsAt, RequestSteps, Mutating, Searching
<1>24. CASE Kill
  BY <1>0, <1>24 DEF Kill, Ends, NoRequest, fileVars, RequestType, RequestInv, NothingLeftBehind, TombstoneHasIntent,
     RequestsAt, RequestSteps, Mutating, Searching
<1>25. CASE Quit
  BY <1>0, <1>25 DEF Quit, Ends, NoRequest, fileVars, RequestType, RequestInv, NothingLeftBehind, TombstoneHasIntent,
     RequestsAt, RequestSteps, Mutating, Searching
<1>26. CASE Start
  BY <1>0, <1>26 DEF Start, NoRequest, searchVars, fileVars, RequestType, RequestInv, NothingLeftBehind, TombstoneHasIntent,
     RequestsAt, RequestSteps, Mutating, Searching
<1> QED
  BY <1>1, <1>2, <1>3, <1>4, <1>5, <1>6, <1>7, <1>8, <1>9, <1>10, <1>11, <1>12, <1>13, <1>14, <1>15, <1>16, <1>17, <1>18, <1>19, <1>20, <1>21, <1>22, <1>23, <1>24, <1>25, <1>26 DEF RequestStep

-----------------------------------------------------------------------------
(* The locks                                                               *)

\* Threads that did not hold the search lock do not get it unnoticed.
LEMMA LockFrame ==
    ASSUME LockInv, UNCHANGED <<mutation, search, req, editor>>,
           \A b \in Threads : backfill'[b] = backfill[b] \/ backfill'[b].pc \notin Rebuilding
    PROVE  LockInv'
BY DEF LockInv

LEMMA LockRequestStep ==
    ASSUME LockInv, RequestType,
           \/ \E r \in Recs : DeleteRequest(r) \/ NextIntent(r) \/ FinalizeNext(r)
           \/ RecoverRequest \/ TakeMutationLock \/ TakeSearchLock \/ QueueDeletion \/ DeleteFails
           \/ TombstoneUnreadable \/ Prepare \/ StoreIntent \/ MoveToTombstone \/ InvalidateAndMark
           \/ RemoveTombstone \/ RecoverMark \/ Unlock \/ FinalizeEnd \/ CleanStage
           \/ CleanSearchStage \/ CleanupPending \/ CompleteMetadata \/ Start
    PROVE  LockInv'
<1>0. req \in RequestsAt(RequestSteps)
  BY DEF RequestType
<1>1. ASSUME NEW r \in Recs, DeleteRequest(r) PROVE LockInv'
  BY <1>0, <1>1 DEF DeleteRequest, NoRequest, searchVars, LockInv, RequestsAt, Mutating, Searching, Free
<1>2. CASE RecoverRequest
  BY <1>0, <1>2 DEF RecoverRequest, NoRequest, searchVars, LockInv, RequestsAt, Mutating, Searching, Free
<1>3. CASE TakeMutationLock
  BY <1>0, <1>3 DEF TakeMutationLock, LockInv, RequestsAt, Mutating, Searching, Free
<1>4. ASSUME NEW r \in Recs, NextIntent(r) PROVE LockInv'
  BY <1>0, <1>4 DEF NextIntent, searchVars, LockInv, RequestsAt, Mutating, Searching, Free
<1>5. CASE TakeSearchLock
  BY <1>0, <1>5 DEF TakeSearchLock, Pc, Threads, LockInv, RequestsAt, Mutating, Searching, Free
<1>6. CASE QueueDeletion
  BY <1>0, <1>6, AfterDeletionFits DEF QueueDeletion, LockInv, RequestsAt, Mutating, Searching, Free
<1>7. CASE DeleteFails
  BY <1>0, <1>7, AfterDeletionFits DEF DeleteFails, ReleaseSearch, Threads, LockInv, RequestsAt, Mutating, Searching, Free
<1>8. CASE TombstoneUnreadable
  BY <1>0, <1>8, AfterDeletionFits DEF TombstoneUnreadable, ReleaseSearch, Threads, LockInv, RequestsAt, Mutating, Searching, Free
<1>9. CASE Prepare
  BY <1>0, <1>9 DEF Prepare, Pc, LockInv, RequestsAt, Mutating, Searching, Free
<1>10. CASE StoreIntent
  BY <1>0, <1>10 DEF StoreIntent, Pc, searchVars, LockInv, RequestsAt, Mutating, Searching, Free
<1>11. CASE MoveToTombstone
  BY <1>0, <1>11 DEF MoveToTombstone, Pc, LockInv, RequestsAt, Mutating, Searching, Free
<1>12. CASE InvalidateAndMark
  BY <1>0, <1>12 DEF InvalidateAndMark, Pc, LockInv, RequestsAt, Mutating, Searching, Free
<1>13. CASE RemoveTombstone
  BY <1>0, <1>13 DEF RemoveTombstone, Pc, LockInv, RequestsAt, Mutating, Searching, Free
<1>14. CASE RecoverMark
  BY <1>0, <1>14 DEF RecoverMark, Pc, LockInv, RequestsAt, Mutating, Searching, Free
<1>15. CASE Unlock
  BY <1>0, <1>15 DEF Unlock, Pc, LockInv, RequestsAt, Mutating, Searching, Free
<1>16. ASSUME NEW r \in Recs, FinalizeNext(r) PROVE LockInv'
  BY <1>0, <1>16 DEF FinalizeNext, searchVars, LockInv, RequestsAt, Mutating, Searching, Free
<1>17. CASE FinalizeEnd
  BY <1>0, <1>17 DEF FinalizeEnd, NoRequest, searchVars, LockInv, RequestsAt, Mutating, Searching, Free
<1>18. CASE CleanStage
  BY <1>0, <1>18 DEF CleanStage, NextStage, searchVars, LockInv, RequestsAt, Mutating, Searching, Free
<1>19. CASE CleanSearchStage
  BY <1>0, <1>19 DEF CleanSearchStage, NextStage, LockInv, RequestsAt, Mutating, Searching, Free
<1>20. CASE CleanupPending
  BY <1>0, <1>20 DEF CleanupPending, SearchBusy, NoFault, Pc, LockInv, RequestsAt, Mutating, Searching, Free
<1>21. CASE CompleteMetadata
  BY <1>0, <1>21 DEF CompleteMetadata, Pc, LockInv, RequestsAt, Mutating, Searching, Free
<1>22. CASE Start
  BY <1>0, <1>22 DEF Start, NoRequest, searchVars, LockInv, RequestsAt, Mutating, Searching, Free
<1> QED
  BY <1>1, <1>2, <1>3, <1>4, <1>5, <1>6, <1>7, <1>8, <1>9, <1>10, <1>11, <1>12, <1>13, <1>14, <1>15, <1>16, <1>17, <1>18, <1>19, <1>20, <1>21, <1>22

-----------------------------------------------------------------------------
(* Scheduling a backfill                                                   *)

\* schedule_trust_search_backfill starts a thread only when none has the flag;
\* whenever it returns, one is at work or a failure is on record.
LEMMA ScheduleFits ==
    ASSUME GenInv, NEW self \in Threads \cup {Free}, NEW failed \in BOOLEAN, Schedule(self, failed),
           self \in Threads => backfill[self].pc = "again"
    PROVE  /\ backfill' = [b \in Threads |-> backfill'[b]]
           /\ \A b \in Threads : \/ backfill'[b] = backfill[b]
                                 \/ backfill'[b] = NoThread \/ backfill'[b] = Started
           /\ running' \in BOOLEAN /\ failure' \in BOOLEAN
           /\ \A b, c \in Threads : backfill'[b].pc \in Busy /\ backfill'[c].pc \in Busy => b = c
           /\ running' <=> \E b \in Threads : backfill'[b].pc \in Busy
           /\ failure' \/ \E b \in Threads : backfill'[b].pc \in Busy
<1> DEFINE rest == Rest(self)
<1>1. /\ rest = [b \in Threads |-> rest[b]]
      /\ \A b \in Threads : rest[b] = IF b = self THEN NoThread ELSE backfill[b]
  BY DEF Rest
<1>2. \A b \in Threads : rest[b].pc \in Busy <=> backfill[b].pc \in Busy
  BY <1>1 DEF NoThread, Busy, Rebuilding
<1>3. CASE (failed \/ running) /\ running' = running /\ failure' = failed /\ backfill' = rest
  BY <1>1, <1>2, <1>3 DEF GenInv
<1>4. CASE /\ ~failed /\ ~running /\ running' = TRUE /\ failure' = failed
           /\ \E b \in Unused(self) : backfill' = [rest EXCEPT ![b] = Started]
  <2> PICK u \in Unused(self) : backfill' = [rest EXCEPT ![u] = Started]
    BY <1>4
  <2>1. u \in Threads
    BY DEF Unused
  <2>2. backfill'[u] = Started /\ \A b \in Threads : b # u => backfill'[b] = rest[b]
    BY <1>1, <2>1
  <2>3. \A b \in Threads : rest[b].pc \notin Busy
    BY <1>2, <1>4 DEF GenInv
  <2>4. Started.pc \in Busy
    BY DEF Started, Busy
  <2>5. backfill' = [b \in Threads |-> backfill'[b]]
    BY <1>1
  <2> HIDE DEF rest
  <2> QED
    BY <1>1, <1>4, <2>1, <2>2, <2>3, <2>4, <2>5
<1>5. CASE ~failed /\ ~running /\ running' = FALSE /\ failure' = TRUE /\ backfill' = rest
  BY <1>1, <1>2, <1>5 DEF GenInv
<1> QED
  BY <1>3, <1>4, <1>5 DEF Schedule

\* What a call of it keeps of the other parts.
LEMMA ScheduleKeeps ==
    ASSUME GenInv, RebuildInv, NEW self \in Threads \cup {Free}, Schedule(self, failure),
           self \in Threads => backfill[self].pc = "again",
           UNCHANGED <<place, text, next, sourceGen, indexGen>>, Settled' => Settled
    PROVE  /\ GenInv' /\ RebuildInv'
           /\ \A b \in Threads : backfill'[b] = backfill[b] \/ backfill'[b].pc \notin Rebuilding
           /\ failure' \/ \E b \in Threads : backfill'[b].pc # "idle"
<1>1. failure \in BOOLEAN
  BY DEF GenInv
<1>2. NoThread.pc \notin Rebuilding /\ Started.pc \notin Rebuilding
  BY DEF NoThread, Started, Rebuilding
<1>3. \A b \in Threads : backfill'[b] = backfill[b] \/ backfill'[b].pc \notin Rebuilding
  BY <1>1, <1>2, ScheduleFits
<1>4. GenInv'
  BY <1>1, <1>3, ScheduleFits DEF GenInv
<1>5. RebuildInv'
  BY <1>3 DEF RebuildInv, RowsOf, NextOf, Rebuilding, LibraryText, Active
<1>6. failure' \/ \E b \in Threads : backfill'[b].pc # "idle"
  BY <1>1, ScheduleFits DEF Busy, Rebuilding
<1> QED
  BY <1>3, <1>4, <1>5, <1>6

-----------------------------------------------------------------------------
(* Steps of the request thread seen from the search                        *)

Searchable == GenInv /\ RebuildInv /\ IndexInv /\ TextInv /\ QueryInv /\ ChangeInv

\* While the request thread has the search lock, or nobody has, nothing is
\* being rebuilt.
LEMMA NothingRebuilt ==
    ASSUME LockInv, search \notin Threads
    PROVE  \A b \in Threads : backfill[b].pc \notin Rebuilding
BY DEF LockInv

LEMMA RebuildVacuous ==
    ASSUME \A b \in Threads : backfill[b].pc \notin Rebuilding
    PROVE  RebuildInv
BY DEF RebuildInv, RowsOf, NextOf, Rebuilding

\* Requests that touch neither text nor index.
LEMMA QuietStep ==
    ASSUME Searchable, UNCHANGED <<fileVars, genVars, backfill, editor, query, edits>>,
           query.pc \notin {"check", "read", "found"},
           req.pc \notin {"remove", "removed", "kept", "marked"},
           up' = up \/ sourceGen = 1
    PROVE  Searchable'
<1> USE DEF fileVars, genVars
<1>1. GenInv' /\ TextInv'
  BY DEF Searchable, GenInv, TextInv
<1>2. RebuildInv' /\ IndexInv'
  BY DEF Searchable, RebuildInv, RowsOf, NextOf, IndexInv, DeletedTextUnsearchable, LibraryText,
     Active, Settled
<1>3. QueryInv'
  BY DEF Searchable, QueryInv, SearchIsFresh
<1>4. ChangeInv'
  BY DEF Searchable, ChangeInv, Attended
<1> QED
  BY <1>1, <1>2, <1>3, <1>4 DEF Searchable

LEMMA QuietRequestStep ==
    ASSUME Searchable, RequestType,
           \/ \E r \in Recs : DeleteRequest(r) \/ NextIntent(r) \/ FinalizeNext(r)
           \/ RecoverRequest \/ TakeMutationLock \/ TakeSearchLock \/ QueueDeletion \/ DeleteFails
           \/ TombstoneUnreadable \/ StoreIntent \/ Unlock \/ FinalizeEnd \/ CleanStage
           \/ CleanupPending \/ CompleteMetadata \/ Start
    PROVE  Searchable'
<1>1. query.pc \in {"check", "read", "found"} => up /\ req.pc = "idle"
  BY DEF Searchable, QueryInv
<1>2. ~up => sourceGen = 1 /\ req.pc = "idle"
  BY DEF Searchable, ChangeInv, RequestType
<1>3. UNCHANGED <<fileVars, genVars, backfill, editor, query, edits>>
  BY DEF DeleteRequest, NextIntent, FinalizeNext, RecoverRequest, TakeMutationLock, TakeSearchLock,
     QueueDeletion, DeleteFails, TombstoneUnreadable, StoreIntent, Unlock, FinalizeEnd, CleanStage,
     CleanupPending, CompleteMetadata, Start, searchVars
<1>4. /\ req.pc \notin {"remove", "removed", "kept", "marked"}
      /\ query.pc \notin {"check", "read", "found"}
      /\ up' = up \/ ~up
  BY <1>1, <1>2 DEF DeleteRequest, NextIntent, FinalizeNext, RecoverRequest, TakeMutationLock, TakeSearchLock,
     QueueDeletion, DeleteFails, TombstoneUnreadable, StoreIntent, Unlock, FinalizeEnd, CleanStage,
     CleanupPending, CompleteMetadata, Start, RequestThreadFree
<1> QED
  BY <1>2, <1>3, <1>4, QuietStep

\* The index files are removed while nothing is rebuilt.
LEMMA InvalidateKeeps ==
    ASSUME Searchable, LockInv, search \notin Threads, req.pc # "idle",
           UNCHANGED <<place, text, genVars, backfill, editor, query, edits, up>>,
           \/ UNCHANGED <<index, next>>
           \/ index' = NoFile /\ next' = NoFile,
           Attended => Attended'
    PROVE  Searchable'
<1> USE DEF genVars
<1>1. GenInv' /\ TextInv'
  BY DEF Searchable, GenInv, TextInv
<1>2. RebuildInv'
  BY NothingRebuilt DEF RebuildInv, RowsOf, NextOf, Rebuilding
<1>3. IndexInv'
  BY DEF Searchable, IndexInv, DeletedTextUnsearchable, LibraryText, Active, Settled
<1>4. QueryInv'
  BY DEF Searchable, QueryInv, SearchIsFresh
<1>5. ChangeInv'
  BY DEF Searchable, ChangeInv
<1> QED
  BY <1>1, <1>2, <1>3, <1>4, <1>5 DEF Searchable

\* mark_trust_search_source_change: everything read before is of an older
\* generation now.
LEMMA MarkKeeps ==
    ASSUME Searchable, LockInv, sourceGen' = sourceGen + 1, failure' = FALSE,
           UNCHANGED <<place, text, indexGen, running, backfill, query, edits, up>>,
           UNCHANGED <<index, next>> \/ (search \notin Threads /\ index' = NoFile /\ next' = NoFile),
           query.pc \in {"check", "read", "found"} => UNCHANGED req,
           up, Attended'
    PROVE  Searchable'
<1>1. sourceGen \in Nat /\ indexGen \in 0..sourceGen /\ GenInv
  BY DEF Searchable, GenInv
<1>2. /\ indexGen # sourceGen' /\ sourceGen' \in Nat /\ sourceGen' > 0 /\ indexGen \in 0..sourceGen'
      /\ \A g \in 1..sourceGen : g \in 1..sourceGen' /\ g # sourceGen'
  BY <1>1
<1>3. GenInv'
  BY <1>1, <1>2 DEF GenInv
<1>4. RebuildInv'
  <2>1. \A b \in Threads : backfill[b].pc \in Rebuilding => backfill[b].gen # sourceGen'
    BY <1>1, <1>2 DEF GenInv
  <2> QED
    BY <2>1 DEF Searchable, RebuildInv, RowsOf, NextOf, Rebuilding, Active
<1>5. IndexInv'
  BY <1>2 DEF Searchable, IndexInv, DeletedTextUnsearchable, Active
<1>6. QueryInv'
  BY <1>2 DEF Searchable, QueryInv, SearchIsFresh
<1>7. TextInv' /\ ChangeInv'
  BY DEF Searchable, TextInv, ChangeInv
<1> QED
  BY <1>3, <1>4, <1>5, <1>6, <1>7 DEF Searchable

\* The process ends: no generation of the next one is indexed yet.
LEMMA EndsKeeps ==
    ASSUME Searchable, LockInv, Ends
    PROVE  Searchable' /\ LockInv'
<1>1. /\ sourceGen' = 1 /\ indexGen' = 0 /\ failure' = FALSE /\ running' = FALSE /\ ~up'
      /\ mutation' = Free /\ search' = Free /\ backfill' = [b \in Threads |-> NoThread]
      /\ editor' = "idle" /\ query' = NoQuery /\ req' = NoRequest
      /\ UNCHANGED <<place, text, index, next, edits>>
  BY DEF Ends, fileVars
<1>2. /\ \A b \in Threads : backfill'[b].pc = "idle"
      /\ req'.pc = "idle" /\ query'.pc = "idle"
  BY <1>1 DEF NoThread, NoRequest, NoQuery
<1>3. backfill' = [b \in Threads |-> backfill'[b]]
  BY <1>1
<1>4. GenInv'
  <2>1. failure' \in BOOLEAN /\ running' \in BOOLEAN /\ ~running'
    BY <1>1
  <2>2. sourceGen' \in Nat /\ sourceGen' > 0 /\ indexGen' \in 0..sourceGen'
    BY <1>1
  <2>3. \A b \in Threads : backfill'[b].pc \notin Busy /\ backfill'[b].pc \notin Rebuilding
    BY <1>2 DEF Busy, Rebuilding
  <2> QED
    BY <1>3, <2>1, <2>2, <2>3 DEF GenInv
<1>5. RebuildInv'
  BY <1>2 DEF RebuildInv, RowsOf, NextOf
<1>6. IndexInv'
  BY <1>1 DEF Searchable, IndexInv, DeletedTextUnsearchable, Active
<1>7. TextInv' /\ QueryInv' /\ ChangeInv'
  BY <1>1, <1>2 DEF Searchable, TextInv, QueryInv, ChangeInv, SearchIsFresh
<1>8. LockInv'
  BY <1>1, <1>2 DEF LockInv, Rebuilding, Searching, Mutating
<1> QED
  BY <1>4, <1>5, <1>6, <1>7, <1>8 DEF Searchable

\* A recording leaves the library while no index file is on disk and nothing
\* is rebuilt or searched.
LEMMA PlaceKeeps ==
    ASSUME Searchable, LockInv, search \notin Threads, req.pc # "idle",
           UNCHANGED <<text, index, next, genVars, backfill, editor, query, edits, up>>,
           Active' \subseteq Active,
           Active' = Active \/ (index = NoFile /\ next = NoFile),
           Attended => Attended'
    PROVE  Searchable'
<1> USE DEF genVars
<1>1. GenInv' /\ TextInv'
  BY DEF Searchable, GenInv, TextInv
<1>2. RebuildInv'
  BY NothingRebuilt DEF RebuildInv, RowsOf, NextOf, Rebuilding
<1>3. IndexInv'
  BY DEF Searchable, IndexInv, DeletedTextUnsearchable, LibraryText, Settled
<1>4. QueryInv'
  BY DEF Searchable, QueryInv, SearchIsFresh
<1>5. ChangeInv'
  BY DEF Searchable, ChangeInv
<1> QED
  BY <1>1, <1>2, <1>3, <1>4, <1>5 DEF Searchable

\* A backfill is asked for: someone is at work on it now, or it failed.
LEMMA ScheduledKeeps ==
    ASSUME Searchable, LockInv, NEW self \in Threads \cup {Free}, Schedule(self, failure),
           self \in Threads => backfill[self].pc = "again",
           UNCHANGED <<fileVars, sourceGen, indexGen, edits, up>>,
           Settled' => Settled,
           \/ query' = query /\ (query.pc \in {"check", "read", "found"} => req' = req)
           \/ query' = NoQuery
    PROVE  /\ Searchable'
           /\ \A b \in Threads : backfill'[b] = backfill[b] \/ backfill'[b].pc \notin Rebuilding
<1> USE DEF fileVars
<1>1. /\ GenInv' /\ RebuildInv'
      /\ \A b \in Threads : backfill'[b] = backfill[b] \/ backfill'[b].pc \notin Rebuilding
      /\ failure' \/ \E b \in Threads : backfill'[b].pc # "idle"
  BY ScheduleKeeps DEF Searchable
<1>2. IndexInv' /\ TextInv'
  BY DEF Searchable, IndexInv, DeletedTextUnsearchable, LibraryText, Active, TextInv
<1>3. QueryInv'
  <2>1. CASE query' = NoQuery
    BY <2>1 DEF QueryInv, SearchIsFresh, NoQuery
  <2>2. CASE query' = query /\ (query.pc \in {"check", "read", "found"} => req' = req)
    BY <2>2 DEF Searchable, QueryInv, SearchIsFresh, LibraryText, Active
  <2> QED
    BY <2>1, <2>2
<1>4. ChangeInv'
  BY <1>1 DEF Searchable, ChangeInv, Attended
<1> QED
  BY <1>1, <1>2, <1>3, <1>4 DEF Searchable

LEMMA SearchRequestStep ==
    ASSUME Searchable, LockInv, RequestType, RequestInv,
           \/ Prepare \/ MoveToTombstone \/ InvalidateAndMark \/ RemoveTombstone \/ RecoverMark
           \/ CleanSearchStage
    PROVE  Searchable'
<1> USE DEF Searching, Mutating
<1>0. req \in RequestsAt(RequestSteps) /\ place \in [Recs -> Places]
  BY DEF RequestType
<1>1. req.pc \in Searching => search = "request" /\ "request" \notin Threads
  BY DEF LockInv, Threads
<1>2. CASE Prepare
  <2>1. Attended => Attended'
    BY <1>2 DEF Prepare, Attended
  <2> QED
    BY <1>1, <1>2, <2>1, InvalidateKeeps DEF Prepare
<1>3. CASE CleanSearchStage
  <2>1. Attended => Attended'
    BY <1>3 DEF CleanSearchStage, Attended
  <2> QED
    BY <1>3, <2>1, InvalidateKeeps DEF CleanSearchStage, Free, Threads
<1>4. CASE InvalidateAndMark
  <2>1. req'.pc = "remove" /\ req.pc = "invalidate"
    BY <1>0, <1>4 DEF InvalidateAndMark, Pc, RequestsAt
  <2>2. Attended'
    BY <2>1 DEF Attended
  <2>3. up /\ query.pc \notin {"check", "read", "found"}
    BY <2>1 DEF RequestType, Searchable, QueryInv
  <2> QED
    BY <1>1, <1>4, <2>1, <2>2, <2>3, MarkKeeps DEF InvalidateAndMark
<1>5. CASE RecoverMark
  <2>1. req'.pc = "marked" /\ req.pc = "each"
    BY <1>0, <1>5 DEF RecoverMark, Pc, RequestsAt
  <2>2. Attended'
    BY <2>1 DEF Attended
  <2>3. up /\ query.pc \notin {"check", "read", "found"}
    BY <2>1 DEF RequestType, Searchable, QueryInv
  <2> QED
    BY <1>5, <2>1, <2>2, <2>3, MarkKeeps DEF RecoverMark, fileVars
<1>6. CASE MoveToTombstone
  <2>1. Active' \subseteq Active /\ (Attended => Attended')
    BY <1>0, <1>6 DEF MoveToTombstone, Active, Attended
  <2>2. index = NoFile /\ next = NoFile
    BY <1>6 DEF MoveToTombstone, RequestInv
  <2> QED
    BY <1>1, <1>6, <2>1, <2>2, PlaceKeeps DEF MoveToTombstone
<1>7. CASE RemoveTombstone
  <2>1. req.pc = "remove" /\ req'.pc \in {"removed", "kept"}
    BY <1>0, <1>7 DEF RemoveTombstone, Pc, RequestsAt
  <2>2. Attended'
    BY <2>1 DEF Attended
  <2>3. place[req.rec] # "active"
    BY <2>1 DEF RequestInv
  <2>4. Active' = Active
    BY <1>0, <1>7, <2>3 DEF RemoveTombstone, Active
  <2> QED
    BY <1>1, <1>7, <2>1, <2>2, <2>4, PlaceKeeps DEF RemoveTombstone
<1> QED
  BY <1>2, <1>3, <1>4, <1>5, <1>6, <1>7

LEMMA ScheduleRequestStep ==
    ASSUME Searchable, LockInv, RequestType, DropSearchLock \/ RecoverSchedule
    PROVE  Searchable' /\ LockInv'
<1>0. req \in RequestsAt(RequestSteps)
  BY DEF RequestType
<1>1. Free \notin Threads /\ Free \in Threads \cup {Free} /\ "request" \notin Threads
  BY DEF Free, Threads
<1>2. CASE DropSearchLock
  <2>1. /\ req.pc \in {"removed", "kept"} /\ req'.pc \in {"each", "unlock"}
        /\ Schedule(Free, failure) /\ search' = Free
        /\ UNCHANGED <<fileVars, sourceGen, indexGen, edits, up, query, editor, mutation>>
    BY <1>2, AfterDeletionFits DEF DropSearchLock, ReleaseSearch, Searching
  <2>2. query.pc \notin {"check", "read", "found"}
    BY <2>1 DEF Searchable, QueryInv
  <2>3. Searchable' /\ \A b \in Threads : backfill'[b] = backfill[b] \/ backfill'[b].pc \notin Rebuilding
    BY <1>1, <2>1, <2>2, ScheduledKeeps DEF Settled
  <2>4. search = "request"
    BY <2>1 DEF LockInv, Searching
  <2>5. LockInv'
    BY <1>1, <2>1, <2>3, <2>4 DEF LockInv, Searching, Mutating
  <2> QED
    BY <2>3, <2>5
<1>3. CASE RecoverSchedule
  <2>1. /\ req.pc = "marked" /\ req'.pc = "unlock" /\ Schedule(Free, failure)
        /\ UNCHANGED <<fileVars, sourceGen, indexGen, edits, up, query, editor, mutation, search>>
    BY <1>0, <1>3 DEF RecoverSchedule, Pc, RequestsAt
  <2>2. query.pc \notin {"check", "read", "found"}
    BY <2>1 DEF Searchable, QueryInv
  <2>3. Searchable' /\ \A b \in Threads : backfill'[b] = backfill[b] \/ backfill'[b].pc \notin Rebuilding
    BY <1>1, <2>1, <2>2, ScheduledKeeps DEF Settled
  <2>4. LockInv'
    BY <2>1, <2>3 DEF LockInv, Searching, Mutating
  <2> QED
    BY <2>3, <2>4
<1> QED
  BY <1>2, <1>3

-----------------------------------------------------------------------------
(* A committed change                                                      *)

LEMMA EditStep ==
    ASSUME Searchable, LockInv, up, UNCHANGED delVars,
           (\E r \in Recs : EditCommit(r)) \/ EditMark \/ EditSchedule
    PROVE  Searchable' /\ LockInv'
<1> USE DEF delVars
<1>1. ASSUME NEW r \in Recs, EditCommit(r) PROVE Searchable' /\ LockInv'
  <2>1. /\ editor' = "committed" /\ ~Settled' /\ mutation = Free /\ mutation' = "editor"
        /\ text' = [text EXCEPT ![r] = @ + 1] /\ edits' = edits + 1 /\ edits < MaxEdits
        /\ UNCHANGED <<place, index, next, genVars, search, backfill, query>>
    BY <1>1 DEF EditCommit, Settled
  <2>2. TextInv'
    <3>1. edits \in Nat /\ edits' \in 0..MaxEdits /\ text \in [Recs -> 0..edits]
      BY <2>1, SearchConstants DEF Searchable, TextInv
    <3>2. \A q \in Recs : text[q] \in 0..edits' /\ text[q] + 1 \in 0..edits'
      BY <2>1, <3>1
    <3> QED
      BY <2>1, <3>1, <3>2 DEF TextInv
  <2>3. GenInv'
    BY <2>1 DEF Searchable, GenInv, genVars
  <2>4. RebuildInv' /\ IndexInv'
    BY <2>1 DEF Searchable, RebuildInv, RowsOf, NextOf, IndexInv, DeletedTextUnsearchable, Active, genVars
  <2>5. QueryInv' /\ ChangeInv'
    BY <2>1 DEF Searchable, QueryInv, SearchIsFresh, ChangeInv, Attended, genVars
  <2>6. LockInv'
    BY <2>1 DEF LockInv, Free
  <2> QED
    BY <2>2, <2>3, <2>4, <2>5, <2>6 DEF Searchable
<1>2. CASE EditMark
  <2>1. Attended'
    BY <1>2 DEF EditMark, Attended
  <2>2. LockInv'
    BY <1>2 DEF EditMark, LockInv
  <2> QED
    BY <1>2, <2>1, <2>2, MarkKeeps DEF EditMark, fileVars
<1>3. CASE EditSchedule
  <2>1. /\ Schedule(Free, failure) /\ editor = "marked" /\ editor' = "idle" /\ mutation' = Free
        /\ UNCHANGED <<fileVars, sourceGen, indexGen, search, query, edits>>
    BY <1>3 DEF EditSchedule
  <2>2. Searchable' /\ \A b \in Threads : backfill'[b] = backfill[b] \/ backfill'[b].pc \notin Rebuilding
    BY <2>1, ScheduledKeeps DEF Settled, Free, Threads
  <2>3. LockInv'
    BY <2>1, <2>2 DEF LockInv
  <2> QED
    BY <2>2, <2>3
<1> QED
  BY <1>1, <1>2, <1>3

-----------------------------------------------------------------------------
(* The backfill thread                                                     *)

\* A step of thread b that leaves text and generation alone.
LEMMA ThreadKeeps ==
    ASSUME Searchable, NEW b \in Threads, NEW t, backfill' = [backfill EXCEPT ![b] = t],
           UNCHANGED <<delVars, place, text, sourceGen, editor, query, edits, running>>,
           indexGen' \in 0..sourceGen, failure' \in BOOLEAN,
           t.pc \in Busy, backfill[b].pc \in Busy,
           t.pc \in Rebuilding => t.gen \in 1..sourceGen,
           RowsOf(t)', NextOf(t)', IndexInv',
           next' = next \/ \A c \in Threads \ {b} : backfill[c].pc \notin Rebuilding
    PROVE  Searchable'
<1> USE DEF delVars
<1>1. /\ \A c \in Threads : backfill'[c] = IF c = b THEN t ELSE backfill[c]
      /\ backfill' = [c \in Threads |-> backfill'[c]]
  BY DEF Searchable, GenInv
<1>2. GenInv'
  BY <1>1 DEF Searchable, GenInv
<1>3. RebuildInv'
  <2> SUFFICES ASSUME NEW c \in Threads, c # b PROVE RowsOf(backfill[c])' /\ NextOf(backfill[c])'
    BY <1>1 DEF RebuildInv
  <2>1. backfill'[c] = backfill[c] /\ RowsOf(backfill[c]) /\ NextOf(backfill[c])
    BY <1>1 DEF Searchable, RebuildInv
  <2>2. Active' = Active /\ LibraryText' = LibraryText /\ (Settled' <=> Settled)
    BY DEF Active, LibraryText, Settled
  <2>3. RowsOf(backfill[c])'
    BY <2>1, <2>2 DEF RowsOf
  <2>4. NextOf(backfill[c])'
    BY <2>1, <2>2 DEF NextOf, Rebuilding
  <2> QED
    BY <2>3, <2>4
<1>4. QueryInv' /\ TextInv'
  BY DEF Searchable, QueryInv, SearchIsFresh, LibraryText, Active, Settled, TextInv
<1>5. ChangeInv'
  <2>1. backfill'[b].pc # "idle"
    BY <1>1 DEF Busy, Rebuilding
  <2> QED
    BY <2>1 DEF Searchable, ChangeInv, Attended
<1> QED
  BY <1>2, <1>3, <1>4, <1>5 DEF Searchable

\* The locks during such a step: taken, kept or dropped by b.
LEMMA ThreadLocks ==
    ASSUME LockInv, GenInv, NEW b \in Threads, NEW t, backfill' = [backfill EXCEPT ![b] = t],
           UNCHANGED <<mutation, req, editor>>,
           \/ search = Free /\ search' = b
           \/ search = b /\ search' = b
           \/ search = b /\ search' = Free /\ t.pc \notin Rebuilding
           \/ search' = search /\ t.pc \notin Rebuilding
    PROVE  LockInv'
<1>1. \A c \in Threads : backfill'[c] = IF c = b THEN t ELSE backfill[c]
  BY DEF GenInv
<1>2. Free \notin Threads /\ "request" \notin Threads /\ Free # "request"
  BY DEF Free, Threads
<1> QED
  BY <1>1, <1>2 DEF LockInv

LEMMA ReadUpdate ==
    ASSUME NEW o, o = [pc |-> "read", gen |-> o.gen, rows |-> o.rows, todo |-> o.todo],
           NEW rows, NEW todo
    PROVE  [o EXCEPT !.todo = todo, !.rows = rows]
               = [pc |-> "read", gen |-> o.gen, rows |-> rows, todo |-> todo]
<1> DEFINE new == [o EXCEPT !.todo = todo, !.rows = rows]
           read == [pc |-> "read", gen |-> o.gen, rows |-> rows, todo |-> todo]
<1>1. DOMAIN o = {"pc", "gen", "rows", "todo"} /\ o.pc = "read"
  OBVIOUS
<1>2. new = [x \in {"pc", "gen", "rows", "todo"} |-> new[x]]
  BY <1>1
<1>3. read = [x \in {"pc", "gen", "rows", "todo"} |-> read[x]]
  OBVIOUS
<1>4. new["pc"] = "read" /\ new["gen"] = o.gen /\ new["rows"] = rows /\ new["todo"] = todo
  BY <1>1
<1>5. read["pc"] = "read" /\ read["gen"] = o.gen /\ read["rows"] = rows /\ read["todo"] = todo
  OBVIOUS
<1> HIDE DEF new, read
<1>6. new = read
  BY <1>2, <1>3, <1>4, <1>5
<1> QED
  BY <1>6 DEF new, read

LEMMA RebuildStep ==
    ASSUME Searchable, LockInv, UNCHANGED delVars, NEW b \in Threads,
           \/ RebuildStart(b) \/ (\E r \in Recs : RebuildRead(b, r)) \/ RebuildWrite(b)
           \/ RebuildSuperseded(b) \/ RebuildRemoveOld(b) \/ RebuildPublish(b) \/ RebuildFails(b)
           \/ RecordOutcome(b)
    PROVE  Searchable' /\ LockInv'
<1> USE DEF genVars, fileVars
<1>0. GenInv /\ RebuildInv /\ IndexInv
  BY DEF Searchable
<1>1. /\ sourceGen \in Nat /\ sourceGen > 0 /\ indexGen \in 0..sourceGen /\ failure \in BOOLEAN
      /\ backfill[b].pc \in Rebuilding => backfill[b].gen \in 1..sourceGen
  BY <1>0 DEF GenInv
<1>2. backfill[b].pc \in Rebuilding => search = b /\ \A c \in Threads \ {b} : backfill[c].pc \notin Rebuilding
  BY DEF LockInv
<1>3. RowsOf(backfill[b]) /\ NextOf(backfill[b])
  BY <1>0 DEF RebuildInv
<1>4. UNCHANGED req
  BY DEF delVars
<1>5. CASE RebuildStart(b)
  <2> PICK t : t = [pc |-> "read", gen |-> sourceGen, rows |-> [r \in {} |-> 0], todo |-> Recs]
    OBVIOUS
  <2>1. /\ backfill' = [backfill EXCEPT ![b] = t] /\ backfill[b].pc = "start"
        /\ search = Free /\ search' = b
        /\ UNCHANGED <<place, text, index, next, sourceGen, indexGen, failure, running, mutation,
                       editor, query, edits>>
    BY <1>5 DEF RebuildStart, Step
  <2>2. t.pc = "read" /\ t.gen = sourceGen /\ t.rows = [r \in {} |-> 0] /\ t.todo = Recs
    OBVIOUS
  <2>3. RowsOf(t)'
    <3>1. Active' \ Recs = {}
      BY DEF Active
    <3> QED
      BY <3>1 DEF RowsOf
  <2>4. t.pc \in Busy /\ backfill[b].pc \in Busy /\ t.gen \in 1..sourceGen
    BY <1>1, <2>1, <2>2 DEF Busy, Rebuilding
  <2>5. NextOf(t)'
    BY <2>2 DEF NextOf
  <2>6. IndexInv'
    BY <1>0, <2>1 DEF IndexInv, DeletedTextUnsearchable, LibraryText, Active, Settled
  <2> QED
    BY <1>0, <1>1, <1>4, <2>1, <2>3, <2>4, <2>5, <2>6, ThreadKeeps, ThreadLocks
<1>6. ASSUME NEW r \in Recs, RebuildRead(b, r) PROVE Searchable' /\ LockInv'
  <2> DEFINE o == backfill[b]
             rows == IF place[r] = "active"
                     THEN [q \in {r} \cup DOMAIN o.rows |-> IF q = r THEN text[r] ELSE o.rows[q]]
                     ELSE o.rows
  <2> PICK t : t = [pc |-> "read", gen |-> o.gen, rows |-> rows, todo |-> o.todo \ {r}]
    OBVIOUS
  <2>1. o.pc = "read" /\ r \in o.todo /\ o.todo \subseteq Recs
    BY <1>3, <1>6 DEF RebuildRead, RowsOf
  <2>2. /\ backfill' = [backfill EXCEPT ![b] = t]
        /\ UNCHANGED <<place, text, index, next, sourceGen, indexGen, failure, running, mutation,
                       search, editor, query, edits>>
    <3>1. o = [pc |-> "read", gen |-> o.gen, rows |-> o.rows, todo |-> o.todo]
      BY <1>3, <2>1 DEF RowsOf
    <3> HIDE DEF rows
    <3>2. [o EXCEPT !.todo = o.todo \ {r}, !.rows = rows] = t
      BY <3>1, ReadUpdate
    <3> QED
      BY <1>6, <3>2 DEF RebuildRead, Step, rows
  <2>3. /\ o.rows = [q \in Active \ o.todo |-> o.rows[q]]
        /\ Settled /\ o.gen = sourceGen => \A q \in Active \ o.todo : o.rows[q] = text[q]
    BY <1>3, <2>1 DEF RowsOf
  <2>4. /\ rows = [q \in Active \ (o.todo \ {r}) |-> rows[q]]
        /\ Settled /\ o.gen = sourceGen => \A q \in Active \ (o.todo \ {r}) : rows[q] = text[q]
    <3>1. CASE place[r] = "active"
      <4>1. {r} \cup DOMAIN o.rows = Active \ (o.todo \ {r})
        BY <2>1, <2>3, <3>1 DEF Active
      <4>2. rows = [q \in Active \ (o.todo \ {r}) |-> IF q = r THEN text[r] ELSE o.rows[q]]
        BY <3>1, <4>1
      <4> QED
        BY <2>3, <4>2
    <3>2. CASE place[r] # "active"
      <4>1. Active \ (o.todo \ {r}) = Active \ o.todo
        BY <3>2 DEF Active
      <4>2. rows = o.rows
        BY <3>2
      <4> HIDE DEF rows
      <4> QED
        BY <2>3, <4>1, <4>2
    <3> QED
      BY <3>1, <3>2
  <2>5. t.pc = "read" /\ t.gen = o.gen /\ t.rows = rows /\ t.todo = o.todo \ {r}
    OBVIOUS
  <2>6. t = [pc |-> "read", gen |-> t.gen, rows |-> t.rows, todo |-> t.todo]
    OBVIOUS
  <2> HIDE DEF rows
  <2>7. Active' = Active /\ (Settled' <=> Settled)
    BY <2>2 DEF Active, Settled
  <2>8. RowsOf(t)' /\ NextOf(t)'
    BY <2>1, <2>2, <2>4, <2>5, <2>6, <2>7 DEF RowsOf, NextOf
  <2>9. IndexInv'
    BY <1>0, <2>2 DEF IndexInv, DeletedTextUnsearchable, LibraryText, Active, Settled
  <2>10. t.pc \in Busy /\ o.pc \in Busy /\ t.gen \in 1..sourceGen /\ search = b
    BY <1>1, <1>2, <2>1, <2>5 DEF Busy, Rebuilding
  <2> QED
    BY <1>0, <1>1, <1>4, <2>2, <2>8, <2>9, <2>10, ThreadKeeps, ThreadLocks
<1>7. CASE RebuildWrite(b)
  <2> DEFINE o == backfill[b]
  <2> PICK t : t = [pc |-> "written", gen |-> o.gen]
    OBVIOUS
  <2>1. /\ backfill' = [backfill EXCEPT ![b] = t] /\ o.pc = "read" /\ o.todo = {} /\ next' = o.rows
        /\ UNCHANGED <<place, text, index, sourceGen, indexGen, failure, running, mutation,
                       search, editor, query, edits>>
    BY <1>7 DEF RebuildWrite, Step
  <2>2. /\ o.rows = [q \in Active |-> o.rows[q]]
        /\ Settled /\ o.gen = sourceGen => o.rows = LibraryText
    BY <1>3, <2>1 DEF RowsOf, LibraryText
  <2>3. Active' = Active /\ LibraryText' = LibraryText /\ (Settled' <=> Settled)
    BY <2>1 DEF Active, LibraryText, Settled
  <2>4. t.pc = "written" /\ t.gen = o.gen
    OBVIOUS
  <2>5. RowsOf(t)' /\ NextOf(t)'
    BY <2>1, <2>2, <2>3, <2>4 DEF RowsOf, NextOf
  <2>6. IndexInv'
    BY <1>0, <2>1, <2>2, <2>3 DEF IndexInv, DeletedTextUnsearchable
  <2>7. t.pc \in Busy /\ o.pc \in Busy /\ t.gen \in 1..sourceGen /\ search = b
    BY <1>1, <1>2, <2>1, <2>4 DEF Busy, Rebuilding
  <2>8. \A c \in Threads \ {b} : backfill[c].pc \notin Rebuilding
    BY <1>2, <2>1 DEF Rebuilding
  <2> QED
    BY <1>0, <1>1, <1>4, <2>1, <2>5, <2>6, <2>7, <2>8, ThreadKeeps, ThreadLocks
<1>8. CASE RebuildSuperseded(b)
  <2> PICK t : t = [pc |-> "finish", retry |-> TRUE]
    OBVIOUS
  <2>1. /\ backfill' = [backfill EXCEPT ![b] = t] /\ backfill[b].pc = "written"
        /\ next' \in {NoFile, next} /\ search' = Free
        /\ UNCHANGED <<place, text, index, sourceGen, indexGen, failure, running, mutation,
                       editor, query, edits>>
    BY <1>8 DEF RebuildSuperseded, Step
  <2>2. t.pc = "finish"
    OBVIOUS
  <2>3. RowsOf(t)' /\ NextOf(t)'
    BY <2>2 DEF RowsOf, NextOf
  <2>4. IndexInv'
    BY <1>0, <2>1 DEF IndexInv, DeletedTextUnsearchable, LibraryText, Active, Settled
  <2>5. t.pc \in Busy /\ t.pc \notin Rebuilding /\ backfill[b].pc \in Busy /\ search = b
    BY <1>2, <2>1, <2>2 DEF Busy, Rebuilding
  <2>6. \A c \in Threads \ {b} : backfill[c].pc \notin Rebuilding
    BY <1>2, <2>1 DEF Rebuilding
  <2> QED
    BY <1>0, <1>1, <1>4, <2>1, <2>3, <2>4, <2>5, <2>6, ThreadKeeps, ThreadLocks
<1>9. CASE RebuildRemoveOld(b)
  <2> DEFINE o == backfill[b]
  <2> PICK t : t = [pc |-> "publish", gen |-> o.gen]
    OBVIOUS
  <2>1. /\ backfill' = [backfill EXCEPT ![b] = t] /\ o.pc = "written" /\ index' = NoFile
        /\ UNCHANGED <<place, text, next, sourceGen, indexGen, failure, running, mutation,
                       search, editor, query, edits>>
    BY <1>9 DEF RebuildRemoveOld, Step
  <2>2. t.pc = "publish" /\ t.gen = o.gen
    OBVIOUS
  <2>3. Active' = Active /\ LibraryText' = LibraryText /\ (Settled' <=> Settled)
    BY <2>1 DEF Active, LibraryText, Settled
  <2>4. RowsOf(t)' /\ NextOf(t)'
    BY <1>3, <2>1, <2>2, <2>3 DEF RowsOf, NextOf
  <2>5. IndexInv'
    BY <1>0, <2>1, <2>3 DEF IndexInv, DeletedTextUnsearchable
  <2>6. t.pc \in Busy /\ o.pc \in Busy /\ t.gen \in 1..sourceGen /\ search = b
    BY <1>1, <1>2, <2>1, <2>2 DEF Busy, Rebuilding
  <2> QED
    BY <1>0, <1>1, <1>4, <2>1, <2>4, <2>5, <2>6, ThreadKeeps, ThreadLocks
<1>10. CASE RebuildPublish(b)
  <2> DEFINE o == backfill[b]
  <2> PICK t : t = [pc |-> "succeeded"]
    OBVIOUS
  <2>1. /\ backfill' = [backfill EXCEPT ![b] = t] /\ o.pc = "publish" /\ index' = next
        /\ next' = NoFile /\ indexGen' = o.gen /\ search' = Free
        /\ UNCHANGED <<place, text, sourceGen, failure, running, mutation, editor, query, edits>>
    BY <1>10 DEF RebuildPublish, Step
  <2>2. t.pc = "succeeded"
    OBVIOUS
  <2>3. Active' = Active /\ LibraryText' = LibraryText /\ (Settled' <=> Settled)
    BY <2>1 DEF Active, LibraryText, Settled
  <2>4. RowsOf(t)' /\ NextOf(t)'
    BY <2>2 DEF RowsOf, NextOf
  <2>5. IndexInv'
    BY <1>0, <1>3, <2>1, <2>3 DEF IndexInv, DeletedTextUnsearchable, NextOf
  <2>6. /\ t.pc \in Busy /\ t.pc \notin Rebuilding /\ o.pc \in Busy /\ search = b
        /\ indexGen' \in 0..sourceGen
    BY <1>1, <1>2, <2>1, <2>2 DEF Busy, Rebuilding
  <2>7. \A c \in Threads \ {b} : backfill[c].pc \notin Rebuilding
    BY <1>2, <2>1 DEF Rebuilding
  <2> QED
    BY <1>0, <1>1, <1>4, <2>1, <2>4, <2>5, <2>6, <2>7, ThreadKeeps, ThreadLocks
<1>11. CASE RebuildFails(b)
  <2> PICK t : t = [pc |-> "failed"]
    OBVIOUS
  <2>1. /\ backfill' = [backfill EXCEPT ![b] = t] /\ backfill[b].pc \in Rebuilding /\ search' = Free
        /\ UNCHANGED <<place, text, index, next, sourceGen, indexGen, failure, running, mutation,
                       editor, query, edits>>
    BY <1>11 DEF RebuildFails, Step, Rebuilding
  <2>2. t.pc = "failed"
    OBVIOUS
  <2>3. RowsOf(t)' /\ NextOf(t)'
    BY <2>2 DEF RowsOf, NextOf
  <2>4. IndexInv'
    BY <1>0, <2>1 DEF IndexInv, DeletedTextUnsearchable, LibraryText, Active, Settled
  <2>5. t.pc \in Busy /\ t.pc \notin Rebuilding /\ backfill[b].pc \in Busy /\ search = b
    BY <1>2, <2>1, <2>2 DEF Busy, Rebuilding
  <2> QED
    BY <1>0, <1>1, <1>4, <2>1, <2>3, <2>4, <2>5, ThreadKeeps, ThreadLocks
<1>12. CASE RecordOutcome(b)
  <2> PICK t : t = [pc |-> "finish", retry |-> FALSE]
    OBVIOUS
  <2>1. /\ backfill' = [backfill EXCEPT ![b] = t] /\ backfill[b].pc \in {"succeeded", "failed"}
        /\ failure' \in BOOLEAN
        /\ UNCHANGED <<place, text, index, next, sourceGen, indexGen, running, mutation,
                       search, editor, query, edits>>
    BY <1>12 DEF RecordOutcome, Step
  <2>2. t.pc = "finish"
    OBVIOUS
  <2>3. RowsOf(t)' /\ NextOf(t)'
    BY <2>2 DEF RowsOf, NextOf
  <2>4. IndexInv'
    BY <1>0, <2>1 DEF IndexInv, DeletedTextUnsearchable, LibraryText, Active, Settled
  <2>5. t.pc \in Busy /\ t.pc \notin Rebuilding /\ backfill[b].pc \in Busy
    BY <2>1, <2>2 DEF Busy, Rebuilding
  <2> QED
    BY <1>0, <1>1, <1>4, <2>1, <2>3, <2>4, <2>5, ThreadKeeps, ThreadLocks
<1> QED
  BY <1>5, <1>6, <1>7, <1>8, <1>9, <1>10, <1>11, <1>12

\* finish_trust_search_backfill: the flag is lowered, then the generations are
\* compared, so that a change is seen by this thread or starts its own.
LEMMA FinishStep ==
    ASSUME Searchable, LockInv, UNCHANGED delVars, NEW b \in Threads,
           FinishRelease(b) \/ FinishCompare(b) \/ FinishSchedule(b)
    PROVE  Searchable' /\ LockInv'
<1> USE DEF genVars, fileVars
<1>0. GenInv /\ RebuildInv /\ IndexInv /\ req' = req /\ up' = up
  BY DEF Searchable, delVars
<1>1. ASSUME NEW t, backfill' = [backfill EXCEPT ![b] = t], t.pc \notin Busy,
             backfill[b].pc \in {"finish", "compare"},
             running' = FALSE \/ (running' = running /\ backfill[b].pc # "finish"),
             running' = FALSE => backfill[b].pc = "finish" \/ ~running,
             t.pc # "idle" \/ sourceGen = indexGen,
             UNCHANGED <<place, text, index, next, sourceGen, indexGen, failure, mutation, search,
                         editor, query, edits>>
      PROVE  Searchable' /\ LockInv'
  <2>1. /\ \A c \in Threads : backfill'[c] = IF c = b THEN t ELSE backfill[c]
        /\ backfill' = [c \in Threads |-> backfill'[c]]
    BY <1>0, <1>1 DEF GenInv
  <2>2. t.pc \notin Rebuilding
    BY <1>1 DEF Busy
  <2>3. GenInv'
    <3>1. \A c \in Threads : backfill'[c].pc \in Busy => backfill'[c] = backfill[c] /\ c # b
      BY <1>1, <2>1
    <3>2. /\ running' \in BOOLEAN
          /\ running' <=> \E c \in Threads : backfill'[c].pc \in Busy
      <4>1. CASE backfill[b].pc = "finish"
        <5>1. backfill[b].pc \in Busy
          BY <4>1 DEF Busy
        <5>2. \A c \in Threads : backfill'[c].pc \notin Busy
          BY <1>0, <3>1, <5>1 DEF GenInv
        <5> QED
          BY <1>1, <4>1, <5>2
      <4>2. CASE backfill[b].pc = "compare"
        <5>1. backfill[b].pc \notin Busy
          BY <4>2 DEF Busy, Rebuilding
        <5>2. \A c \in Threads : backfill'[c].pc \in Busy <=> backfill[c].pc \in Busy
          BY <1>1, <2>1, <5>1
        <5>3. running' <=> running
          BY <1>1, <4>2
        <5>4. running' \in BOOLEAN
          BY <1>0, <1>1, <4>2 DEF GenInv
        <5> QED
          BY <1>0, <5>2, <5>3, <5>4 DEF GenInv
      <4> QED
        BY <1>1, <4>1, <4>2
    <3>3. \A c, d \in Threads : backfill'[c].pc \in Busy /\ backfill'[d].pc \in Busy => c = d
      BY <1>0, <3>1 DEF GenInv
    <3>4. \A c \in Threads : backfill'[c].pc \in Rebuilding => backfill'[c].gen \in 1..sourceGen
      BY <1>0, <2>1, <2>2 DEF GenInv
    <3> QED
      BY <1>0, <1>1, <2>1, <3>2, <3>3, <3>4 DEF GenInv
  <2>4. RebuildInv'
    <3> SUFFICES ASSUME NEW c \in Threads PROVE RowsOf(backfill[c])' /\ NextOf(backfill[c])'
      BY DEF RebuildInv
    <3>1. CASE c = b
      BY <2>1, <2>2, <3>1 DEF RowsOf, NextOf, Rebuilding
    <3>2. CASE c # b
      <4>1. backfill'[c] = backfill[c] /\ RowsOf(backfill[c]) /\ NextOf(backfill[c])
        BY <1>0, <2>1, <3>2 DEF RebuildInv
      <4>2. Active' = Active /\ LibraryText' = LibraryText /\ (Settled' <=> Settled)
        BY <1>0, <1>1 DEF Active, LibraryText, Settled
      <4>3. RowsOf(backfill[c])'
        BY <1>1, <4>1, <4>2 DEF RowsOf
      <4>4. NextOf(backfill[c])'
        BY <1>1, <4>1, <4>2 DEF NextOf, Rebuilding
      <4> QED
        BY <4>3, <4>4
    <3> QED
      BY <3>1, <3>2
  <2>5. IndexInv' /\ TextInv' /\ QueryInv'
    BY <1>0, <1>1 DEF Searchable, IndexInv, DeletedTextUnsearchable, TextInv, QueryInv, SearchIsFresh,
       LibraryText, Active, Settled
  <2>6. ChangeInv'
    <3>1. t.pc # "idle" => Attended'
      BY <2>1 DEF Attended
    <3> QED
      BY <1>0, <1>1, <3>1 DEF Searchable, ChangeInv
  <2>7. LockInv'
    BY <1>0, <1>1, <2>2, ThreadLocks
  <2> QED
    BY <2>3, <2>4, <2>5, <2>6, <2>7 DEF Searchable
<1>2. CASE FinishRelease(b)
  <2> PICK t : t = [pc |-> "compare", retry |-> backfill[b].retry]
    OBVIOUS
  <2>1. t.pc = "compare" /\ t.pc \notin Busy
    BY DEF Busy, Rebuilding
  <2>2. /\ backfill' = [backfill EXCEPT ![b] = t] /\ backfill[b].pc = "finish" /\ running' = FALSE
        /\ UNCHANGED <<place, text, index, next, sourceGen, indexGen, failure, mutation, search,
                       editor, query, edits>>
    BY <1>2 DEF FinishRelease, Step
  <2> QED
    BY <1>1, <2>1, <2>2
<1>3. CASE FinishCompare(b)
  <2> PICK t : t = IF backfill[b].retry \/ sourceGen # indexGen THEN [pc |-> "again"] ELSE NoThread
    OBVIOUS
  <2>1. t.pc \notin Busy /\ (t.pc # "idle" \/ sourceGen = indexGen)
    BY DEF Busy, Rebuilding, NoThread
  <2>2. /\ backfill' = [backfill EXCEPT ![b] = t] /\ backfill[b].pc = "compare" /\ running' = running
        /\ UNCHANGED <<place, text, index, next, sourceGen, indexGen, failure, mutation, search,
                       editor, query, edits>>
    BY <1>3 DEF FinishCompare, Step
  <2>3. running' = FALSE => ~running
    BY <2>2
  <2> QED
    BY <1>1, <2>1, <2>2, <2>3
<1>4. CASE FinishSchedule(b)
  <2>1. /\ Schedule(b, failure) /\ backfill[b].pc = "again"
        /\ UNCHANGED <<fileVars, sourceGen, indexGen, mutation, search, editor, query, edits>>
    BY <1>4 DEF FinishSchedule
  <2>2. Searchable' /\ \A c \in Threads : backfill'[c] = backfill[c] \/ backfill'[c].pc \notin Rebuilding
    BY <1>0, <2>1, ScheduledKeeps DEF Settled
  <2>3. LockInv'
    BY <1>0, <2>1, <2>2, LockFrame
  <2> QED
    BY <2>2, <2>3
<1> QED
  BY <1>2, <1>3, <1>4

-----------------------------------------------------------------------------
(* A search                                                                *)

LEMMA QueryKeeps ==
    ASSUME Searchable, LockInv, UNCHANGED <<delVars, fileVars, genVars, mutation, search, backfill, editor, edits>>,
           QueryInv'
    PROVE  Searchable' /\ LockInv'
<1> USE DEF delVars, fileVars, genVars
<1>1. GenInv' /\ TextInv' /\ LockInv'
  BY DEF Searchable, GenInv, TextInv, LockInv
<1>2. RebuildInv' /\ IndexInv'
  BY DEF Searchable, RebuildInv, RowsOf, NextOf, IndexInv, DeletedTextUnsearchable, LibraryText,
     Active, Settled
<1>3. ChangeInv'
  BY DEF Searchable, ChangeInv, Attended
<1> QED
  BY <1>1, <1>2, <1>3 DEF Searchable

LEMMA SearchStep ==
    ASSUME Searchable, LockInv, up, req.pc = "idle", QueryStart \/ QueryStep, UNCHANGED delVars
    PROVE  Searchable' /\ LockInv'
<1> USE DEF delVars, fileVars, genVars
<1>0. QueryInv /\ IndexInv /\ GenInv
  BY DEF Searchable
<1>1. CASE QueryStart
  BY <1>0, <1>1, QueryKeeps DEF QueryStart, QueryInv, SearchIsFresh
<1>2. CASE QueryRefused
  BY <1>0, <1>2, QueryKeeps DEF QueryRefused, Refuse, NoQuery, QueryInv, SearchIsFresh
<1>3. CASE QueryStale
  <2>1. /\ Schedule(Free, failure) /\ query' = NoQuery
        /\ UNCHANGED <<fileVars, sourceGen, indexGen, mutation, search, editor, edits>>
    BY <1>3 DEF QueryStale, Refuse
  <2>2. Searchable' /\ \A b \in Threads : backfill'[b] = backfill[b] \/ backfill'[b].pc \notin Rebuilding
    BY <2>1, ScheduledKeeps DEF Settled, Free, Threads
  <2> QED
    BY <2>1, <2>2, LockFrame
<1>4. CASE QueryAccepted
  <2>1. query'.pc = "read" /\ query'.gen = sourceGen
    BY <1>4 DEF QueryAccepted
  <2>2. QueryInv'
    BY <1>0, <1>4, <2>1 DEF QueryAccepted, QueryInv, SearchIsFresh, GenInv
  <2> QED
    BY <1>4, <2>2, QueryKeeps DEF QueryAccepted
<1>5. CASE QueryRead
  <2>1. query'.pc = "found" /\ query'.gen = query.gen /\ query'.rows = index
    BY <1>5 DEF QueryRead
  <2>2. QueryInv'
    BY <1>0, <1>5, <2>1 DEF QueryRead, QueryInv, SearchIsFresh, IndexInv, LibraryText, Active, Settled
  <2> QED
    BY <1>5, <2>2, QueryKeeps DEF QueryRead
<1>6. CASE QueryAnswer
  <2>1. query'.pc = "answered" /\ query'.rows = query.rows /\ query'.truth = LibraryText
    BY <1>6 DEF QueryAnswer
  <2>2. Settled
    BY <1>6 DEF QueryAnswer, LockInv, Settled, Free
  <2>3. QueryInv'
    BY <1>0, <1>6, <2>1, <2>2 DEF QueryAnswer, QueryInv, SearchIsFresh
  <2> QED
    BY <1>6, <2>3, QueryKeeps DEF QueryAnswer
<1> QED
  BY <1>1, <1>2, <1>3, <1>4, <1>5, <1>6 DEF QueryStep

-----------------------------------------------------------------------------
(* The invariant and the theorems                                          *)

LEMMA DelInitial == DelInit => DelInv
<1> SUFFICES ASSUME DelInit PROVE DelInv
  OBVIOUS
<1> USE DEF DelInit, SearchInit
<1>1. req.pc = "idle" /\ query.pc = "idle" /\ \A b \in Threads : backfill[b].pc = "idle"
  BY DEF NoRequest, NoQuery, NoThread
<1>2. RequestType
  BY <1>1, NewRequestFits DEF RequestType, Places, DerivedStores, Searching
<1>3. RequestInv /\ DeletionLeavesNothing
  BY <1>1 DEF RequestInv, DeletionLeavesNothing, NothingLeftBehind, TombstoneHasIntent
<1>4. LockInv
  BY <1>1 DEF LockInv, Searching, Mutating, Rebuilding
<1>5. GenInv
  <2>1. failure \in BOOLEAN /\ running \in BOOLEAN /\ ~running
    OBVIOUS
  <2>2. backfill = [b \in Threads |-> backfill[b]]
    OBVIOUS
  <2>3. sourceGen \in Nat /\ sourceGen > 0 /\ indexGen \in 0..sourceGen
    OBVIOUS
  <2>4. \A b \in Threads : backfill[b].pc \notin Busy /\ backfill[b].pc \notin Rebuilding
    BY <1>1 DEF Busy, Rebuilding
  <2> HIDE DEF DelInit, SearchInit
  <2> QED
    BY <2>1, <2>2, <2>3, <2>4 DEF GenInv
<1>6. RebuildInv
  BY <1>1 DEF RebuildInv, RowsOf, NextOf
<1>7. IndexInv /\ TextInv
  BY SearchConstants DEF IndexInv, DeletedTextUnsearchable, TextInv
<1>8. QueryInv /\ ChangeInv
  BY <1>1 DEF QueryInv, SearchIsFresh, ChangeInv
<1> QED
  BY <1>2, <1>3, <1>4, <1>5, <1>6, <1>7, <1>8 DEF DelInv

LEMMA DelStep == DelInv /\ [DelNext]_allVars => DelInv'
<1> SUFFICES ASSUME DelInv, [DelNext]_allVars PROVE DelInv'
  OBVIOUS
<1>0. Deleting /\ LockInv /\ Searchable /\ RequestType /\ RequestInv
  BY DEF DelInv, Deleting, Searchable
<1> SUFFICES Deleting' /\ LockInv' /\ Searchable'
  BY DEF DelInv, Deleting, Searchable
<1>1. CASE \/ \E r \in Recs : DeleteRequest(r)
           \/ RecoverRequest \/ RequestStep \/ Start
  <2>1. Deleting'
    BY <1>0, <1>1, DeletingStep
  <2>2. CASE DropSearchLock \/ RecoverSchedule
    BY <1>0, <2>1, <2>2, ScheduleRequestStep
  <2>3. CASE ~(DropSearchLock \/ RecoverSchedule)
    <3>1. LockInv'
      BY <1>0, <1>1, <2>3, LockRequestStep DEF RequestStep
    <3>2. Searchable'
      BY <1>0, <1>1, <2>3, QuietRequestStep, SearchRequestStep DEF RequestStep
    <3> QED
      BY <2>1, <3>1, <3>2
  <2> QED
    BY <2>2, <2>3
<1>2. CASE Kill \/ Quit
  <2>1. Deleting'
    BY <1>0, <1>2, DeletingStep
  <2> QED
    BY <1>0, <1>2, <2>1, EndsKeeps DEF Kill, Quit
<1>3. CASE up /\ BackgroundStep /\ UNCHANGED delVars
  <2>1. LockInv' /\ Searchable'
    BY <1>0, <1>3, EditStep, RebuildStep, FinishStep DEF BackgroundStep, BackfillStep
  <2>2. place' = place
    BY <1>3 DEF BackgroundStep, BackfillStep, EditCommit, EditMark, EditSchedule, RebuildStart,
       RebuildRead, RebuildWrite, RebuildSuperseded, RebuildRemoveOld, RebuildPublish, RebuildFails,
       RecordOutcome, FinishRelease, FinishCompare, FinishSchedule, fileVars
  <2>3. req.pc \in {"intent", "rename"} => UNCHANGED <<index, next>>
    <3> SUFFICES ASSUME req.pc \in {"intent", "rename"} PROVE UNCHANGED <<index, next>>
      OBVIOUS
    <3>1. \A b \in Threads : backfill[b].pc \notin Rebuilding
      BY <1>0, NothingRebuilt DEF LockInv, Searching, Threads
    <3> QED
      BY <1>3, <3>1 DEF BackgroundStep, BackfillStep, EditCommit, EditMark, EditSchedule, RebuildStart,
         RebuildRead, RebuildWrite, RebuildSuperseded, RebuildRemoveOld, RebuildPublish, RebuildFails,
         RecordOutcome, FinishRelease, FinishCompare, FinishSchedule, fileVars, Rebuilding
  <2>4. Deleting'
    BY <1>0, <1>3, <2>2, <2>3, DeletingFrame
  <2> QED
    BY <2>1, <2>4
<1>4. CASE up /\ req.pc = "idle" /\ (QueryStart \/ QueryStep) /\ UNCHANGED delVars
  <2>1. LockInv' /\ Searchable'
    BY <1>0, <1>4, SearchStep
  <2>2. UNCHANGED fileVars
    BY <1>4 DEF QueryStart, QueryStep, QueryRefused, QueryStale, QueryAccepted, QueryRead, QueryAnswer
  <2>3. Deleting'
    BY <1>0, <1>4, <2>2, DeletingFrame DEF fileVars
  <2> QED
    BY <2>1, <2>3
<1>5. CASE UNCHANGED allVars
  <2>1. UNCHANGED delVars /\ UNCHANGED fileVars /\ query' = query
        /\ UNCHANGED <<genVars, mutation, search, backfill, editor, edits>>
    BY <1>5 DEF allVars, searchVars
  <2>2. Deleting'
    BY <1>0, <2>1, DeletingFrame DEF fileVars
  <2>3. QueryInv'
    BY <1>0, <2>1 DEF Searchable, QueryInv, SearchIsFresh, LibraryText, Active, Settled, delVars,
       fileVars, genVars
  <2> QED
    BY <1>0, <2>1, <2>2, <2>3, QueryKeeps
<1> QED
  BY <1>1, <1>2, <1>3, <1>4, <1>5 DEF DelNext

LEMMA DelInvariant == DelSpec => []DelInv
BY DelInitial, DelStep, PTL DEF DelSpec

\* A deletion (delete_finished and its recovery, finalize_deletion_result) that
\* ended left no data of the recording in a derived store, and one that was
\* begun has its intent on disk: for every library, however often requests
\* fail, stores refuse to be cleaned, and the process is killed or quit.
THEOREM DeletionIsComplete == DelSpec => []DeletionLeavesNothing
<1>1. DelInv => DeletionLeavesNothing
  BY DEF DelInv
<1> QED
  BY <1>1, DelInvariant, PTL

\* finish_trust_search_backfill lowers its flag before it compares the
\* generations: no change of the library is lost to the index, whatever the
\* order of edits, deletions, rebuilds, searches and failures.
THEOREM NoChangeIsLost == DelSpec => []NoLostChange
<1>1. DelInv => NoLostChange
  BY DEF DelInv, ChangeInv, Attended, NoLostChange
<1> QED
  BY <1>1, DelInvariant, PTL

\* An answer of search is the text of the library at that moment, and no index
\* file holds text of a recording that left the library (delete_finished,
\* rebuild_trust_search_index_once, search), for every library.
THEOREM SearchIsSound == DelSpec => []SearchSound
<1>1. DelInv => SearchSound
  <2> SUFFICES ASSUME DelInv PROVE DelTypeOK
    BY DEF DelInv, IndexInv, QueryInv, SearchSound
  <2>1. text \in [Recs -> 0..MaxEdits]
    BY SearchConstants DEF DelInv, TextInv
  <2> DEFINE S == {b \in Threads : backfill[b].pc \in {"start", "read", "written", "publish"}}
  <2>2. Cardinality(S) <= 1
    <3>1. \A b, c \in S : b = c
      BY DEF DelInv, GenInv, Busy, Rebuilding
    <3>2. CASE S = {}
      BY <3>2, FS_EmptySet
    <3>3. CASE S # {}
      <4> PICK b : S = {b}
        BY <3>1, <3>3
      <4>1. Cardinality({b}) = 1
        BY FS_Singleton
      <4> HIDE DEF S
      <4> QED
        BY <4>1
    <3> QED
      BY <3>2, <3>3
  <2>3. place \in [Recs -> {"active", "tombstone", "gone"}]
    BY DEF DelInv, RequestType, Places
  <2> HIDE DEF S
  <2> QED
    BY <2>1, <2>2, <2>3 DEF DelInv, RequestType, LockInv, GenInv, DelTypeOK, S
<1> QED
  BY <1>1, DelInvariant, PTL
=============================================================================
