------------------------------ MODULE Deletion ------------------------------
(***************************************************************************)
(* Permanent deletion of a recording: delete_finished and its recovery in  *)
(* recording_store.rs, and the clean-up of the derived stores that main.rs *)
(* runs after it.  The request thread holds the mutation lock and, when it *)
(* can get it in time, the search lock; a durable intent marker carries    *)
(* the confirmation across a kill of the process between any two steps.    *)
(***************************************************************************)
EXTENDS TrustSearch, Sequences

CONSTANTS
    Deletable,      \* the finished recordings a user may delete
    MaxRequests     \* bound on delete and recover requests

ASSUME DeletionConstants ==
    Deletable \subseteq Recs /\ MaxRequests \in Nat

VARIABLES
    marker,     \* the recordings with a durable deletion intent
    torn,       \* tombstones whose manifest is gone while other files remain
    derived,    \* the derived stores that still hold data of a recording
    req,        \* the request thread
    requests,   \* requests so far
    up          \* the process runs

delVars == <<marker, torn, derived, req, requests, up>>
allVars == <<searchVars, delVars>>

\* The order of finalize_deletion_result.  "stores" stands for jobs, live
\* transcript, terminology and diarization, cleaned one after another; the
\* search index is a stage of its own.
Stages == <<"stores", "search-index", "vault-index">>
DerivedStores == {"stores", "vault-index"}

\* recover: the request replays intents; todo are the ones left, done the
\* ones whose data is removed and whose derived stores are to be cleaned.
NoRequest == [pc |-> "idle", recover |-> FALSE, rec |-> NoFile, todo |-> {}, done |-> {}, stage |-> 0]

Pc(pc) == req' = [req EXCEPT !.pc = pc]

---------------------------------------------------------------------------
(* The request arm of main.rs and the locks.                               *)

\* Requests are served one after another, searches among them.
RequestThreadFree == up /\ req.pc = "idle" /\ query.pc \in {"idle", "answered"}

\* recording.durable.delete: require_finished finds the active recording.
DeleteRequest(r) ==
    /\ RequestThreadFree /\ requests < MaxRequests
    /\ r \in Deletable /\ place[r] = "active"
    /\ requests' = requests + 1
    /\ req' = [NoRequest EXCEPT !.pc = "lock", !.rec = r]
    /\ UNCHANGED <<searchVars, marker, torn, derived, up>>

\* recording.durable.recover
RecoverRequest ==
    /\ RequestThreadFree /\ requests < MaxRequests
    /\ requests' = requests + 1
    /\ req' = [NoRequest EXCEPT !.pc = "lock", !.recover = TRUE]
    /\ UNCHANGED <<searchVars, marker, torn, derived, up>>

TakeMutationLock ==
    /\ req.pc \in {"lock", "metadata"} /\ mutation = Free
    /\ mutation' = "request"
    /\ req' = [req EXCEPT !.pc = CASE @ = "metadata" -> "complete"
                                   [] req.recover -> "each"
                                   [] OTHER -> "search",
                          !.todo = IF req.pc = "lock" /\ req.recover THEN marker ELSE @]
    /\ UNCHANGED <<fileVars, genVars, search, backfill, editor, query, edits, queries, faults,
                   marker, torn, derived, requests, up>>

\* The next intent of recover_pending_deletions.
NextIntent(r) ==
    /\ req.pc = "each" /\ r \in req.todo
    /\ req' = [req EXCEPT !.pc = "search", !.rec = r, !.todo = @ \ {r}]
    /\ UNCHANGED <<searchVars, marker, torn, derived, requests, up>>

\* Mutant of AfterDeletion: recovery forgets what it has removed.
AfterDeletionForgetful(removed) ==
    IF req.recover THEN [req EXCEPT !.pc = "each"]
    ELSE IF removed THEN [req EXCEPT !.pc = "unlock", !.done = {req.rec}]
    ELSE [req EXCEPT !.pc = "unlock"]

\* What the end of one deletion leads to; removed: recordingDataRemoved.
AfterDeletion(removed) ==
    IF req.recover
    THEN [req EXCEPT !.pc = "each", !.done = IF removed THEN @ \cup {req.rec} ELSE @]
    ELSE IF removed THEN [req EXCEPT !.pc = "unlock", !.done = {req.rec}]
    ELSE [req EXCEPT !.pc = "unlock"]

\* The bounded wait for the search lock.
TakeSearchLock ==
    /\ req.pc = "search" /\ search = Free
    /\ search' = "request"
    /\ Pc("prepare")
    /\ UNCHANGED <<fileVars, genVars, mutation, backfill, editor, query, edits, queries, faults,
                   marker, torn, derived, requests, up>>

\* write_deletion_intent, which keeps an intent that exists.
WriteIntent(r) == marker' = marker \cup {r}

\* queue_confirmed_deletion: the wait ran out; only the intent is stored.
QueueDeletion ==
    LET r == req.rec IN
    /\ req.pc = "search" /\ search # Free
    /\ \/ r \notin torn /\ WriteIntent(r) /\ req' = AfterDeletion(place[r] = "gone") /\ NoFault
       \/ r \notin torn /\ req' = AfterDeletion(FALSE) /\ Fault /\ UNCHANGED marker
       \/ r \in torn /\ req' = AfterDeletion(FALSE) /\ NoFault /\ UNCHANGED marker
    /\ UNCHANGED <<fileVars, genVars, mutation, search, backfill, editor, query, edits, queries,
                   torn, derived, requests, up>>

---------------------------------------------------------------------------
(* delete_finished_unlocked, with the search lock held.                    *)

ReleaseSearch == search' = Free

\* An error before the data is gone: both guards are dropped.
DeleteFails ==
    /\ req.pc \in {"prepare", "intent", "rename", "invalidate"} /\ Fault
    /\ ReleaseSearch /\ req' = AfterDeletion(FALSE)
    /\ UNCHANGED <<fileVars, genVars, mutation, backfill, editor, query, edits, queries,
                   marker, torn, derived, requests, up>>

\* read_manifest of a tombstone that lost its manifest fails.
TombstoneUnreadable ==
    /\ req.pc = "prepare" /\ req.rec \in torn
    /\ ReleaseSearch /\ req' = AfterDeletion(FALSE)
    /\ UNCHANGED <<fileVars, genVars, mutation, backfill, editor, query, edits, queries, faults,
                   marker, torn, derived, requests, up>>

\* Mutant of Prepare: a rebuild left its unfinished file behind.
PrepareKeepsNext ==
    LET r == req.rec IN
    /\ req.pc = "prepare" /\ r \notin torn
    /\ index' = NoFile
    /\ Pc(IF place[r] = "gone" THEN "invalidate" ELSE "intent")
    /\ UNCHANGED <<place, text, next, genVars, mutation, search, backfill, editor, query,
                   edits, queries, faults, marker, torn, derived, requests, up>>

\* The checks, and the first invalidation: the whole index directory goes.
Prepare ==
    LET r == req.rec IN
    /\ req.pc = "prepare" /\ r \notin torn
    /\ IF place[r] = "gone" THEN UNCHANGED <<index, next>>
       ELSE index' = NoFile /\ next' = NoFile
    /\ Pc(IF place[r] = "gone" THEN "invalidate" ELSE "intent")
    /\ UNCHANGED <<place, text, genVars, mutation, search, backfill, editor, query,
                   edits, queries, faults, marker, torn, derived, requests, up>>

\* Mutant of StoreIntent: only a queued deletion stores its intent.
StoreNoIntent ==
    /\ req.pc = "intent"
    /\ Pc(IF place[req.rec] = "active" THEN "rename" ELSE "invalidate")
    /\ UNCHANGED <<searchVars, marker, torn, derived, requests, up>>

StoreIntent ==
    LET r == req.rec IN
    /\ req.pc = "intent"
    /\ WriteIntent(r)
    /\ Pc(IF place[r] = "active" THEN "rename" ELSE "invalidate")
    /\ UNCHANGED <<searchVars, torn, derived, requests, up>>

MoveToTombstone ==
    /\ req.pc = "rename"
    /\ place' = [place EXCEPT ![req.rec] = "tombstone"]
    /\ Pc("invalidate")
    /\ UNCHANGED <<text, index, next, genVars, mutation, search, backfill, editor, query,
                   edits, queries, faults, marker, torn, derived, requests, up>>

\* The second invalidation, and the mark of the changed source.
InvalidateAndMark ==
    /\ req.pc = "invalidate"
    /\ index' = NoFile /\ next' = NoFile
    /\ sourceGen' = sourceGen + 1 /\ failure' = FALSE
    /\ Pc("remove")
    /\ UNCHANGED <<place, text, indexGen, running, mutation, search, backfill, editor, query,
                   edits, queries, faults, marker, torn, derived, requests, up>>

\* remove_deletion_tombstone
RemoveTombstone ==
    LET r == req.rec IN
    /\ req.pc = "remove"
    /\ \/ /\ place' = [place EXCEPT ![r] = "gone"] /\ torn' = torn \ {r}
          /\ Pc("removed") /\ NoFault
       \/ /\ place[r] = "tombstone" /\ Fault
          /\ torn' \in {torn, torn \cup {r}}
          /\ place' = place /\ Pc("kept")
    /\ UNCHANGED <<text, index, next, genVars, mutation, search, backfill, editor, query,
                   edits, queries, marker, derived, requests, up>>

\* The search lock is dropped, then the backfill scheduled.
DropSearchLock ==
    /\ req.pc \in {"removed", "kept"}
    /\ ReleaseSearch
    /\ Schedule(Free, failure)
    /\ req' = AfterDeletion(req.pc = "removed")
    /\ UNCHANGED <<fileVars, sourceGen, indexGen, mutation, editor, query, edits, queries,
                   marker, torn, derived, requests, up>>

\* recover marks the source as changed after the last recording.
RecoverMark ==
    /\ req.pc = "each" /\ req.todo = {}
    /\ sourceGen' = sourceGen + 1 /\ failure' = FALSE
    /\ Pc("marked")
    /\ UNCHANGED <<fileVars, indexGen, running, mutation, search, backfill, editor, query,
                   edits, queries, faults, marker, torn, derived, requests, up>>

RecoverSchedule ==
    /\ req.pc = "marked"
    /\ Schedule(Free, failure)
    /\ Pc("unlock")
    /\ UNCHANGED <<fileVars, sourceGen, indexGen, mutation, search, editor, query, edits, queries,
                   marker, torn, derived, requests, up>>

Unlock ==
    /\ req.pc = "unlock"
    /\ mutation' = Free
    /\ Pc("finalize")
    /\ UNCHANGED <<fileVars, genVars, search, backfill, editor, query, edits, queries, faults,
                   marker, torn, derived, requests, up>>

---------------------------------------------------------------------------
(* finalize_deletion_result and reconcile_recovered_deletions.             *)

FinalizeNext(r) ==
    /\ req.pc = "finalize" /\ r \in req.done
    /\ req' = [req EXCEPT !.pc = "cleanup", !.rec = r, !.done = @ \ {r}, !.stage = 1]
    /\ UNCHANGED <<searchVars, marker, torn, derived, requests, up>>

FinalizeEnd ==
    /\ req.pc = "finalize" /\ req.done = {}
    /\ req' = NoRequest
    /\ UNCHANGED <<searchVars, marker, torn, derived, requests, up>>

NextStage ==
    [req EXCEPT !.stage = @ + 1, !.pc = IF req.stage = Len(Stages) THEN "metadata" ELSE "cleanup"]

\* Mutant of CleanStage: a store that could not be cleaned is passed over.
CleanStageRegardless ==
    LET s == Stages[req.stage] IN
    /\ req.pc = "cleanup" /\ s # "search-index"
    /\ \/ derived' = [derived EXCEPT ![req.rec] = @ \ {s}] /\ NoFault
       \/ derived' = derived /\ Fault
    /\ req' = NextStage
    /\ UNCHANGED <<fileVars, genVars, mutation, search, backfill, editor, query, edits, queries,
                   marker, torn, requests, up>>

CleanStage ==
    LET s == Stages[req.stage] IN
    /\ req.pc = "cleanup" /\ s # "search-index"
    /\ derived' = [derived EXCEPT ![req.rec] = @ \ {s}]
    /\ req' = NextStage
    /\ UNCHANGED <<searchVars, marker, torn, requests, up>>

\* invalidate_trust_search_index takes and drops the search lock; it marks
\* nothing, so that the next query finds no index and asks for one.
CleanSearchStage ==
    /\ req.pc = "cleanup" /\ Stages[req.stage] = "search-index" /\ search = Free
    /\ index' = NoFile /\ next' = NoFile
    /\ req' = NextStage
    /\ UNCHANGED <<place, text, genVars, mutation, search, backfill, editor, query, edits,
                   queries, faults, marker, torn, derived, requests, up>>

\* The request finds a rebuild holding the search lock and waits for it, for
\* TRUST_SEARCH_INVALIDATION_WAIT_MS at most.
SearchBusy ==
    /\ search # Free
    /\ req.pc = "search" \/ (req.pc = "cleanup" /\ Stages[req.stage] = "search-index")

\* deletion_cleanup_pending: the stage failed, or the wait for the search lock
\* ran out, which can happen at every recovery; the intent stays for the next.
CleanupPending ==
    /\ req.pc = "cleanup"
    /\ Fault \/ (SearchBusy /\ NoFault)
    /\ Pc("finalize")
    /\ UNCHANGED <<fileVars, genVars, mutation, search, backfill, editor, query, edits, queries,
                   marker, torn, derived, requests, up>>

\* complete_deletion_metadata, under the mutation lock.
CompleteMetadata ==
    LET r == req.rec IN
    /\ req.pc = "complete"
    /\ \/ place[r] = "gone" /\ marker' = marker \ {r} /\ NoFault
       \/ marker' = marker /\ Fault
    /\ mutation' = Free
    /\ Pc("finalize")
    /\ UNCHANGED <<fileVars, genVars, search, backfill, editor, query, edits, queries,
                   torn, derived, requests, up>>

---------------------------------------------------------------------------
(* The process ends and starts again; what only memory held is lost.       *)

Ends ==
    /\ up' = FALSE /\ req' = NoRequest
    /\ sourceGen' = 1 /\ indexGen' = 0 /\ failure' = FALSE /\ running' = FALSE
    /\ mutation' = Free /\ search' = Free
    /\ backfill' = [b \in Threads |-> NoThread]
    /\ editor' = "idle" /\ query' = NoQuery
    /\ UNCHANGED <<fileVars, edits, queries, marker, derived, requests>>

Kill ==
    /\ up /\ Fault /\ Ends
    /\ torn' \in {torn} \cup (IF req.pc = "remove" /\ place[req.rec] = "tombstone"
                              THEN {torn \cup {req.rec}} ELSE {})

\* The user quits between requests; background threads are cut off.
Quit == RequestThreadFree /\ marker # {} /\ Ends /\ UNCHANGED <<torn, faults>>

\* A start replays the intents before anything else.
Start ==
    /\ ~up
    /\ up' = TRUE
    /\ req' = [NoRequest EXCEPT !.pc = "lock", !.recover = TRUE]
    /\ UNCHANGED <<searchVars, marker, torn, derived, requests>>

DelInit ==
    /\ SearchInit
    /\ marker = {} /\ torn = {}
    /\ derived = [r \in Recs |-> IF r \in Deletable THEN DerivedStores ELSE {}]
    /\ req = NoRequest /\ requests = 0 /\ up = TRUE

RequestStep ==
    \/ TakeMutationLock \/ (\E r \in Recs : NextIntent(r))
    \/ TakeSearchLock \/ QueueDeletion
    \/ DeleteFails \/ TombstoneUnreadable \/ Prepare \/ StoreIntent \/ MoveToTombstone
    \/ InvalidateAndMark \/ RemoveTombstone \/ DropSearchLock
    \/ RecoverMark \/ RecoverSchedule \/ Unlock
    \/ (\E r \in Recs : FinalizeNext(r)) \/ FinalizeEnd
    \/ CleanStage \/ CleanSearchStage \/ CleanupPending \/ CompleteMetadata

DelNext ==
    \/ \E r \in Recs : DeleteRequest(r)
    \/ RecoverRequest
    \/ RequestStep
    \/ Kill \/ Quit \/ Start
    \/ up /\ BackgroundStep /\ UNCHANGED delVars
    \/ up /\ req.pc = "idle" /\ (QueryStart \/ QueryStep) /\ UNCHANGED delVars

\* The threads of a running process get their turn, a process that ended is
\* started again, and a user whose deletion is pending restarts it.
\* At most one of the first four is possible at a time.
DelFairness ==
    /\ WF_allVars(RequestStep \/ (up /\ QueryStep /\ UNCHANGED delVars) \/ Start \/ Quit)
    /\ WF_allVars(up /\ (EditMark \/ EditSchedule) /\ UNCHANGED delVars)
    /\ \A b \in Threads : WF_allVars(up /\ BackfillStep(b) /\ UNCHANGED delVars)

DelSpec == DelInit /\ [][DelNext]_allVars /\ DelFairness

---------------------------------------------------------------------------
(* Properties.                                                             *)

\* The variables hold what the code can store in them.
DelTypeOK ==
    /\ place \in [Recs -> {"active", "tombstone", "gone"}]
    /\ text \in [Recs -> 0..MaxEdits]
    /\ sourceGen \in Nat /\ indexGen \in 0..sourceGen
    /\ failure \in BOOLEAN /\ running \in BOOLEAN
    /\ mutation \in {Free, "editor", "request"}
    /\ search \in {Free, "request"} \cup Threads
    /\ Cardinality({b \in Threads : backfill[b].pc \in {"start", "read", "written", "publish"}}) <= 1
    /\ marker \subseteq Deletable /\ torn \subseteq marker
    /\ derived \in [Recs -> SUBSET DerivedStores]

\* search: an answer lists exactly the text the library holds when it is
\* given, whatever was committed, deleted or rebuilt while it was computed.
SearchIsFresh == query.pc = "answered" => query.rows = query.truth

\* delete_finished: once a recording has left the library, no index file on
\* disk, published or half built, holds its text.
DeletedTextUnsearchable ==
    \A f \in {index, next} : f # NoFile => DOMAIN f \subseteq Active

\* finalize_deletion_result: the intent of a removed recording is dropped
\* only when every derived store was cleaned, so a failed clean-up is always
\* found again.
NothingLeftBehind ==
    \A r \in Recs : place[r] = "gone" /\ r \notin marker => derived[r] = {}

\* write_deletion_intent comes before the move: data that left the library
\* is never without an intent until it is removed.
TombstoneHasIntent == \A r \in Recs : place[r] = "tombstone" => r \in marker

\* A confirmed deletion is carried to its end by recovery, whatever failed
\* or was interrupted, unless recovery finds the search lock taken again and
\* again: each recovery schedules a rebuild, and nothing in the code bounds
\* how often the bounded wait for it runs out.
DeletionCompletes ==
    \/ \A r \in Deletable : (r \in marker) ~> (place[r] = "gone" /\ r \notin marker)
    \/ []<>SearchBusy

\* The same unless the removal of the tombstone stopped half way with the
\* manifest gone (that case refutes DeletionCompletes).
WholeDeletionCompletes ==
    \/ \A r \in Deletable : (r \in marker) ~> (place[r] = "gone" /\ r \notin marker) \/ r \in torn
    \/ []<>SearchBusy

\* finish_trust_search_backfill: no change is lost between a rebuild that
\* winds down and a mark that finds it still running.  When every thread
\* rests, the index has the last change, or a failure is on record.  (The
\* first generation of a process is indexed when a search asks for it.)
NoLostChange ==
    /\ up /\ sourceGen > 1 /\ editor = "idle" /\ req.pc = "idle"
    /\ \A b \in Threads : backfill[b].pc = "idle"
    => sourceGen = indexGen \/ failure

\* A search shows the text of the library as it is: never a version that was
\* replaced, and nothing of a recording whose deletion was confirmed.
SearchSound == DelTypeOK /\ SearchIsFresh /\ DeletedTextUnsearchable

\* A deletion that ended left no data in a derived store, and one that did not
\* end has its intent on disk.
DeletionLeavesNothing == NothingLeftBehind /\ TombstoneHasIntent
=============================================================================
