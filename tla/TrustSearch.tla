---------------------------- MODULE TrustSearch ----------------------------
(***************************************************************************)
(* The encrypted search index of recording_store.rs.  Every committed      *)
(* change of searchable text advances a source generation and asks for a   *)
(* backfill; one background thread at a time rebuilds the index beside the *)
(* live one and publishes it under the generation it started from.  A      *)
(* query is answered only when both generations agree before and after it. *)
(* Text is a version number per recording; an index is the version of each *)
(* recording that it holds.                                                *)
(***************************************************************************)
EXTENDS Naturals, FiniteSets

CONSTANTS
    Recs,       \* recordings of the library
    NoFile,     \* an index file that does not exist
    MaxEdits,   \* bound on changes of text
    MaxQueries, \* bound on search requests that start
    MaxFaults   \* bound on failing calls and kills of the process

ASSUME SearchConstants == {MaxEdits, MaxQueries, MaxFaults} \subseteq Nat

VARIABLES
    place,      \* where the data of a recording is: "active", "tombstone", "gone"
    text,       \* the version of its searchable text
    index,      \* the published index file
    next,       \* the index file being built beside it
    sourceGen,  \* trust_search_source_generation
    indexGen,   \* trust_search_index_generation
    failure,    \* trust_search_backfill_failure is set
    running,    \* trust_search_backfill_running
    mutation,   \* who holds manifest_mutation_lock
    search,     \* who holds trust_search_lock
    backfill,   \* the backfill threads that exist
    editor,     \* the job thread that commits a change of text
    query,      \* the search request
    edits, queries, faults

fileVars == <<place, text, index, next>>
genVars == <<sourceGen, indexGen, failure, running>>
searchVars == <<fileVars, genVars, mutation, search, backfill, editor, query,
                edits, queries, faults>>

Free == "free"
Threads == {"backfill1", "backfill2"}
NoThread == [pc |-> "idle"]
NoQuery == [pc |-> "idle"]

Active == {r \in Recs : place[r] = "active"}

\* What a search of the whole library should find now.
LibraryText == [r \in Active |-> text[r]]

Fault == faults < MaxFaults /\ faults' = faults + 1
NoFault == faults' = faults

---------------------------------------------------------------------------
(* schedule_trust_search_backfill: nothing while a failure is recorded;    *)
(* the flag lets one thread in.  The operator gives the next value of      *)
(* running and backfill; self is a thread that ends by scheduling another. *)

Unused(self) == {b \in Threads : backfill[b].pc = "idle"} \cup ({self} \cap Threads)

Started == [pc |-> "start"]

Rest(self) == [b \in Threads |-> IF b = self THEN NoThread ELSE backfill[b]]

\* Mutant of Schedule: the flag is set without being tested.
ScheduleAnyway(self, failed) ==
    /\ ~failed /\ NoFault
    /\ running' = TRUE /\ failure' = failed
    /\ \E b \in Unused(self) : backfill' = [Rest(self) EXCEPT ![b] = Started]

\* failed: the failure recorded when the call is made.
Schedule(self, failed) ==
    \/ /\ failed \/ running
       /\ running' = running /\ failure' = failed /\ NoFault
       /\ backfill' = Rest(self)
    \/ /\ ~failed /\ ~running /\ NoFault
       /\ running' = TRUE /\ failure' = failed
       /\ \E b \in Unused(self) : backfill' = [Rest(self) EXCEPT ![b] = Started]
    \/ /\ ~failed /\ ~running /\ Fault            \* the thread could not be spawned
       /\ running' = FALSE /\ failure' = TRUE
       /\ backfill' = Rest(self)

---------------------------------------------------------------------------
(* A committed change: the manifest is replaced, the generation marked and *)
(* the recorded failure cleared, the backfill scheduled; all of it under   *)
(* the mutation lock.                                                      *)

EditCommit(r) ==
    /\ editor = "idle" /\ mutation = Free /\ edits < MaxEdits
    /\ place[r] = "active"
    /\ mutation' = "editor" /\ editor' = "committed"
    /\ text' = [text EXCEPT ![r] = @ + 1]
    /\ edits' = edits + 1
    /\ UNCHANGED <<place, index, next, genVars, search, backfill, query, queries, faults>>

\* Mutant of EditMark: the generation is not advanced.
EditUnmarked ==
    /\ editor = "committed"
    /\ editor' = "marked" /\ failure' = FALSE
    /\ UNCHANGED <<fileVars, sourceGen, indexGen, running, mutation, search, backfill,
                   query, edits, queries, faults>>

\* mark_trust_search_source_change
EditMark ==
    /\ editor = "committed"
    /\ editor' = "marked"
    /\ sourceGen' = sourceGen + 1 /\ failure' = FALSE
    /\ UNCHANGED <<fileVars, indexGen, running, mutation, search, backfill,
                   query, edits, queries, faults>>

EditSchedule ==
    /\ editor = "marked"
    /\ Schedule(Free, failure)
    /\ editor' = "idle" /\ mutation' = Free
    /\ UNCHANGED <<fileVars, sourceGen, indexGen, search, query, edits, queries>>

---------------------------------------------------------------------------
(* The backfill thread: rebuild_trust_search_index_once, then              *)
(* finish_trust_search_backfill.                                           *)

Step(b, t) == backfill' = [backfill EXCEPT ![b] = t]

RebuildStart(b) ==
    /\ backfill[b].pc = "start" /\ search = Free
    /\ search' = b
    /\ Step(b, [pc |-> "read", gen |-> sourceGen, rows |-> [r \in {} |-> 0], todo |-> Recs])
    /\ UNCHANGED <<fileVars, genVars, mutation, editor, query, edits, queries, faults>>

\* searchable_text_rows: one recording after another, without the mutation
\* lock; a recording that left the library has no rows.
RebuildRead(b, r) ==
    LET t == backfill[b] IN
    /\ t.pc = "read" /\ r \in t.todo
    /\ Step(b, [t EXCEPT
           !.todo = @ \ {r},
           !.rows = IF place[r] = "active" THEN [q \in {r} \cup DOMAIN @ |->
                        IF q = r THEN text[r] ELSE @[q]] ELSE @])
    /\ UNCHANGED <<fileVars, genVars, mutation, search, editor, query, edits, queries, faults>>

\* The rows go to index.next, replacing what an interrupted build left.
RebuildWrite(b) ==
    LET t == backfill[b] IN
    /\ t.pc = "read" /\ t.todo = {}
    /\ next' = t.rows
    /\ Step(b, [pc |-> "written", gen |-> t.gen])
    /\ UNCHANGED <<place, text, index, genVars, mutation, search, editor, query,
                   edits, queries, faults>>

\* The generation moved while the rows were read: this build is dropped.
RebuildSuperseded(b) ==
    LET t == backfill[b] IN
    /\ t.pc = "written" /\ sourceGen # t.gen
    /\ next' \in {NoFile, next}
    /\ search' = Free
    /\ Step(b, [pc |-> "finish", retry |-> TRUE])
    /\ UNCHANGED <<place, text, index, genVars, mutation, editor, query, edits, queries, faults>>

\* Mutant of RebuildRemoveOld: the generation is not looked at again.
RebuildRemoveOldUnchecked(b) ==
    LET t == backfill[b] IN
    /\ t.pc = "written"
    /\ index' = NoFile
    /\ Step(b, [pc |-> "publish", gen |-> sourceGen])
    /\ UNCHANGED <<place, text, next, genVars, mutation, search, editor, query,
                   edits, queries, faults>>

RebuildRemoveOld(b) ==
    LET t == backfill[b] IN
    /\ t.pc = "written" /\ sourceGen = t.gen
    /\ index' = NoFile
    /\ Step(b, [pc |-> "publish", gen |-> t.gen])
    /\ UNCHANGED <<place, text, next, genVars, mutation, search, editor, query,
                   edits, queries, faults>>

RebuildPublish(b) ==
    LET t == backfill[b] IN
    /\ t.pc = "publish"
    /\ index' = next /\ next' = NoFile
    /\ indexGen' = t.gen
    /\ search' = Free
    /\ Step(b, [pc |-> "succeeded"])
    /\ UNCHANGED <<place, text, sourceGen, failure, running, mutation, editor, query,
                   edits, queries, faults>>

\* Any call of the rebuild fails; what it wrote so far stays.
RebuildFails(b) ==
    /\ backfill[b].pc \in {"read", "written", "publish"} /\ Fault
    /\ search' = Free
    /\ Step(b, [pc |-> "failed"])
    /\ UNCHANGED <<fileVars, genVars, mutation, editor, query, edits, queries>>

\* The outcome is recorded only after the search lock was released.
RecordOutcome(b) ==
    /\ backfill[b].pc \in {"succeeded", "failed"}
    /\ failure' = (backfill[b].pc = "failed")
    /\ Step(b, [pc |-> "finish", retry |-> FALSE])
    /\ UNCHANGED <<fileVars, sourceGen, indexGen, running, mutation, search, editor, query,
                   edits, queries, faults>>

\* Mutant of FinishRelease: the generations are compared before the flag
\* is lowered.
FinishComparesFirst(b) ==
    LET t == backfill[b] IN
    /\ \/ /\ t.pc = "finish"
          /\ Step(b, [pc |-> "lower", retry |-> t.retry \/ sourceGen # indexGen])
          /\ running' = running
       \/ /\ t.pc = "lower"
          /\ running' = FALSE
          /\ Step(b, IF t.retry THEN [pc |-> "again"] ELSE NoThread)
    /\ UNCHANGED <<fileVars, sourceGen, indexGen, failure, mutation, search, editor, query,
                   edits, queries, faults>>

\* The flag is lowered first, so that a change marked later schedules its
\* own backfill ...
FinishRelease(b) ==
    LET t == backfill[b] IN
    /\ t.pc = "finish"
    /\ running' = FALSE
    /\ Step(b, [pc |-> "compare", retry |-> t.retry])
    /\ UNCHANGED <<fileVars, sourceGen, indexGen, failure, mutation, search, editor, query,
                   edits, queries, faults>>

\* ... and a change marked earlier is seen here.
FinishCompare(b) ==
    LET t == backfill[b] IN
    /\ t.pc = "compare"
    /\ Step(b, IF t.retry \/ sourceGen # indexGen THEN [pc |-> "again"] ELSE NoThread)
    /\ UNCHANGED <<fileVars, genVars, mutation, search, editor, query, edits, queries, faults>>

FinishSchedule(b) ==
    /\ backfill[b].pc = "again"
    /\ Schedule(b, failure)
    /\ UNCHANGED <<fileVars, sourceGen, indexGen, mutation, search, editor, query,
                   edits, queries>>

---------------------------------------------------------------------------
(* A search request.  It never waits: a lock that is taken, a recorded     *)
(* failure or generations that differ refuse it.                           *)

QueryStart ==
    /\ query.pc \in {"idle", "answered"} /\ queries < MaxQueries
    /\ queries' = queries + 1
    /\ query' = [pc |-> "check"]
    /\ UNCHANGED <<fileVars, genVars, mutation, search, backfill, editor, edits, faults>>

Refuse == query' = NoQuery

QueryRefused ==
    /\ \/ query.pc = "check" /\ (mutation # Free \/ failure)
       \/ query.pc = "found" /\ mutation # Free
    /\ Refuse
    /\ UNCHANGED <<fileVars, genVars, mutation, search, backfill, editor, edits, queries, faults>>

\* Generations that differ, or an index that is being built or missing, ask
\* for a backfill and refuse the request.
QueryStale ==
    /\ \/ query.pc = "check" /\ mutation = Free /\ ~failure /\ sourceGen # indexGen
       \/ query.pc = "read" /\ (search # Free \/ sourceGen # indexGen \/ index = NoFile)
       \/ query.pc = "found" /\ mutation = Free
              /\ (sourceGen # query.gen \/ indexGen # query.gen)
    /\ Schedule(Free, failure)
    /\ Refuse
    /\ UNCHANGED <<fileVars, sourceGen, indexGen, mutation, search, editor, edits, queries>>

QueryAccepted ==
    /\ query.pc = "check" /\ mutation = Free /\ ~failure /\ sourceGen = indexGen
    /\ query' = [pc |-> "read", gen |-> sourceGen]
    /\ UNCHANGED <<fileVars, genVars, mutation, search, backfill, editor, edits, queries, faults>>

\* search_sqlcipher_fts, under the search lock it could take.
QueryRead ==
    /\ query.pc = "read" /\ search = Free /\ sourceGen = indexGen /\ index # NoFile
    /\ query' = [pc |-> "found", gen |-> query.gen, rows |-> index]
    /\ UNCHANGED <<fileVars, genVars, mutation, search, backfill, editor, edits, queries, faults>>

QueryAnswer ==
    /\ query.pc = "found" /\ mutation = Free
    /\ sourceGen = query.gen /\ indexGen = query.gen
    /\ query' = [pc |-> "answered", rows |-> query.rows, truth |-> LibraryText]
    /\ UNCHANGED <<fileVars, genVars, mutation, search, backfill, editor, edits, queries, faults>>

---------------------------------------------------------------------------
SearchInit ==
    /\ place = [r \in Recs |-> "active"] /\ text = [r \in Recs |-> 0]
    /\ index = NoFile /\ next = NoFile
    /\ sourceGen = 1 /\ indexGen = 0 /\ failure = FALSE /\ running = FALSE
    /\ mutation = Free /\ search = Free
    /\ backfill = [b \in Threads |-> NoThread]
    /\ editor = "idle" /\ query = NoQuery
    /\ edits = 0 /\ queries = 0 /\ faults = 0

BackfillStep(b) ==
    \/ RebuildStart(b) \/ (\E r \in Recs : RebuildRead(b, r)) \/ RebuildWrite(b)
    \/ RebuildSuperseded(b) \/ RebuildRemoveOld(b) \/ RebuildPublish(b) \/ RebuildFails(b)
    \/ RecordOutcome(b) \/ FinishRelease(b) \/ FinishCompare(b) \/ FinishSchedule(b)

QueryStep ==
    QueryRefused \/ QueryStale \/ QueryAccepted \/ QueryRead \/ QueryAnswer

\* The threads beside the one that serves requests.
BackgroundStep ==
    \/ \E r \in Recs : EditCommit(r)
    \/ EditMark \/ EditSchedule
    \/ \E b \in Threads : BackfillStep(b)
=============================================================================
