------------------------ MODULE RecordingStoreProofs ------------------------
(***************************************************************************)
(* Proofs about the recording store, for every earlier manifest, every     *)
(* number of operations, attempts, kills and failing calls, and also when  *)
(* the unguarded writer overlaps the guarded one: what was never committed *)
(* is never shown, the bytes of a stored chunk stay, and the receipts      *)
(* account for the revisions.  And for writers that keep to the guard:     *)
(* what was reported as stored is what every read finds, after one fault   *)
(* at any point, and the life cycle is one-way.                            *)
(***************************************************************************)
EXTENDS RecordingStore, FiniteSetTheorems, SequenceTheorems, TLAPS

-----------------------------------------------------------------------------
(* Types *)

ChunkFiles == [index : Nat, tag : Tags, whole : BOOLEAN]
Pcs == {"chunk", "flush", "create", "sync", "unbackup", "aside", "promote", "clean"}
Names == {"start", "chunk", "state", "event", "select", "commit", "cleanup", "failure", "recap",
          "recover"}
Operations ==
    [pc : Pcs, op : Names, doc : Manifests, adds : Seq(ChunkFiles), had : BOOLEAN]

StoreType ==
    /\ slots \in [Slots -> Manifests \cup {Absent, Torn}]
    /\ files \subseteq ChunkFiles /\ IsFiniteSet(files)
    /\ writer \in [Writers -> {Idle} \cup Operations]
    /\ seen \in Manifests \cup {Absent}
    /\ shown \subseteq Attempts
    /\ dropped \in BOOLEAN

-----------------------------------------------------------------------------
(* What is true of every manifest, on disk or about to be written *)

\* The text of a revision is of attempts that committed, or dictated.
Committed(m, sh) ==
    \A v \in DOMAIN m.revs : \A i \in m.revs[v].idx :
        i \in Indices(m) /\ Chunk(m, i).tag \in sh \cup {"plain"}

\* Its chunks are on disk, whole, except raw transcripts.
WholeOn(m, disk) ==
    \A i \in Indices(m) : Chunk(m, i).kind # "raw" => ChunkFile(i, Chunk(m, i).tag, TRUE) \in disk

Fine(m, disk, sh, gone) == Committed(m, sh) /\ (~gone => WholeOn(m, disk))

SlotsInv == \A s \in Slots : slots[s] \notin {Absent, Torn} => Fine(slots[s], files, shown, dropped)

\* The file an operation is about to write.
Adding(w) == IF w.pc \in {"chunk", "flush"} THEN {w.adds[1]} ELSE {}

\* An operation creates one whole file or none; a commit only creates a raw one.
OperationOK(w, disk, sh, gone) ==
    /\ Fine(w.doc, disk \cup Adding(w), sh, gone)
    /\ w.pc \in {"chunk", "flush"} => w.adds # <<>>
    /\ w.adds # <<>> => Len(w.adds) = 1 /\ w.adds[1].whole = TRUE
    /\ w.op = "commit" => \A n \in DOMAIN w.adds : w.adds[n].tag = "raw"

WritersInv == \A t \in Writers : writer[t] # Idle => OperationOK(writer[t], files, shown, dropped)

\* What an operation reported as stored has its bytes.
SeenInv == seen # Absent => ~dropped /\ WholeOn(seen, files)

StoreInv == StoreType /\ SlotsInv /\ WritersInv /\ SeenInv

-----------------------------------------------------------------------------
(* What keeps a manifest fine *)

\* No whole file is lost but raw transcripts.
Keeps(disk, new) == \A f \in disk : f.whole = TRUE /\ f.tag # "raw" => f \in new

LEMMA ChunkOf ==
    ASSUME NEW m \in Manifests, NEW i \in Indices(m)
    PROVE  Chunk(m, i) \in Chunks /\ i \in Nat /\ i + 1 \in 1..Len(m.chunks)
<1>1. m.chunks \in Seq(Chunks)
  BY DEF Manifests
<1>2. i \in Nat /\ i + 1 \in 1..Len(m.chunks)
  BY <1>1 DEF Indices
<1>3. QED
  BY <1>1, <1>2 DEF Chunk

LEMMA WholeKept ==
    ASSUME NEW m \in Manifests, NEW disk, NEW new, WholeOn(m, disk), Keeps(disk, new)
    PROVE  WholeOn(m, new)
<1>1. SUFFICES ASSUME NEW i \in Indices(m), Chunk(m, i).kind # "raw"
               PROVE  ChunkFile(i, Chunk(m, i).tag, TRUE) \in new
  BY DEF WholeOn
<1>2. Chunk(m, i).tag # "raw"
  BY <1>1, ChunkOf DEF Chunks
<1>3. PICK f : f = ChunkFile(i, Chunk(m, i).tag, TRUE)
  OBVIOUS
<1>4. f.whole = TRUE /\ f.tag # "raw"
  BY <1>2, <1>3 DEF ChunkFile
<1>5. f \in disk
  BY <1>1, <1>3 DEF WholeOn
<1>6. QED
  BY <1>3, <1>4, <1>5 DEF Keeps

LEMMA FineKept ==
    ASSUME NEW m \in Manifests, NEW disk, NEW new, NEW sh, NEW sh2, NEW gone, NEW gone2,
           Fine(m, disk, sh, gone), Keeps(disk, new), sh \subseteq sh2, ~gone2 => ~gone
    PROVE  Fine(m, new, sh2, gone2)
BY WholeKept DEF Fine, Committed

LEMMA OperationKept ==
    ASSUME NEW w \in Operations, NEW disk, NEW new, NEW sh, NEW sh2, NEW gone, NEW gone2,
           OperationOK(w, disk, sh, gone), Keeps(disk, new), sh \subseteq sh2, ~gone2 => ~gone
    PROVE  OperationOK(w, new, sh2, gone2)
<1>1. w.doc \in Manifests
  BY DEF Operations
<1>2. Keeps(disk \cup Adding(w), new \cup Adding(w))
  BY DEF Keeps
<1>3. Fine(w.doc, new \cup Adding(w), sh2, gone2)
  BY <1>1, <1>2, FineKept DEF OperationOK
<1>4. QED
  BY <1>3 DEF OperationOK

\* Every step but an abort.
LEMMA StepFits ==
    ASSUME StoreInv,
           slots' \in [Slots -> Manifests \cup {Absent, Torn}],
           \A s \in Slots : slots'[s] \notin {Absent, Torn} => Fine(slots'[s], files, shown, dropped),
           files' \subseteq ChunkFiles, IsFiniteSet(files'), Keeps(files, files'),
           writer' \in [Writers -> {Idle} \cup Operations],
           \A t \in Writers : \/ writer'[t] \in {Idle, writer[t]}
                              \/ OperationOK(writer'[t], files', shown', dropped),
           shown \subseteq shown', shown' \subseteq Attempts, dropped' = dropped,
           seen' \in Manifests \cup {Absent},
           seen' # seen /\ seen' # Absent => ~dropped /\ WholeOn(seen', files)
    PROVE  StoreInv'
<1>1. StoreType'
  BY DEF StoreInv, StoreType
<1>2. SlotsInv'
  <2>1. SUFFICES ASSUME NEW s \in Slots, slots'[s] \notin {Absent, Torn}
                 PROVE  Fine(slots'[s], files', shown', dropped')
    BY DEF SlotsInv
  <2>2. slots'[s] \in Manifests
    BY <2>1
  <2>3. QED
    BY <2>1, <2>2, FineKept
<1>3. WritersInv'
  <2>1. SUFFICES ASSUME NEW t \in Writers, writer'[t] # Idle
                 PROVE  OperationOK(writer'[t], files', shown', dropped')
    BY DEF WritersInv
  <2>2. CASE writer'[t] = writer[t]
    <3>1. writer[t] \in Operations /\ OperationOK(writer[t], files, shown, dropped)
      BY <2>1, <2>2 DEF StoreInv, StoreType, WritersInv
    <3>2. QED
      BY <2>2, <3>1, OperationKept
  <2>3. QED
    BY <2>1, <2>2
<1>4. SeenInv'
  <2>1. SUFFICES ASSUME seen' # Absent PROVE ~dropped /\ WholeOn(seen', files')
    BY DEF SeenInv
  <2>2. ~dropped /\ WholeOn(seen', files)
    BY <2>1 DEF StoreInv, SeenInv
  <2>3. QED
    BY <2>1, <2>2, WholeKept
<1>5. QED
  BY <1>1, <1>2, <1>3, <1>4 DEF StoreInv

-----------------------------------------------------------------------------
(* What an operation reads *)

LEMMA FoundFits ==
    ASSUME StoreInv, NEW m \in Found
    PROVE  /\ m \in Manifests /\ m # Absent
           /\ ValidOn(m, files)
           /\ Fine(m, files, shown, dropped)
<1>1. PICK s \in Slots : m = slots[s] /\ slots[s] \notin {Absent, Torn} /\ ValidOn(slots[s], files)
  BY DEF Found, Usable
<1>2. slots[s] \in Manifests
  BY <1>1 DEF StoreInv, StoreType
<1>3. QED
  BY <1>1, <1>2 DEF StoreInv, SlotsInv

LEMMA ReadableFits ==
    ASSUME StoreInv, NEW m, m = Readable, m # Absent
    PROVE  /\ m \in Manifests
           /\ ValidOn(m, files)
           /\ Fine(m, files, shown, dropped)
           /\ m \in Found
<1>1. m \in Found
  BY DEF Readable, Found, Usable, Slots
<1>2. QED
  BY <1>1, FoundFits

-----------------------------------------------------------------------------
(* The steps of a write *)

\* The manifest names hold what they held, what was staged, or nothing.
LEMMA SlotSteps ==
    ASSUME StoreType, NEW doc \in Manifests, NEW had,
           NEW new \in {slots, CreateTmp(slots), SyncTmp(slots, doc), RemoveBak(slots),
                        MoveAside(slots), Promote(slots), RestoreBak(slots, had)}
    PROVE  /\ new \in [Slots -> Manifests \cup {Absent, Torn}]
           /\ \A s \in Slots : new[s] \in {Absent, Torn, slots["main"], slots["bak"], slots["tmp"]}
                               \/ (new[s] = doc /\ new = SyncTmp(slots, doc))
<1> DEFINE Values == Manifests \cup {Absent, Torn}
<1>1. slots \in [Slots -> Values] /\ {"main", "bak", "tmp"} = Slots
  BY DEF StoreType, Slots
<1>2. slots["main"] \in Values /\ slots["bak"] \in Values /\ slots["tmp"] \in Values
      /\ Absent \in Values /\ Torn \in Values /\ doc \in Values
  BY <1>1
<1> HIDE DEF Values
<1>3. CASE new = slots
  BY <1>1, <1>3 DEF Values
<1>4. CASE new = CreateTmp(slots)
  BY <1>1, <1>2, <1>4 DEF CreateTmp, Values
<1>5. CASE new = SyncTmp(slots, doc)
  BY <1>1, <1>2, <1>5 DEF SyncTmp, Values
<1>6. CASE new = RemoveBak(slots)
  BY <1>1, <1>2, <1>6 DEF RemoveBak, Values
<1>7. CASE new = MoveAside(slots)
  BY <1>1, <1>2, <1>7 DEF MoveAside, Values
<1>8. CASE new = Promote(slots)
  BY <1>1, <1>2, <1>8 DEF Promote, Values
<1>9. CASE new = RestoreBak(slots, had)
  BY <1>1, <1>2, <1>9 DEF RestoreBak, Values
<1>10. QED
  BY <1>3, <1>4, <1>5, <1>6, <1>7, <1>8, <1>9

\* The writer at work and its operation.
LEMMA WriterAt ==
    ASSUME StoreInv, NEW t \in Writers, writer[t].pc # "idle"
    PROVE  /\ writer[t] \in Operations
           /\ OperationOK(writer[t], files, shown, dropped)
<1>1. writer[t] # Idle
  BY DEF Idle
<1>2. QED
  BY <1>1 DEF StoreInv, StoreType, WritersInv

LEMMA SlotsFine ==
    ASSUME StoreInv, NEW t \in Writers, writer[t].pc \in Pcs \ {"chunk", "flush"}, NEW had,
           NEW new \in {slots, CreateTmp(slots), SyncTmp(slots, writer[t].doc), RemoveBak(slots),
                        MoveAside(slots), Promote(slots), RestoreBak(slots, had)}
    PROVE  /\ new \in [Slots -> Manifests \cup {Absent, Torn}]
           /\ \A s \in Slots : new[s] \notin {Absent, Torn} => Fine(new[s], files, shown, dropped)
<1>1. writer[t] \in Operations /\ OperationOK(writer[t], files, shown, dropped)
  BY WriterAt DEF Pcs
<1>2. writer[t].doc \in Manifests /\ Fine(writer[t].doc, files, shown, dropped)
  <2>1. files \cup Adding(writer[t]) = files
    BY DEF Adding
  <2>2. QED
    BY <1>1, <2>1 DEF OperationOK, Operations
<1>3. StoreType /\ SlotsInv
  BY DEF StoreInv
<1>4. PICK doc : doc = writer[t].doc
  OBVIOUS
<1>5. /\ new \in [Slots -> Manifests \cup {Absent, Torn}]
      /\ \A s \in Slots : new[s] \in {Absent, Torn, slots["main"], slots["bak"], slots["tmp"]}
                          \/ new[s] = doc
  BY <1>2, <1>3, <1>4, SlotSteps
<1>6. \A s \in {"main", "bak", "tmp"} :
          slots[s] \notin {Absent, Torn} => Fine(slots[s], files, shown, dropped)
  BY <1>3 DEF SlotsInv, Slots
<1>7. QED
  BY <1>2, <1>4, <1>5, <1>6

\* A step of one writer.
LEMMA MoveFits ==
    ASSUME StoreInv, NEW t \in Writers, NEW w \in {Idle} \cup Operations,
           w = Idle \/ OperationOK(w, files', shown, dropped),
           writer' = [writer EXCEPT ![t] = w],
           slots' \in [Slots -> Manifests \cup {Absent, Torn}],
           \A s \in Slots : slots'[s] \notin {Absent, Torn} => Fine(slots'[s], files, shown, dropped),
           files' \subseteq ChunkFiles, IsFiniteSet(files'), Keeps(files, files'),
           UNCHANGED <<shown, dropped>>,
           seen' \in Manifests \cup {Absent},
           seen' # seen /\ seen' # Absent => ~dropped /\ WholeOn(seen', files)
    PROVE  StoreInv'
<1>1. writer \in [Writers -> {Idle} \cup Operations] /\ shown \subseteq Attempts
  BY DEF StoreInv, StoreType
<1>2. writer' \in [Writers -> {Idle} \cup Operations]
  BY <1>1
<1>3. \A u \in Writers : \/ writer'[u] \in {Idle, writer[u]}
                         \/ OperationOK(writer'[u], files', shown', dropped)
  BY <1>1
<1>4. QED
  BY <1>1, <1>2, <1>3, StepFits

\* Past its chunk file an operation only moves on.
LEMMA OperationMoves ==
    ASSUME NEW w \in Operations, NEW disk, NEW sh, NEW gone, OperationOK(w, disk, sh, gone),
           w.pc \notin {"chunk", "flush"},
           NEW p \in Pcs \ {"chunk", "flush"}, NEW had \in BOOLEAN,
           NEW x, x = [w EXCEPT !.pc = p] \/ x = [w EXCEPT !.pc = p, !.had = had]
    PROVE  x \in Operations /\ OperationOK(x, disk, sh, gone)
<1>1. x.pc = p /\ x.op = w.op /\ x.doc = w.doc /\ x.adds = w.adds /\ x \in Operations
  BY DEF Operations
<1>2. Adding(x) = Adding(w)
  BY <1>1 DEF Adding
<1>3. QED
  BY <1>1, <1>2 DEF OperationOK

LEMMA FilesNow ==
    ASSUME StoreInv
    PROVE  files \subseteq ChunkFiles /\ IsFiniteSet(files) /\ Keeps(files, files)
           /\ seen \in Manifests \cup {Absent} /\ slots \in [Slots -> Manifests \cup {Absent, Torn}]
           /\ writer \in [Writers -> {Idle} \cup Operations]
BY DEF StoreInv, StoreType, Keeps

\* The writers' steps on the manifest names.
LEMMA GotoFits ==
    ASSUME StoreInv, NEW t \in Writers, writer[t].pc \in Pcs \ {"chunk", "flush"}, NEW had0,
           NEW p \in Pcs \ {"chunk", "flush"}, NEW had \in BOOLEAN,
           slots' \in {slots, CreateTmp(slots), SyncTmp(slots, writer[t].doc), RemoveBak(slots),
                       MoveAside(slots), Promote(slots), RestoreBak(slots, had0)},
           \/ writer' = [writer EXCEPT ![t].pc = p]
           \/ writer' = [writer EXCEPT ![t].pc = p, ![t].had = had],
           UNCHANGED <<files, seen, shown, dropped>>
    PROVE  StoreInv'
<1>1. writer[t] \in Operations /\ OperationOK(writer[t], files, shown, dropped)
  BY WriterAt DEF Pcs
<1>2. PICK w : /\ w = [writer[t] EXCEPT !.pc = p] \/ w = [writer[t] EXCEPT !.pc = p, !.had = had]
               /\ writer' = [writer EXCEPT ![t] = w]
  BY FilesNow
<1>3. w \in Operations /\ OperationOK(w, files, shown, dropped)
  <2>1. PICK v : v = writer[t]
    OBVIOUS
  <2>2. v \in Operations /\ v.pc \notin {"chunk", "flush"} /\ OperationOK(v, files, shown, dropped)
    BY <1>1, <2>1
  <2>3. w = [v EXCEPT !.pc = p] \/ w = [v EXCEPT !.pc = p, !.had = had]
    BY <1>2, <2>1
  <2>4. QED
    BY <2>2, <2>3, OperationMoves
<1>4. PICK new : new = slots'
  OBVIOUS
<1>5. /\ new \in [Slots -> Manifests \cup {Absent, Torn}]
      /\ \A s \in Slots : new[s] \notin {Absent, Torn} => Fine(new[s], files, shown, dropped)
  BY <1>4, SlotsFine
<1>6. OperationOK(w, files', shown, dropped)
  BY <1>3
<1>7. QED
  BY <1>2, <1>3, <1>4, <1>5, <1>6, FilesNow, MoveFits

\* A call fails: only raw transcripts of the commit go.
LEMMA GiveUpFits ==
    ASSUME StoreInv, NEW t \in Writers, writer[t].pc \in Pcs \ {"chunk", "flush"},
           slots' \in {slots, RestoreBak(slots, writer[t].had)}, GiveUp(t)
    PROVE  StoreInv'
<1>1. writer[t] \in Operations /\ OperationOK(writer[t], files, shown, dropped)
  BY WriterAt DEF Pcs
<1>2. writer' = [writer EXCEPT ![t] = Idle] /\ UNCHANGED <<seen, shown, dropped>>
  BY DEF GiveUp
<1>3. files' \subseteq files /\ Keeps(files, files')
  <2>1. CASE UNCHANGED files
    BY <2>1 DEF Keeps
  <2>2. CASE /\ writer[t].op = "commit"
             /\ files' = {f \in files : \A n \in DOMAIN writer[t].adds :
                            <<f.index, f.tag>> # <<writer[t].adds[n].index, writer[t].adds[n].tag>>}
    <3>1. \A n \in DOMAIN writer[t].adds : writer[t].adds[n].tag = "raw"
      BY <1>1, <2>2 DEF OperationOK
    <3>2. QED
      BY <2>2, <3>1 DEF Keeps
  <2>3. QED
    BY <2>1, <2>2 DEF GiveUp
<1>4. files' \subseteq ChunkFiles /\ IsFiniteSet(files')
  BY <1>3, FilesNow, FS_Subset
<1>5. PICK new : new = slots'
  OBVIOUS
<1>6. /\ new \in [Slots -> Manifests \cup {Absent, Torn}]
      /\ \A s \in Slots : new[s] \notin {Absent, Torn} => Fine(new[s], files, shown, dropped)
  BY <1>5, SlotsFine
<1>7. QED
  BY <1>2, <1>3, <1>4, <1>5, <1>6, FilesNow, MoveFits

LEMMA CreateChunkFits ==
    ASSUME StoreInv, NEW t \in Writers, CreateChunk(t)
    PROVE  StoreInv'
<1>1. writer[t].pc = "chunk" /\ UNCHANGED <<slots, seen, shown, dropped>>
  BY DEF CreateChunk
<1>2. writer[t] \in Operations /\ OperationOK(writer[t], files, shown, dropped)
  BY <1>1, WriterAt
<1>3. writer[t].adds \in Seq(ChunkFiles) /\ writer[t].adds # <<>> /\ Adding(writer[t]) = {writer[t].adds[1]}
  BY <1>1, <1>2 DEF OperationOK, Operations, Adding
<1>4. PICK f \in ChunkFiles : f = Head(writer[t].adds) /\ f = writer[t].adds[1]
  BY <1>3
<1>5. SlotsInv
  BY DEF StoreInv
<1>6. CASE writer' = [writer EXCEPT ![t] = Idle] /\ UNCHANGED files
  BY <1>1, <1>5, <1>6, FilesNow, MoveFits DEF SlotsInv
<1>7. CASE files' = files \cup {ChunkFile(f.index, f.tag, FALSE)} /\ Goto(t, "flush")
  <2>1. PICK w : w = [writer[t] EXCEPT !.pc = "flush"]
    OBVIOUS
  <2>2. writer' = [writer EXCEPT ![t] = w]
    BY <1>7, <2>1, FilesNow DEF Goto
  <2>3. w.pc = "flush" /\ w.op = writer[t].op /\ w.doc = writer[t].doc /\ w.adds = writer[t].adds
        /\ w \in Operations
    BY <1>2, <2>1 DEF Operations, Pcs
  <2>4. ChunkFile(f.index, f.tag, FALSE) \in ChunkFiles
    BY DEF ChunkFile, ChunkFiles
  <2>5. files' \subseteq ChunkFiles /\ IsFiniteSet(files') /\ Keeps(files, files')
    <3>1. IsFiniteSet({ChunkFile(f.index, f.tag, FALSE)})
      BY FS_Singleton
    <3>2. QED
      BY <1>7, <2>4, <3>1, FilesNow, FS_Union DEF Keeps
  <2>6. Adding(w) = Adding(writer[t])
    BY <1>1, <2>3 DEF Adding
  <2>7. OperationOK(writer[t], files', shown, dropped)
    BY <1>2, <2>5, OperationKept
  <2>8. OperationOK(w, files', shown, dropped)
    BY <1>1, <2>3, <2>6, <2>7 DEF OperationOK
  <2>9. QED
    BY <1>1, <1>5, <2>2, <2>3, <2>5, <2>8, FilesNow, MoveFits DEF SlotsInv
<1>8. QED
  BY <1>4, <1>6, <1>7 DEF CreateChunk

LEMMA FlushChunkFits ==
    ASSUME StoreInv, NEW t \in Writers, FlushChunk(t)
    PROVE  StoreInv'
<1>1. writer[t].pc = "flush" /\ UNCHANGED <<slots, seen, shown, dropped>>
  BY DEF FlushChunk
<1>2. writer[t] \in Operations /\ OperationOK(writer[t], files, shown, dropped)
  BY <1>1, WriterAt
<1>3. writer[t].adds \in Seq(ChunkFiles) /\ writer[t].adds # <<>> /\ Adding(writer[t]) = {writer[t].adds[1]}
      /\ writer[t].adds[1].whole = TRUE
  BY <1>1, <1>2 DEF OperationOK, Operations, Adding
<1>4. PICK f \in ChunkFiles : f = Head(writer[t].adds) /\ f = writer[t].adds[1]
  BY <1>3
<1>5. PICK partial : partial = ChunkFile(f.index, f.tag, FALSE)
  OBVIOUS
<1>6. partial.whole = FALSE
  BY <1>5 DEF ChunkFile
<1>7. SlotsInv
  BY DEF StoreInv
<1>8. CASE files' \in {files, files \ {partial}} /\ writer' = [writer EXCEPT ![t] = Idle]
  <2>1. files' \subseteq files /\ Keeps(files, files')
    BY <1>6, <1>8 DEF Keeps
  <2>2. files' \subseteq ChunkFiles /\ IsFiniteSet(files')
    BY <2>1, FilesNow, FS_Subset
  <2>3. QED
    BY <1>1, <1>7, <1>8, <2>1, <2>2, FilesNow, MoveFits DEF SlotsInv
<1>9. CASE files' = (files \ {partial}) \cup {f} /\ Goto(t, "create")
  <2>1. PICK w : w = [writer[t] EXCEPT !.pc = "create"]
    OBVIOUS
  <2>2. writer' = [writer EXCEPT ![t] = w]
    BY <1>9, <2>1, FilesNow DEF Goto
  <2>3. w.pc = "create" /\ w.op = writer[t].op /\ w.doc = writer[t].doc /\ w.adds = writer[t].adds
        /\ w \in Operations
    BY <1>2, <2>1 DEF Operations, Pcs
  <2>4. Keeps(files, files') /\ Keeps(files \cup {f}, files')
    BY <1>6, <1>9 DEF Keeps
  <2>5. files' \subseteq ChunkFiles /\ IsFiniteSet(files')
    <3>1. IsFiniteSet({f}) /\ IsFiniteSet(files \ {partial})
      BY FS_Singleton, FS_Subset, FilesNow
    <3>2. QED
      BY <1>9, <3>1, FilesNow, FS_Union
  <2>6. Adding(w) = {} /\ files' \cup Adding(w) = files'
    BY <2>3 DEF Adding
  <2>7. Fine(w.doc, files', shown, dropped)
    <3>1. w.doc \in Manifests
      BY <2>3 DEF Operations
    <3>2. Fine(w.doc, files \cup {f}, shown, dropped)
      BY <1>2, <1>3, <1>4, <2>3 DEF OperationOK
    <3>3. QED
      BY <2>4, <3>1, <3>2, FineKept
  <2>8. OperationOK(w, files', shown, dropped)
    BY <1>2, <2>3, <2>6, <2>7 DEF OperationOK
  <2>9. QED
    BY <1>1, <1>7, <2>2, <2>3, <2>4, <2>5, <2>8, FilesNow, MoveFits DEF SlotsInv
<1>10. QED
  BY <1>4, <1>5, <1>8, <1>9 DEF FlushChunk

LEMMA ManifestStepFits ==
    ASSUME StoreInv, NEW t \in Writers,
           \/ CreateManifestTmp(t) \/ SyncManifestTmp(t) \/ RemoveOldBackup(t)
           \/ MoveManifestAside(t) \/ PromoteManifest(t)
    PROVE  StoreInv'
<1>1. CASE CreateManifestTmp(t)
  <2>1. writer[t].pc \in Pcs \ {"chunk", "flush"}
    BY <1>1 DEF CreateManifestTmp, Pcs
  <2>2. CASE slots' = CreateTmp(slots) /\ Goto(t, "sync") /\ UNCHANGED <<files, seen, shown, dropped>>
    <3>1. "sync" \in Pcs \ {"chunk", "flush"}
      BY DEF Pcs
    <3>2. QED
      BY <2>1, <2>2, <3>1, GotoFits DEF Goto
  <2>3. CASE UNCHANGED slots /\ FailCall(t)
    BY <2>1, <2>3, GiveUpFits DEF FailCall
  <2>4. QED
    BY <1>1, <2>2, <2>3 DEF CreateManifestTmp
<1>2. CASE SyncManifestTmp(t)
  <2>1. writer[t].pc \in Pcs \ {"chunk", "flush"}
    BY <1>2 DEF SyncManifestTmp, Pcs
  <2>2. CASE slots' = SyncTmp(slots, writer[t].doc) /\ Goto(t, "unbackup")
             /\ UNCHANGED <<files, seen, shown, dropped>>
    <3>1. "unbackup" \in Pcs \ {"chunk", "flush"}
      BY DEF Pcs
    <3>2. QED
      BY <2>1, <2>2, <3>1, GotoFits DEF Goto
  <2>3. CASE UNCHANGED slots /\ FailCall(t)
    BY <2>1, <2>3, GiveUpFits DEF FailCall
  <2>4. QED
    BY <1>2, <2>2, <2>3 DEF SyncManifestTmp
<1>3. CASE RemoveOldBackup(t)
  <2>1. writer[t].pc \in Pcs \ {"chunk", "flush"}
    BY <1>3 DEF RemoveOldBackup, Pcs
  <2>2. CASE slots' = RemoveBak(slots) /\ Goto(t, "aside") /\ UNCHANGED <<files, seen, shown, dropped>>
    <3>1. "aside" \in Pcs \ {"chunk", "flush"}
      BY DEF Pcs
    <3>2. QED
      BY <2>1, <2>2, <3>1, GotoFits DEF Goto
  <2>3. CASE UNCHANGED slots /\ FailCall(t)
    BY <2>1, <2>3, GiveUpFits DEF FailCall
  <2>4. QED
    BY <1>3, <2>2, <2>3 DEF RemoveOldBackup
<1>4. CASE MoveManifestAside(t)
  <2>1. writer[t].pc \in Pcs \ {"chunk", "flush"}
    BY <1>4 DEF MoveManifestAside, Pcs
  <2>2. CASE /\ slots' = MoveAside(slots)
             /\ writer' = [writer EXCEPT ![t].pc = "promote", ![t].had = slots["main"] # Absent]
             /\ UNCHANGED <<files, seen, shown, dropped>>
    <3>1. "promote" \in Pcs \ {"chunk", "flush"} /\ (slots["main"] # Absent) \in BOOLEAN
      BY DEF Pcs
    <3>2. PICK had \in BOOLEAN : had = (slots["main"] # Absent)
      BY <3>1
    <3>3. writer' = [writer EXCEPT ![t].pc = "promote", ![t].had = had]
      BY <2>2, <3>2
    <3>4. QED
      BY <2>1, <2>2, <3>1, <3>3, GotoFits
  <2>3. CASE UNCHANGED slots /\ FailCall(t)
    BY <2>1, <2>3, GiveUpFits DEF FailCall
  <2>4. QED
    BY <1>4, <2>2, <2>3 DEF MoveManifestAside
<1>5. CASE PromoteManifest(t)
  <2>1. writer[t].pc \in Pcs \ {"chunk", "flush"}
    BY <1>5 DEF PromoteManifest, Pcs
  <2>2. CASE slots' = Promote(slots) /\ Goto(t, "clean") /\ UNCHANGED <<files, seen, shown, dropped>>
    <3>1. "clean" \in Pcs \ {"chunk", "flush"}
      BY DEF Pcs
    <3>2. QED
      BY <2>1, <2>2, <3>1, GotoFits DEF Goto
  <2>3. CASE slots' \in {slots, RestoreBak(slots, writer[t].had)} /\ GiveUp(t)
    BY <2>1, <2>3, GiveUpFits
  <2>4. QED
    BY <1>5, <2>2, <2>3 DEF PromoteManifest, FailCall
<1>6. QED
  BY <1>1, <1>2, <1>3, <1>4, <1>5

LEMMA FinishWriteFits ==
    ASSUME StoreInv, NEW t \in Writers, FinishWrite(t)
    PROVE  StoreInv'
<1>1. /\ writer[t].pc = "clean" /\ UNCHANGED <<files, shown, dropped>>
      /\ slots' \in {slots, RemoveBak(slots)}
      /\ writer' = [writer EXCEPT ![t] = Idle]
      /\ seen' = IF dropped THEN Absent ELSE writer[t].doc
  BY DEF FinishWrite
<1>2. writer[t].pc \in Pcs \ {"chunk", "flush"}
  BY <1>1 DEF Pcs
<1>3. writer[t] \in Operations /\ OperationOK(writer[t], files, shown, dropped)
  BY <1>1, WriterAt
<1>4. writer[t].doc \in Manifests /\ Fine(writer[t].doc, files, shown, dropped)
  <2>1. files \cup Adding(writer[t]) = files
    BY <1>1 DEF Adding
  <2>2. QED
    BY <1>3, <2>1 DEF OperationOK, Operations
<1>5. /\ seen' \in Manifests \cup {Absent}
      /\ seen' # seen /\ seen' # Absent => ~dropped /\ WholeOn(seen', files)
  BY <1>1, <1>4 DEF Fine
<1>6. PICK new : new = slots'
  OBVIOUS
<1>7. /\ new \in [Slots -> Manifests \cup {Absent, Torn}]
      /\ \A s \in Slots : new[s] \notin {Absent, Torn} => Fine(new[s], files, shown, dropped)
  <2>1. new \in {slots, CreateTmp(slots), SyncTmp(slots, writer[t].doc), RemoveBak(slots),
                 MoveAside(slots), Promote(slots), RestoreBak(slots, TRUE)}
    BY <1>1, <1>6
  <2>2. QED
    BY <1>2, <2>1, SlotsFine
<1>8. QED
  BY <1>1, <1>5, <1>6, <1>7, FilesNow, MoveFits

LEMMA WriteStepFits ==
    ASSUME StoreInv, NEW t \in Writers, WriteStep(t)
    PROVE  StoreInv'
BY CreateChunkFits, FlushChunkFits, ManifestStepFits, FinishWriteFits DEF WriteStep

-----------------------------------------------------------------------------
(* The beginning of an operation *)

LEMMA BeginFits ==
    ASSUME StoreInv, NEW t \in Writers, NEW op \in Names, NEW doc \in Manifests,
           NEW adds \in Seq(ChunkFiles), Begin(t, op, doc, adds), Kept,
           shown \subseteq shown', shown' \subseteq Attempts,
           adds = <<>> \/ (Len(adds) = 1 /\ adds[1].whole = TRUE),
           op = "commit" => \A n \in DOMAIN adds : adds[n].tag = "raw",
           Fine(doc, IF adds = <<>> THEN files ELSE files \cup {adds[1]}, shown', dropped)
    PROVE  StoreInv'
<1>1. PICK w : w = [pc |-> IF adds = <<>> THEN "create" ELSE "chunk",
                    op |-> op, doc |-> doc, adds |-> adds, had |-> FALSE]
  OBVIOUS
<1>2. writer' = [writer EXCEPT ![t] = w] /\ UNCHANGED <<slots, files, seen, dropped>>
  BY <1>1 DEF Begin, Kept
<1>3. /\ w.pc = IF adds = <<>> THEN "create" ELSE "chunk"
      /\ w.op = op /\ w.doc = doc /\ w.adds = adds /\ w.had = FALSE /\ w.pc \in Pcs
  BY <1>1 DEF Pcs
<1>4. w \in Operations
  BY <1>1, <1>3 DEF Operations
<1>5. files \cup Adding(w) = IF adds = <<>> THEN files ELSE files \cup {adds[1]}
  BY <1>3 DEF Adding
<1>6. OperationOK(w, files, shown', dropped)
  BY <1>3, <1>5 DEF OperationOK
<1>7. writer \in [Writers -> {Idle} \cup Operations]
  BY FilesNow
<1>8. writer' \in [Writers -> {Idle} \cup Operations]
  BY <1>2, <1>4, <1>7
<1>9. \A u \in Writers : \/ writer'[u] \in {Idle, writer[u]}
                         \/ OperationOK(writer'[u], files', shown', dropped)
  <2>1. SUFFICES ASSUME NEW u \in Writers, writer'[u] # writer[u]
                 PROVE  OperationOK(writer'[u], files', shown', dropped)
    OBVIOUS
  <2>2. writer'[u] = w /\ files' = files
    BY <1>2, <1>7, <2>1
  <2>3. QED
    BY <1>6, <2>2
<1>10. \A s \in Slots : slots'[s] \notin {Absent, Torn} => Fine(slots'[s], files, shown, dropped)
  BY <1>2 DEF StoreInv, SlotsInv
<1>11. QED
  BY <1>2, <1>8, <1>9, <1>10, FilesNow, StepFits

-----------------------------------------------------------------------------
(* The manifests the operations compute *)

\* Nothing but the history and the state changes; a new revision has text of
\* committed attempts.
LEMMA DocFine ==
    ASSUME NEW m \in Manifests, NEW d \in Manifests, NEW disk, NEW sh, NEW gone,
           Fine(m, disk, sh, gone), d.chunks = m.chunks, NEW r,
           \/ d.revs = m.revs
           \/ /\ d.revs = Append(m.revs, r)
              /\ \A i \in r.idx : i \in Indices(m) /\ Chunk(m, i).tag \in sh \cup {"plain"}
    PROVE  Fine(d, disk, sh, gone)
<1>1. Indices(d) = Indices(m) /\ \A i \in Indices(m) : Chunk(d, i) = Chunk(m, i)
  BY DEF Indices, Chunk
<1>2. WholeOn(m, disk) => WholeOn(d, disk)
  BY <1>1 DEF WholeOn
<1>3. Committed(d, sh)
  <2>1. SUFFICES ASSUME NEW v \in DOMAIN d.revs, NEW i \in d.revs[v].idx
                 PROVE  i \in Indices(m) /\ Chunk(m, i).tag \in sh \cup {"plain"}
    BY <1>1 DEF Committed
  <2>2. m.revs \in Seq(Revisions)
    BY DEF Manifests
  <2>3. (v \in DOMAIN m.revs /\ d.revs[v] = m.revs[v]) \/ (d.revs = Append(m.revs, r) /\ d.revs[v] = r)
    BY <2>1, <2>2
  <2>4. QED
    BY <2>1, <2>3 DEF Fine, Committed
<1>4. QED
  BY <1>2, <1>3 DEF Fine

LEMMA DocAdds ==
    ASSUME NEW m \in Manifests, NEW disk, NEW sh, NEW gone, Fine(m, disk, sh, gone),
           NEW kind \in {"text", "audio", "segment", "raw"}, NEW tag \in Tags,
           tag = "raw" <=> kind = "raw"
    PROVE  /\ AddChunk(m, kind, tag) \in Manifests
           /\ NewFile(m, tag) \in Seq(ChunkFiles)
           /\ Len(NewFile(m, tag)) = 1
           /\ NewFile(m, tag)[1].whole = TRUE /\ NewFile(m, tag)[1].tag = tag
           /\ Fine(AddChunk(m, kind, tag), disk \cup {NewFile(m, tag)[1]}, sh, gone)
<1>1. m.chunks \in Seq(Chunks) /\ Len(m.chunks) \in Nat
  BY DEF Manifests
<1>2. PICK c : c = Descriptor(kind, tag, TRUE)
  OBVIOUS
<1>3. c.kind = kind /\ c.tag = tag /\ c \in Chunks
  BY <1>2 DEF Descriptor, Chunks
<1>4. PICK d : d = AddChunk(m, kind, tag)
  OBVIOUS
<1>5. Append(m.chunks, c) \in Seq(Chunks)
  BY <1>1, <1>3
<1>6. d.chunks = Append(m.chunks, c) /\ d.revs = m.revs /\ d \in Manifests
  BY <1>2, <1>4, <1>5 DEF AddChunk, Manifests
<1>7. PICK f : f = ChunkFile(Len(m.chunks), tag, TRUE)
  OBVIOUS
<1>8. f \in ChunkFiles /\ f.whole = TRUE /\ f.tag = tag
  BY <1>1, <1>7 DEF ChunkFile, ChunkFiles
<1>9. NewFile(m, tag) = <<f>>
  BY <1>7 DEF NewFile
<1>10. /\ \A i \in Indices(m) : i \in Indices(d) /\ Chunk(d, i) = Chunk(m, i)
       /\ \A i \in Indices(d) : i \in Indices(m) \/ (i = Len(m.chunks) /\ Chunk(d, i) = c)
  BY <1>1, <1>3, <1>6 DEF Indices, Chunk
<1>11. WholeOn(m, disk) => WholeOn(d, disk \cup {f})
  BY <1>3, <1>7, <1>10 DEF WholeOn
<1>12. Committed(d, sh)
  BY <1>6, <1>10 DEF Committed, Fine
<1>13. Fine(d, disk \cup {f}, sh, gone)
  BY <1>11, <1>12 DEF Fine
<1>14. QED
  BY <1>4, <1>6, <1>8, <1>9, <1>13

LEMMA SegmentsFine ==
    ASSUME NEW m \in Manifests, NEW a
    PROVE  /\ SegmentsOf(m, a) \subseteq Nat
           /\ \A i \in SegmentsOf(m, a) : i \in Indices(m) /\ Chunk(m, i).tag = a
BY ChunkOf DEF SegmentsOf

\* The dictated segments become a revision.
LEMMA LegacyFine ==
    ASSUME NEW m \in Manifests, NEW disk, NEW sh, NEW gone, Fine(m, disk, sh, gone)
    PROVE  /\ PromoteLegacy(m) \in Manifests
           /\ PromoteLegacy(m).chunks = m.chunks
           /\ Fine(PromoteLegacy(m), disk, sh, gone)
<1>1. CASE m.revs # <<>> \/ CurrentIndices(m) = {}
  BY <1>1 DEF PromoteLegacy
<1>2. CASE m.revs = <<>> /\ CurrentIndices(m) # {}
  <2>1. CurrentIndices(m) = SegmentsOf(m, "plain")
    BY <1>2 DEF CurrentIndices
  <2>2. PICK r : r = Revision("legacy", "initial", 0, SegmentsOf(m, "plain"), NoRaw)
    OBVIOUS
  <2>3. r.idx = SegmentsOf(m, "plain") /\ r \in Revisions
    BY <2>2, SegmentsFine DEF Revision, Revisions, NoRaw
  <2>4. PICK d : d = PromoteLegacy(m)
    OBVIOUS
  <2>5. d = [m EXCEPT !.revs = <<r>>, !.current = 1]
    BY <1>2, <2>1, <2>2, <2>4 DEF PromoteLegacy
  <2>6. <<r>> \in Seq(Revisions) /\ <<r>> = Append(m.revs, r)
    BY <1>2, <2>3
  <2>7. d \in Manifests /\ d.chunks = m.chunks /\ d.revs = Append(m.revs, r)
    BY <2>5, <2>6 DEF Manifests
  <2>8. QED
    BY <2>3, <2>4, <2>7, DocFine, SegmentsFine
<1>3. QED
  BY <1>1, <1>2

LEMMA CommitFine ==
    ASSUME NEW m \in Manifests, NEW disk, NEW sh, NEW gone, Fine(m, disk, sh, gone),
           NEW kind \in {"legacy", "raw-asr", "normalized", "ai-cleaned"},
           NEW source \in {"initial", "reprocess", "review", "ai-cleanup"},
           NEW parent \in Nat, NEW op \in Processing, NEW idx \in SUBSET Nat, NEW stored \in BOOLEAN,
           \A i \in idx : i \in Indices(m) /\ Chunk(m, i).tag \in sh \cup {"plain"}
    PROVE  /\ CommitRevision(m, kind, source, parent, op, idx, stored) \in Manifests
           /\ Fine(CommitRevision(m, kind, source, parent, op, idx, stored),
                   IF stored THEN disk \cup {NewFile(m, "raw")[1]} ELSE disk, sh, gone)
<1>1. PICK w : w = WithRaw(m, stored)
  OBVIOUS
<1>2. PICK at : at = IF stored THEN disk \cup {NewFile(m, "raw")[1]} ELSE disk
  OBVIOUS
<1>3. w \in Manifests /\ Fine(w, at, sh, gone)
  <2>1. CASE stored
    <3>1. "raw" \in Tags
      BY DEF Tags
    <3>2. QED
      BY <1>1, <1>2, <2>1, <3>1, DocAdds DEF WithRaw
  <2>2. CASE ~stored
    BY <1>1, <1>2, <2>2 DEF WithRaw
  <2>3. QED
    BY <2>1, <2>2
<1>4. \A i \in Indices(m) : i \in Indices(w) /\ Chunk(w, i) = Chunk(m, i)
  <2>1. m.chunks \in Seq(Chunks)
    BY DEF Manifests
  <2>2. w.chunks = m.chunks \/ \E c : w.chunks = Append(m.chunks, c)
    BY <1>1 DEF WithRaw, AddChunk, Manifests
  <2>3. QED
    BY <2>1, <2>2 DEF Indices, Chunk
<1>5. PICK raw : raw = IF stored THEN {Len(m.chunks)} ELSE {}
  OBVIOUS
<1>6. m.revs \in Seq(Revisions) /\ m.receipts \in Seq(Receipts) /\ Len(m.revs) + 1 \in Nat
      /\ raw \subseteq Int
  BY <1>5 DEF Manifests
<1>7. PICK r : r = Revision(kind, source, parent, idx, raw)
  OBVIOUS
<1>8. r \in Revisions /\ r.idx = idx
  BY <1>6, <1>7 DEF Revision, Revisions
<1>9. PICK k : k = Receipt(op, "succeeded", Len(m.revs) + 1, parent)
  OBVIOUS
<1>10. k \in Receipts
  BY <1>6, <1>9 DEF Receipt, Receipts
<1>11. PICK d : d = CommitRevision(m, kind, source, parent, op, idx, stored)
  OBVIOUS
<1>12. d = [w EXCEPT !.revs = Append(@, r), !.current = Len(m.revs) + 1, !.receipts = Append(@, k)]
  BY <1>1, <1>5, <1>7, <1>9, <1>11 DEF CommitRevision
<1>13. Append(w.revs, r) \in Seq(Revisions) /\ Append(w.receipts, k) \in Seq(Receipts)
  BY <1>3, <1>8, <1>10 DEF Manifests
<1>14. d \in Manifests /\ d.chunks = w.chunks /\ d.revs = Append(w.revs, r)
  BY <1>3, <1>6, <1>12, <1>13 DEF Manifests
<1>15. Fine(d, at, sh, gone)
  BY <1>3, <1>4, <1>8, <1>14, DocFine
<1>16. QED
  BY <1>2, <1>11, <1>14, <1>15

-----------------------------------------------------------------------------
(* The operations *)

LEMMA FineGrows ==
    ASSUME NEW m \in Manifests, NEW disk, NEW sh, NEW sh2, NEW gone,
           Fine(m, disk, sh, gone), sh \subseteq sh2
    PROVE  Fine(m, disk, sh2, gone)
BY DEF Fine, Committed

LEMMA StartFits ==
    ASSUME StoreInv, Start
    PROVE  StoreInv'
<1>1. PICK d : d = EmptyManifest("recording")
  OBVIOUS
<1>2. d.chunks = <<>> /\ d.revs = <<>> /\ d.state = "recording" /\ <<>> \in Seq(Chunks)
      /\ <<>> \in Seq(Revisions) /\ <<>> \in Seq(Receipts) /\ <<>> \in Seq(ChunkFiles)
  BY <1>1 DEF EmptyManifest
<1>3. d \in Manifests
  BY <1>1, <1>2 DEF EmptyManifest, Manifests, States
<1>4. Indices(d) = {} /\ DOMAIN d.revs = {}
  BY <1>2 DEF Indices
<1>5. Fine(d, files, shown, dropped)
  BY <1>4 DEF Fine, Committed, WholeOn
<1>6. Begin("guarded", "start", d, <<>>) /\ Kept /\ UNCHANGED shown
  BY <1>1 DEF Start
<1>7. shown \subseteq Attempts /\ "guarded" \in Writers /\ "start" \in Names
  BY DEF StoreInv, StoreType, Writers, Names
<1>8. QED
  BY <1>2, <1>3, <1>5, <1>6, <1>7, BeginFits

\* Operations that add one chunk.
LEMMA AddFits ==
    ASSUME StoreInv, NEW m, m = Readable, m # Absent,
           NEW kind \in {"text", "audio", "segment"}, NEW tag \in Attempts \cup {"plain"},
           Begin("guarded", "chunk", AddChunk(m, kind, tag), NewFile(m, tag)),
           UNCHANGED shown, Kept
    PROVE  StoreInv'
<1>1. m \in Manifests /\ Fine(m, files, shown, dropped)
  BY ReadableFits
<1>2. tag \in Tags /\ tag # "raw"
  BY StoreConstants DEF Tags
<1>3. shown \subseteq Attempts /\ "guarded" \in Writers /\ "chunk" \in Names
  BY DEF StoreInv, StoreType, Writers, Names
<1>4. /\ AddChunk(m, kind, tag) \in Manifests
      /\ NewFile(m, tag) \in Seq(ChunkFiles)
      /\ Len(NewFile(m, tag)) = 1 /\ NewFile(m, tag)[1].whole = TRUE
      /\ Fine(AddChunk(m, kind, tag), files \cup {NewFile(m, tag)[1]}, shown, dropped)
  BY <1>1, <1>2, DocAdds
<1>5. PICK d, adds : d = AddChunk(m, kind, tag) /\ adds = NewFile(m, tag)
  OBVIOUS
<1>6. adds # <<>> /\ shown' = shown
  <2>1. adds \in Seq(ChunkFiles) /\ Len(adds) = 1
    BY <1>4, <1>5
  <2>2. QED
    BY <2>1
<1>7. Fine(d, IF adds = <<>> THEN files ELSE files \cup {adds[1]}, shown', dropped)
  BY <1>4, <1>5, <1>6
<1>8. QED
  BY <1>3, <1>4, <1>5, <1>6, <1>7, BeginFits

\* Operations that change neither chunks nor revisions.
LEMMA KeepFits ==
    ASSUME StoreInv, NEW m \in Found, NEW t \in Writers,
           NEW op \in Names, op # "commit", NEW d \in Manifests,
           d.chunks = m.chunks, d.revs = m.revs,
           Begin(t, op, d, <<>>), UNCHANGED shown, Kept
    PROVE  StoreInv'
<1>1. m \in Manifests /\ Fine(m, files, shown, dropped)
  BY FoundFits
<1>2. Fine(d, files, shown, dropped)
  BY <1>1, DocFine
<1>3. shown \subseteq Attempts
  BY DEF StoreInv, StoreType
<1>4. <<>> \in Seq(ChunkFiles) /\ shown' = shown
  OBVIOUS
<1>5. QED
  BY <1>2, <1>3, <1>4, BeginFits

LEMMA ReceiptFits ==
    ASSUME NEW m \in Manifests, NEW k \in Receipts
    PROVE  /\ [m EXCEPT !.receipts = Append(@, k)] \in Manifests
           /\ [m EXCEPT !.receipts = Append(@, k)].chunks = m.chunks
           /\ [m EXCEPT !.receipts = Append(@, k)].revs = m.revs
<1>1. Append(m.receipts, k) \in Seq(Receipts)
  BY DEF Manifests
<1>2. QED
  BY <1>1 DEF Manifests

LEMMA ChunkOperationsFit ==
    ASSUME StoreInv,
           \/ WriteTextChunk \/ WriteAudioChunk \/ SaveNotes
           \/ \E tag \in Attempts \cup {"plain"} : WriteTranscriptSegment(tag)
    PROVE  StoreInv'
<1>1. PICK m : m = Readable
  OBVIOUS
<1>2. CASE WriteTextChunk
  BY <1>1, <1>2, AddFits DEF WriteTextChunk, Open
<1>3. CASE WriteAudioChunk
  BY <1>1, <1>3, AddFits DEF WriteAudioChunk, Open
<1>4. CASE SaveNotes
  BY <1>1, <1>4, AddFits DEF SaveNotes, Open
<1>5. CASE \E tag \in Attempts \cup {"plain"} : WriteTranscriptSegment(tag)
  BY <1>1, <1>5, AddFits DEF WriteTranscriptSegment, Open
<1>6. QED
  BY <1>2, <1>3, <1>4, <1>5

LEMMA PlainOperationsFit ==
    ASSUME StoreInv,
           \/ Finish \/ MarkNeedsRecovery \/ AppendPrivacyEvent \/ RecordRecapReceipt
           \/ \E v \in 1..MaxRevisions : SelectTranscriptRevision(v)
           \/ \E a \in Attempts : RecordFailure(a)
    PROVE  StoreInv'
<1>1. PICK m : m = Readable
  OBVIOUS
<1>2. "guarded" \in Writers /\ "recap" \in Writers
      /\ {"state", "event", "select", "failure", "recap"} \subseteq Names
  BY DEF Writers, Names
<1>3. CASE Finish
  <2>1. m \in Found /\ m \in Manifests
    BY <1>1, <1>3, ReadableFits DEF Finish
  <2>2. PICK d : d = [m EXCEPT !.state = "finished"]
    OBVIOUS
  <2>3. d \in Manifests /\ d.chunks = m.chunks /\ d.revs = m.revs
    BY <2>1, <2>2 DEF Manifests, States
  <2>4. Begin("guarded", "state", d, <<>>) /\ UNCHANGED shown /\ Kept
    BY <1>1, <1>3, <2>2 DEF Finish
  <2>5. QED
    BY <1>1, <1>2, <2>1, <2>3, <2>4, KeepFits
<1>4. CASE MarkNeedsRecovery
  <2>1. m \in Found /\ m \in Manifests
    BY <1>1, <1>4, ReadableFits DEF MarkNeedsRecovery
  <2>2. PICK d : d = [m EXCEPT !.state = "needsRecovery"]
    OBVIOUS
  <2>3. d \in Manifests /\ d.chunks = m.chunks /\ d.revs = m.revs
    BY <2>1, <2>2 DEF Manifests, States
  <2>4. Begin("guarded", "state", d, <<>>) /\ UNCHANGED shown /\ Kept
    BY <1>1, <1>4, <2>2 DEF MarkNeedsRecovery
  <2>5. QED
    BY <1>1, <1>2, <2>1, <2>3, <2>4, KeepFits
<1>5. CASE AppendPrivacyEvent
  <2>1. m \in Found /\ m \in Manifests
    BY <1>1, <1>5, ReadableFits DEF AppendPrivacyEvent
  <2>2. PICK d : d = [m EXCEPT !.events = @ + 1]
    OBVIOUS
  <2>3. d \in Manifests /\ d.chunks = m.chunks /\ d.revs = m.revs
    <3>1. m.events \in Nat /\ m.events + 1 \in Nat
      BY <2>1 DEF Manifests
    <3>2. QED
      BY <2>1, <2>2, <3>1 DEF Manifests
  <2>4. Begin("guarded", "event", d, <<>>) /\ UNCHANGED shown /\ Kept
    BY <1>1, <1>5, <2>2 DEF AppendPrivacyEvent
  <2>5. QED
    BY <1>1, <1>2, <2>1, <2>3, <2>4, KeepFits
<1>6. CASE RecordRecapReceipt
  <2>1. PICK r \in Found :
          /\ Begin("recap", "recap",
                   [r EXCEPT !.receipts = Append(@, Receipt("recap", "succeeded", 0, r.current))], <<>>)
          /\ UNCHANGED shown /\ Kept
    BY <1>6 DEF RecordRecapReceipt
  <2>2. r \in Manifests
    BY FoundFits
  <2>3. PICK k : k = Receipt("recap", "succeeded", 0, r.current)
    OBVIOUS
  <2>4. k \in Receipts
    BY <2>2, <2>3 DEF Receipt, Receipts, Processing, Manifests
  <2>5. PICK d : d = [r EXCEPT !.receipts = Append(@, k)]
    OBVIOUS
  <2>6. d \in Manifests /\ d.chunks = r.chunks /\ d.revs = r.revs
    BY <2>2, <2>4, <2>5, ReceiptFits
  <2>7. Begin("recap", "recap", d, <<>>) /\ UNCHANGED shown /\ Kept
    BY <2>1, <2>3, <2>5
  <2>8. QED
    BY <1>2, <2>6, <2>7, KeepFits
<1>7. CASE \E v \in 1..MaxRevisions : SelectTranscriptRevision(v)
  <2>1. PICK v \in 1..MaxRevisions : SelectTranscriptRevision(v)
    BY <1>7
  <2>2. m \in Found /\ m \in Manifests /\ v \in Nat
    BY <1>1, <2>1, ReadableFits, StoreConstants DEF SelectTranscriptRevision
  <2>3. PICK d : d = [m EXCEPT !.current = v]
    OBVIOUS
  <2>4. d \in Manifests /\ d.chunks = m.chunks /\ d.revs = m.revs
    BY <2>2, <2>3 DEF Manifests
  <2>5. Begin("guarded", "select", d, <<>>) /\ UNCHANGED shown /\ Kept
    BY <1>1, <2>1, <2>3 DEF SelectTranscriptRevision
  <2>6. QED
    BY <1>1, <1>2, <2>2, <2>4, <2>5, KeepFits
<1>8. CASE \E a \in Attempts : RecordFailure(a)
  <2>1. PICK a \in Attempts : RecordFailure(a)
    BY <1>8
  <2>2. m \in Found /\ m \in Manifests
    BY <1>1, <2>1, ReadableFits DEF RecordFailure
  <2>3. PICK op, base : op = (IF att[a].pc = "cleanup" THEN "transcript-cleanup" ELSE "transcription")
                        /\ base = (IF att[a].pc = "cleanup" THEN att[a].base ELSE 0)
    OBVIOUS
  <2>4. op \in Processing /\ base \in Nat
    <3>1. m.revs \in Seq(Revisions)
      BY <2>2 DEF Manifests
    <3>2. att[a].pc = "cleanup" => att[a].base \in DOMAIN m.revs
      BY <1>1, <2>1 DEF RecordFailure
    <3>3. QED
      BY <2>3, <3>1, <3>2 DEF Processing
  <2>5. PICK k : k = Receipt(op, "failed", 0, base)
    OBVIOUS
  <2>6. k \in Receipts
    BY <2>4, <2>5 DEF Receipt, Receipts
  <2>7. PICK d : d = [m EXCEPT !.receipts = Append(@, k)]
    OBVIOUS
  <2>8. d \in Manifests /\ d.chunks = m.chunks /\ d.revs = m.revs
    BY <2>2, <2>6, <2>7, ReceiptFits
  <2>9. Begin("guarded", "failure", d, <<>>) /\ UNCHANGED shown /\ Kept
    BY <1>1, <2>1, <2>3, <2>5, <2>7 DEF RecordFailure
  <2>10. QED
    BY <1>1, <1>2, <2>2, <2>8, <2>9, KeepFits
<1>9. QED
  BY <1>3, <1>4, <1>5, <1>6, <1>7, <1>8

\* A revision is committed, with the raw text or without.
LEMMA CommitFits ==
    ASSUME StoreInv, NEW m \in Manifests, NEW base \in Manifests, base.chunks = m.chunks,
           Fine(base, files, shown, dropped), NEW a \in Attempts,
           NEW kind \in {"legacy", "raw-asr", "normalized", "ai-cleaned"},
           NEW source \in {"initial", "reprocess", "review", "ai-cleanup"},
           NEW parent \in Nat, NEW op \in Processing, NEW stored \in BOOLEAN,
           Begin("guarded", "commit",
                 CommitRevision(base, kind, source, parent, op, SegmentsOf(m, a), stored),
                 IF stored THEN NewFile(m, "raw") ELSE <<>>),
           shown' = shown \cup {a}, Kept
    PROVE  StoreInv'
<1>1. shown \subseteq shown' /\ shown' \subseteq Attempts /\ "guarded" \in Writers /\ "commit" \in Names
  BY DEF StoreInv, StoreType, Writers, Names
<1>2. Fine(base, files, shown', dropped)
  BY <1>1, FineGrows
<1>3. /\ SegmentsOf(m, a) \in SUBSET Nat
      /\ \A i \in SegmentsOf(m, a) : i \in Indices(base) /\ Chunk(base, i).tag \in shown' \cup {"plain"}
  BY SegmentsFine DEF Indices, Chunk
<1>4. PICK d, adds :
        /\ d = CommitRevision(base, kind, source, parent, op, SegmentsOf(m, a), stored)
        /\ adds = IF stored THEN NewFile(m, "raw") ELSE <<>>
  OBVIOUS
<1>5. PICK f : f = NewFile(m, "raw")[1] /\ NewFile(m, "raw") = <<f>> /\ f \in ChunkFiles
               /\ f.whole = TRUE /\ f.tag = "raw" /\ NewFile(base, "raw") = <<f>>
  <2>1. PICK f : f = ChunkFile(Len(m.chunks), "raw", TRUE)
    OBVIOUS
  <2>2. f \in ChunkFiles /\ f.whole = TRUE /\ f.tag = "raw"
    BY <2>1 DEF ChunkFile, ChunkFiles, Manifests, Tags
  <2>3. QED
    BY <2>1, <2>2 DEF NewFile
<1>6. d \in Manifests /\ Fine(d, IF stored THEN files \cup {f} ELSE files, shown', dropped)
  <2>1. PICK idx : idx = SegmentsOf(m, a)
    OBVIOUS
  <2>2. NewFile(base, "raw")[1] = f
    BY <1>5
  <2>3. /\ idx \in SUBSET Nat
        /\ \A i \in idx : i \in Indices(base) /\ Chunk(base, i).tag \in shown' \cup {"plain"}
        /\ d = CommitRevision(base, kind, source, parent, op, idx, stored)
    BY <1>3, <1>4, <2>1
  <2>4. PICK sh : sh = shown'
    OBVIOUS
  <2>5. Fine(base, files, sh, dropped)
        /\ \A i \in idx : i \in Indices(base) /\ Chunk(base, i).tag \in sh \cup {"plain"}
    BY <1>2, <2>3, <2>4
  <2>6. /\ CommitRevision(base, kind, source, parent, op, idx, stored) \in Manifests
        /\ Fine(CommitRevision(base, kind, source, parent, op, idx, stored),
                IF stored THEN files \cup {NewFile(base, "raw")[1]} ELSE files, sh, dropped)
    BY <2>3, <2>5, CommitFine, ZenonT(40)
  <2>7. QED
    BY <2>2, <2>3, <2>4, <2>6
<1>7. Begin("guarded", "commit", d, adds)
  BY <1>4
<1>8. CASE stored
  <2>1. adds = <<f>> /\ <<f>> \in Seq(ChunkFiles) /\ Len(<<f>>) = 1 /\ <<f>>[1] = f /\ <<f>> # <<>>
        /\ DOMAIN <<f>> = {1}
    BY <1>4, <1>5, <1>8
  <2>2. Fine(d, IF adds = <<>> THEN files ELSE files \cup {adds[1]}, shown', dropped)
    BY <1>6, <1>8, <2>1
  <2>3. \A n \in DOMAIN adds : adds[n].tag = "raw"
    BY <1>5, <2>1
  <2>4. QED
    BY <1>1, <1>5, <1>6, <1>7, <2>1, <2>2, <2>3, BeginFits
<1>9. CASE ~stored
  <2>1. adds = <<>> /\ adds \in Seq(ChunkFiles) /\ DOMAIN adds = {}
    BY <1>4, <1>9
  <2>2. Fine(d, IF adds = <<>> THEN files ELSE files \cup {adds[1]}, shown', dropped)
    BY <1>6, <1>9, <2>1
  <2>3. QED
    BY <1>1, <1>6, <1>7, <2>1, <2>2, BeginFits
<1>10. QED
  BY <1>8, <1>9

LEMMA AttemptOperationsFit ==
    ASSUME StoreInv, NEW a \in Attempts,
           \/ \E p \in {"transcription", "review", "cleanup"} : BeginAttempt(a, p)
           \/ \E stored \in BOOLEAN : CompleteTranscription(a, stored) \/ CompleteReview(a, stored)
           \/ CompleteCleanup(a)
    PROVE  StoreInv'
<1>1. PICK m : m = Readable
  OBVIOUS
<1>2. CASE \E p \in {"transcription", "review", "cleanup"} : BeginAttempt(a, p)
  <2>1. UNCHANGED <<slots, files, writer, seen, shown, dropped>>
    BY <1>2 DEF BeginAttempt, Kept
  <2>2. QED
    BY <2>1 DEF StoreInv, StoreType, SlotsInv, WritersInv, SeenInv
<1>3. ASSUME NEW stored \in BOOLEAN, CompleteTranscription(a, stored) PROVE StoreInv'
  <2>1. m \in Manifests /\ Fine(m, files, shown, dropped)
    BY <1>1, <1>3, ReadableFits DEF CompleteTranscription, Committable
  <2>2. PICK base : base = PromoteLegacy(m)
    OBVIOUS
  <2>3. base \in Manifests /\ base.chunks = m.chunks /\ Fine(base, files, shown, dropped)
    BY <2>1, <2>2, LegacyFine
  <2>4. PICK source : source = IF base.revs = <<>> THEN "initial" ELSE "reprocess"
    OBVIOUS
  <2>5. /\ Begin("guarded", "commit",
                 CommitRevision(base, "raw-asr", source, 0, "transcription", SegmentsOf(m, a), stored),
                 IF stored THEN NewFile(m, "raw") ELSE <<>>)
        /\ shown' = shown \cup {a} /\ Kept
    BY <1>1, <1>3, <2>2, <2>4 DEF CompleteTranscription
  <2>6. source \in {"initial", "reprocess", "review", "ai-cleanup"} /\ "transcription" \in Processing
    BY <2>4 DEF Processing
  <2>7. QED
    BY <2>1, <2>3, <2>5, <2>6, CommitFits
<1>4. ASSUME NEW stored \in BOOLEAN, CompleteReview(a, stored) PROVE StoreInv'
  <2>1. m \in Manifests /\ Fine(m, files, shown, dropped)
    BY <1>1, <1>4, ReadableFits DEF CompleteReview, Committable
  <2>2. PICK parent : parent = m.current
    OBVIOUS
  <2>3. /\ Begin("guarded", "commit",
                 CommitRevision(m, "normalized", "review", parent, "protected-term-review",
                                SegmentsOf(m, a), stored),
                 IF stored THEN NewFile(m, "raw") ELSE <<>>)
        /\ shown' = shown \cup {a} /\ Kept
    BY <1>1, <1>4, <2>2 DEF CompleteReview
  <2>4. parent \in Nat /\ "protected-term-review" \in Processing
    BY <2>1, <2>2 DEF Processing, Manifests
  <2>5. QED
    BY <2>1, <2>3, <2>4, CommitFits
<1>5. CASE CompleteCleanup(a)
  <2>1. m \in Manifests /\ Fine(m, files, shown, dropped)
    BY <1>1, <1>5, ReadableFits DEF CompleteCleanup, Committable
  <2>2. m.current \in Nat /\ m.revs \in Seq(Revisions) /\ m.receipts \in Seq(Receipts)
        /\ Len(m.revs) + 1 \in Nat
    BY <2>1 DEF Manifests
  <2>3. PICK r : r = Revision("ai-cleaned", "ai-cleanup", m.current, SegmentsOf(m, a), NoRaw)
    OBVIOUS
  <2>4. r \in Revisions /\ r.idx = SegmentsOf(m, a)
    BY <2>1, <2>2, <2>3, SegmentsFine DEF Revision, Revisions, NoRaw
  <2>5. PICK k : k = Receipt("transcript-cleanup", "succeeded", Len(m.revs) + 1, m.current)
    OBVIOUS
  <2>6. k \in Receipts
    BY <2>2, <2>5 DEF Receipt, Receipts, Processing
  <2>7. PICK d : d = [m EXCEPT !.revs = Append(@, r), !.cleaned = Len(m.revs) + 1,
                               !.receipts = Append(@, k)]
    OBVIOUS
  <2>8. Append(m.revs, r) \in Seq(Revisions) /\ Append(m.receipts, k) \in Seq(Receipts)
    BY <2>2, <2>4, <2>6
  <2>9. d \in Manifests /\ d.chunks = m.chunks /\ d.revs = Append(m.revs, r)
    BY <2>1, <2>2, <2>7, <2>8 DEF Manifests
  <2>10. Begin("guarded", "cleanup", d, <<>>) /\ shown' = shown \cup {a} /\ Kept
    BY <1>1, <1>5, <2>3, <2>5, <2>7 DEF CompleteCleanup
  <2>11. shown \subseteq shown' /\ shown' \subseteq Attempts /\ "guarded" \in Writers /\ "cleanup" \in Names
    BY <2>10 DEF StoreInv, StoreType, Writers, Names
  <2>12. Fine(m, files, shown', dropped)
    BY <2>1, <2>11, FineGrows
  <2>13. \A i \in r.idx : i \in Indices(m) /\ Chunk(m, i).tag \in shown' \cup {"plain"}
    BY <2>1, <2>4, <2>10, SegmentsFine
  <2>14. Fine(d, files, shown', dropped)
    BY <2>1, <2>9, <2>12, <2>13, DocFine
  <2>15. <<>> \in Seq(ChunkFiles)
    OBVIOUS
  <2>16. QED
    BY <2>9, <2>10, <2>11, <2>14, <2>15, BeginFits
<1>6. QED
  BY <1>2, <1>3, <1>4, <1>5

\* An abort may leave anything, and nothing it leaves was promised.
LEMMA AbortFits ==
    ASSUME StoreInv, AbortUnfinished
    PROVE  StoreInv'
<1>1. /\ slots' \in {slots, NoSlots} /\ files' \in SUBSET files
      /\ seen' = Absent /\ dropped' = TRUE /\ UNCHANGED <<writer, shown>>
  BY DEF AbortUnfinished
<1>2. StoreType'
  <2>1. IsFiniteSet(files')
    BY <1>1, FilesNow, FS_Subset
  <2>2. NoSlots \in [Slots -> Manifests \cup {Absent, Torn}]
    BY DEF NoSlots
  <2>3. QED
    BY <1>1, <2>1, <2>2 DEF StoreInv, StoreType
<1>3. SlotsInv'
  <2>1. SUFFICES ASSUME NEW s \in Slots, slots'[s] \notin {Absent, Torn}
                 PROVE  Fine(slots'[s], files', shown', dropped')
    BY DEF SlotsInv
  <2>2. slots'[s] = slots[s]
    BY <1>1, <2>1 DEF NoSlots
  <2>3. QED
    BY <1>1, <2>1, <2>2 DEF StoreInv, SlotsInv, Fine
<1>4. WritersInv'
  <2>1. SUFFICES ASSUME NEW t \in Writers, writer'[t] # Idle
                 PROVE  OperationOK(writer'[t], files', shown', dropped')
    BY DEF WritersInv
  <2>2. OperationOK(writer[t], files, shown, dropped)
    BY <1>1, <2>1 DEF StoreInv, WritersInv
  <2>3. QED
    BY <1>1, <2>2 DEF OperationOK, Fine
<1>5. SeenInv'
  BY <1>1 DEF SeenInv
<1>6. QED
  BY <1>2, <1>3, <1>4, <1>5 DEF StoreInv

LEMMA CrashFits ==
    ASSUME StoreInv, Crash
    PROVE  StoreInv'
<1>1. /\ writer' = [t \in Writers |-> Idle]
      /\ UNCHANGED <<slots, files, seen, shown, dropped>>
  BY DEF Crash
<1>2. writer' \in [Writers -> {Idle} \cup Operations] /\ \A t \in Writers : writer'[t] = Idle
  BY <1>1
<1>3. \A s \in Slots : slots'[s] \notin {Absent, Torn} => Fine(slots'[s], files, shown, dropped)
  BY <1>1 DEF StoreInv, SlotsInv
<1>4. shown \subseteq Attempts
  BY DEF StoreInv, StoreType
<1>5. QED
  BY <1>1, <1>2, <1>3, <1>4, FilesNow, StepFits

-----------------------------------------------------------------------------
(* Recovery *)

\* A scan that succeeds finds one file for each index.
LEMMA ScanFits ==
    ASSUME NEW disk, disk \subseteq ChunkFiles, IsFiniteSet(disk), ScanOK(disk)
    PROVE  /\ ScanChunks(disk) \in Seq(Chunks)
           /\ Len(ScanChunks(disk)) = Cardinality(disk)
           /\ \A n \in 1..Cardinality(disk) : \E f \in disk :
                f.index = n - 1 /\ f.whole = TRUE /\ ScanChunks(disk)[n].tag = f.tag
           /\ \A f \in disk : /\ f.index + 1 \in 1..Cardinality(disk)
                              /\ ScanChunks(disk)[f.index + 1].tag = f.tag
<1>1. PICK k : k = Cardinality(disk)
  OBVIOUS
<1>2. k \in Nat
  BY <1>1, FS_CardinalityType
<1>3. (\A f \in disk : f.whole = TRUE) /\ {f.index : f \in disk} = 0..(k - 1)
  BY <1>1 DEF ScanOK, ChunkFiles
<1>4. \A f, g \in disk : f.index = g.index => f = g
  <2>1. PICK h : h = [f \in disk |-> f.index]
    OBVIOUS
  <2>2. h \in Surjection(disk, 0..(k - 1))
    BY <1>3, <2>1 DEF Surjection
  <2>3. Cardinality(0..(k - 1)) = k
    BY <1>2, FS_Interval
  <2>4. h \in Injection(disk, 0..(k - 1))
    BY <1>1, <2>2, <2>3, FS_Surjection
  <2>5. QED
    BY <2>1, <2>4 DEF Injection, IsInjective
<1>5. PICK scan : scan = ScanChunks(disk)
  OBVIOUS
<1>6. ASSUME NEW n \in 1..k
      PROVE  \E f \in disk : /\ f.index = n - 1 /\ f.whole = TRUE
                             /\ scan[n] = Descriptor(ScannedKind(f.tag), f.tag, FALSE)
  <2>1. n - 1 \in 0..(k - 1)
    BY <1>2
  <2>2. \E f \in disk : f.index = n - 1
    BY <1>3, <2>1
  <2>3. PICK f : f = CHOOSE g \in disk : g.index = n - 1
    OBVIOUS
  <2>4. f \in disk /\ f.index = n - 1
    BY <2>2, <2>3
  <2>5. scan[n] = Descriptor(ScannedKind(f.tag), f.tag, FALSE)
    BY <1>1, <1>5, <2>3 DEF ScanChunks
  <2>6. QED
    BY <1>3, <2>4, <2>5
<1>7. \A n \in 1..k : scan[n] \in Chunks
  <2>1. SUFFICES ASSUME NEW n \in 1..k PROVE scan[n] \in Chunks
    OBVIOUS
  <2>2. PICK f \in disk : scan[n] = Descriptor(ScannedKind(f.tag), f.tag, FALSE)
    BY <1>6
  <2>3. PICK tag : tag = f.tag
    OBVIOUS
  <2>4. tag \in Tags
    BY <2>3 DEF ChunkFiles
  <2>5. PICK kind : kind = ScannedKind(tag)
    OBVIOUS
  <2>6. kind \in {"text", "audio", "segment", "raw"} /\ (tag = "raw" <=> kind = "raw")
    BY <2>5 DEF ScannedKind
  <2>7. scan[n] = [kind |-> kind, tag |-> tag, meta |-> FALSE]
    BY <2>2, <2>3, <2>5 DEF Descriptor
  <2>8. QED
    BY <2>4, <2>6, <2>7 DEF Chunks
<1>8. scan \in Seq(Chunks) /\ Len(scan) = k
  <2>1. scan = [n \in 1..k |-> scan[n]]
    BY <1>1, <1>5 DEF ScanChunks
  <2>2. QED
    BY <1>2, <1>7, <2>1
<1>9. \A n \in 1..k : \E f \in disk : f.index = n - 1 /\ f.whole = TRUE /\ scan[n].tag = f.tag
  <2>1. SUFFICES ASSUME NEW n \in 1..k
                 PROVE  \E f \in disk : f.index = n - 1 /\ f.whole = TRUE /\ scan[n].tag = f.tag
    OBVIOUS
  <2>2. PICK f \in disk : /\ f.index = n - 1 /\ f.whole = TRUE
                          /\ scan[n] = Descriptor(ScannedKind(f.tag), f.tag, FALSE)
    BY <1>6
  <2>3. scan[n].tag = f.tag
    BY <2>2 DEF Descriptor
  <2>4. QED
    BY <2>2, <2>3
<1>10. ASSUME NEW f \in disk PROVE f.index + 1 \in 1..k /\ scan[f.index + 1].tag = f.tag
  <2>1. f.index \in 0..(k - 1)
    BY <1>3
  <2>2. PICK n : n = f.index + 1
    OBVIOUS
  <2>3. n \in 1..k /\ n - 1 = f.index
    BY <1>2, <2>1, <2>2
  <2>4. PICK g \in disk : g.index = n - 1 /\ scan[n].tag = g.tag
    BY <1>9, <2>3
  <2>5. g = f
    BY <1>4, <2>3, <2>4
  <2>6. QED
    BY <2>2, <2>3, <2>4, <2>5
<1>11. QED
  BY <1>1, <1>5, <1>8, <1>9, <1>10

LEMMA ScannedWhole ==
    ASSUME NEW disk, disk \subseteq ChunkFiles, IsFiniteSet(disk), ScanOK(disk),
           NEW d, d.chunks = ScanChunks(disk)
    PROVE  WholeOn(d, disk) /\ \A i \in Indices(d) : ChunkFile(i, Chunk(d, i).tag, TRUE) \in disk
<1>1. SUFFICES ASSUME NEW i \in Indices(d) PROVE ChunkFile(i, Chunk(d, i).tag, TRUE) \in disk
  BY DEF WholeOn
<1>2. Cardinality(disk) \in Nat /\ Len(d.chunks) = Cardinality(disk)
  BY ScanFits, FS_CardinalityType
<1>3. i \in Nat /\ i + 1 \in 1..Cardinality(disk) /\ (i + 1) - 1 = i
  BY <1>1, <1>2 DEF Indices
<1>4. PICK f \in disk : f.index = i /\ f.whole = TRUE /\ d.chunks[i + 1].tag = f.tag
  <2>1. \A n \in 1..Cardinality(disk) : \E f \in disk :
            f.index = n - 1 /\ f.whole = TRUE /\ ScanChunks(disk)[n].tag = f.tag
    BY ScanFits, Zenon
  <2>2. QED
    BY <1>3, <2>1
<1>5. f = ChunkFile(i, Chunk(d, i).tag, TRUE)
  BY <1>4 DEF ChunkFile, ChunkFiles, Chunk
<1>6. QED
  BY <1>5

\* Whatever recovery rebuilds shows what was committed and nothing else.
LEMMA RebuiltFine ==
    ASSUME NEW m \in Manifests, NEW disk, NEW left, disk \subseteq ChunkFiles, left \subseteq disk,
           IsFiniteSet(left), ScanOK(left), \A f \in disk \ left : f.tag = "raw",
           NEW sh, sh \subseteq Attempts, Committed(m, sh), m.revs = <<>> \/ ChunkDescriptorsValid(m, disk),
           NEW gone, NEW d \in Manifests, d.chunks = ScanChunks(left), d.revs = m.revs
    PROVE  Fine(d, left, sh, gone)
<1>1. left \subseteq ChunkFiles
  OBVIOUS
<1>2. WholeOn(d, left)
  BY <1>1, ScannedWhole
<1>3. Committed(d, sh)
  <2>1. SUFFICES ASSUME NEW v \in DOMAIN d.revs, NEW i \in d.revs[v].idx
                 PROVE  i \in Indices(d) /\ Chunk(d, i).tag \in sh \cup {"plain"}
    BY DEF Committed
  <2>2. i \in Indices(m) /\ Chunk(m, i).tag \in sh \cup {"plain"}
    BY <2>1 DEF Committed
  <2>3. i \in Nat
    BY <2>2, ChunkOf
  <2>4. ChunkDescriptorsValid(m, disk)
    BY <2>1
  <2>5. PICK f \in disk : f.index = i /\ f.tag = Chunk(m, i).tag
    BY <2>2, <2>4 DEF ChunkDescriptorsValid
  <2>6. f \in left
    BY <2>2, <2>5, StoreConstants
  <2>7. /\ Len(d.chunks) = Cardinality(left) /\ i + 1 \in 1..Cardinality(left)
        /\ d.chunks[i + 1].tag = Chunk(m, i).tag
    <3>1. /\ Len(ScanChunks(left)) = Cardinality(left)
          /\ \A g \in left : /\ g.index + 1 \in 1..Cardinality(left)
                             /\ ScanChunks(left)[g.index + 1].tag = g.tag
      BY <1>1, ScanFits, Zenon
    <3>2. QED
      BY <2>5, <2>6, <3>1
  <2>8. Cardinality(left) \in Nat
    BY FS_CardinalityType
  <2>9. i \in Indices(d) /\ Chunk(d, i).tag = Chunk(m, i).tag
    BY <2>3, <2>7, <2>8 DEF Indices, Chunk
  <2>10. QED
    BY <2>2, <2>9
<1>4. QED
  BY <1>2, <1>3 DEF Fine

LEMMA RecoverFits ==
    ASSUME StoreInv, Recover
    PROVE  StoreInv'
<1>1. PICK loaded : loaded = IF Readable # Absent THEN Readable ELSE ManifestFromChunks(files)
  OBVIOUS
<1>2. PICK left : left = files \ UnownedRawFiles(loaded, files)
  OBVIOUS
<1>3. left \subseteq files /\ (\A f \in files \ left : f.tag = "raw") /\ Keeps(files, left)
  BY <1>2 DEF UnownedRawFiles, Keeps
<1>4. left \subseteq ChunkFiles /\ IsFiniteSet(left) /\ shown \subseteq Attempts
  BY <1>3, FilesNow, FS_Subset DEF StoreInv, StoreType
<1>5. UNCHANGED <<slots, seen, shown, dropped>>
  BY DEF Recover
<1>6. \A s \in Slots : slots'[s] \notin {Absent, Torn} => Fine(slots'[s], files, shown, dropped)
  BY <1>5 DEF StoreInv, SlotsInv
<1>7. CASE writer' = writer /\ files' \in {files, left}
  BY <1>3, <1>4, <1>5, <1>6, <1>7, FilesNow, StepFits
<1>8. ASSUME NEW chunks, NEW state, chunks = ScanChunks(left) \/ chunks = loaded.chunks,
             state = (IF loaded.state = "recording" THEN "needsRecovery" ELSE loaded.state),
             ScanOK(files), ScanOK(left), files' = left,
             writer' = [writer EXCEPT !["guarded"] =
                [pc |-> "create", op |-> "recover", adds |-> <<>>, had |-> FALSE,
                 doc |-> [loaded EXCEPT !.chunks = chunks, !.state = state]]]
      PROVE  StoreInv'
  <2>1. /\ loaded \in Manifests
        /\ Fine(loaded, files, shown, dropped)
        /\ loaded.revs = <<>> \/ ChunkDescriptorsValid(loaded, files)
    <3>1. CASE Readable # Absent
      BY <1>1, <3>1, ReadableFits DEF ValidOn
    <3>2. CASE Readable = Absent
      <4>1. loaded = [EmptyManifest("needsRecovery") EXCEPT !.chunks = ScanChunks(files)]
        BY <1>1, <3>2 DEF ManifestFromChunks
      <4>2. ScanChunks(files) \in Seq(Chunks)
        BY <1>8, FilesNow, ScanFits
      <4>3. <<>> \in Seq(Revisions) /\ <<>> \in Seq(Receipts) /\ "needsRecovery" \in States
        BY DEF States
      <4>4. loaded \in Manifests /\ loaded.revs = <<>> /\ loaded.chunks = ScanChunks(files)
        BY <4>1, <4>2, <4>3 DEF EmptyManifest, Manifests
      <4>5. WholeOn(loaded, files)
        BY <1>8, <4>4, FilesNow, ScannedWhole
      <4>6. Committed(loaded, shown)
        BY <4>4 DEF Committed
      <4>7. QED
        BY <4>4, <4>5, <4>6 DEF Fine
    <3>3. QED
      BY <3>1, <3>2
  <2>2. PICK d : d = [loaded EXCEPT !.chunks = chunks, !.state = state]
    OBVIOUS
  <2>3. chunks \in Seq(Chunks) /\ state \in States
    BY <1>4, <1>8, <2>1, ScanFits DEF Manifests, States
  <2>4. d \in Manifests /\ d.chunks = chunks /\ d.revs = loaded.revs
    BY <2>1, <2>2, <2>3 DEF Manifests
  <2>5. Fine(d, left, shown, dropped)
    <3>1. CASE chunks = ScanChunks(left)
      <4>1. Committed(loaded, shown)
        BY <2>1 DEF Fine
      <4>2. QED
        BY <1>3, <1>4, <1>8, <2>1, <2>4, <3>1, <4>1, FilesNow, RebuiltFine
    <3>2. CASE chunks = loaded.chunks
      <4>1. Fine(d, files, shown, dropped)
        BY <2>1, <2>4, <3>2, DocFine
      <4>2. QED
        BY <1>3, <2>4, <4>1, FineKept
    <3>3. QED
      BY <1>8, <3>1, <3>2
  <2>6. PICK w : w = [pc |-> "create", op |-> "recover", adds |-> <<>>, had |-> FALSE, doc |-> d]
    OBVIOUS
  <2>7. w.pc = "create" /\ w.op = "recover" /\ w.adds = <<>> /\ w.doc = d /\ w.had = FALSE
        /\ <<>> \in Seq(ChunkFiles) /\ w.pc \in Pcs /\ w.op \in Names
    BY <2>6 DEF Pcs, Names
  <2>8. w \in Operations
    BY <2>4, <2>6, <2>7 DEF Operations
  <2>9. files' \cup Adding(w) = left
    BY <1>8, <2>7 DEF Adding
  <2>10. OperationOK(w, files', shown, dropped)
    BY <2>5, <2>7, <2>9 DEF OperationOK
  <2>11. writer' = [writer EXCEPT !["guarded"] = w] /\ "guarded" \in Writers
    BY <1>8, <2>2, <2>6 DEF Writers
  <2>12. QED
    BY <1>3, <1>4, <1>5, <1>6, <1>8, <2>8, <2>10, <2>11, FilesNow, MoveFits
<1>9. QED
  <2>1. PICK unowned, listed, scanned, adopt, chunks, state :
          /\ unowned = UnownedRawFiles(loaded, files)
          /\ listed = (\E f \in unowned : f.index \in Indices(loaded))
          /\ scanned = ScanChunks(left)
          /\ adopt = ((unowned # {} /\ listed) \/ Len(scanned) > Len(loaded.chunks))
          /\ chunks = (IF adopt THEN scanned ELSE loaded.chunks)
          /\ state = (IF loaded.state = "recording" THEN "needsRecovery" ELSE loaded.state)
    OBVIOUS
  <2>2. \/ writer' = writer /\ files' \in {files, left}
        \/ /\ ScanOK(files) /\ ScanOK(left) /\ files' = left
           /\ writer' = [writer EXCEPT !["guarded"] =
                [pc |-> "create", op |-> "recover", adds |-> <<>>, had |-> FALSE,
                 doc |-> [loaded EXCEPT !.chunks = chunks, !.state = state]]]
    BY <1>1, <1>2, <2>1 DEF Recover
  <2>3. chunks = ScanChunks(left) \/ chunks = loaded.chunks
    BY <2>1
  <2>4. QED
    BY <1>7, <1>8, <2>1, <2>2, <2>3

-----------------------------------------------------------------------------
(* The invariant, and what it says *)

LEMMA InitFits ==
    ASSUME Init
    PROVE  StoreInv
<1>1. PICK m \in Earlier \cup {Absent} :
        /\ slots = [NoSlots EXCEPT !["main"] = m]
        /\ files = IF m = Absent THEN {} ELSE FilesOf(m)
        /\ seen = m
        /\ shown = IF m = Absent THEN {} ELSE Attempts \cap {Chunk(m, i).tag : i \in CommittedIndices(m)}
  BY DEF Init
<1>2. writer = [t \in Writers |-> Idle] /\ dropped = FALSE
  BY DEF Init
<1>3. m = Absent \/ (m \in Manifests /\ ValidOn(m, FilesOf(m)))
  BY EarlierStored
<1>4. files \subseteq ChunkFiles /\ IsFiniteSet(files)
  <2>1. CASE m = Absent
    BY <1>1, <2>1, FS_EmptySet
  <2>2. CASE m # Absent
    <3>1. m \in Manifests /\ files = {ChunkFile(i, Chunk(m, i).tag, TRUE) : i \in Indices(m)}
      BY <1>1, <1>3, <2>2 DEF FilesOf
    <3>2. \A i \in Indices(m) : ChunkFile(i, Chunk(m, i).tag, TRUE) \in ChunkFiles
      BY <3>1, ChunkOf DEF ChunkFile, ChunkFiles, Chunks
    <3>3. IsFiniteSet(Indices(m))
      <4>1. m.chunks \in Seq(Chunks)
        BY <3>1 DEF Manifests
      <4>2. 0 \in Int /\ Len(m.chunks) - 1 \in Int
        BY <4>1
      <4>3. QED
        BY <4>2, FS_Interval DEF Indices
    <3>4. PICK h : h = [i \in Indices(m) |-> ChunkFile(i, Chunk(m, i).tag, TRUE)]
      OBVIOUS
    <3>5. h \in Surjection(Indices(m), files)
      BY <3>1, <3>4 DEF Surjection
    <3>6. QED
      BY <3>1, <3>2, <3>3, <3>5, FS_Surjection
  <2>3. QED
    BY <2>1, <2>2
<1>5. StoreType
  BY <1>1, <1>2, <1>3, <1>4 DEF StoreType, NoSlots, Slots
<1>6. m # Absent => Committed(m, shown) /\ WholeOn(m, files)
  <2>1. SUFFICES ASSUME m # Absent PROVE Committed(m, shown) /\ WholeOn(m, files)
    OBVIOUS
  <2>2. m \in Manifests /\ RevisionsValid(m) /\ ChunkDescriptorsValid(m, FilesOf(m)) /\ files = FilesOf(m)
    BY <1>1, <1>3, <2>1 DEF ValidOn
  <2>3. WholeOn(m, files)
    BY <2>2 DEF WholeOn, FilesOf
  <2>4. ASSUME NEW v \in DOMAIN m.revs, NEW i \in m.revs[v].idx
        PROVE  i \in Indices(m) /\ Chunk(m, i).tag \in shown \cup {"plain"}
    <3>1. i \in Indices(m) /\ Chunk(m, i).kind = "segment"
      BY <2>2, <2>4 DEF RevisionsValid, RevisionIndicesValid
    <3>2. Chunk(m, i).tag \in Tags /\ Chunk(m, i).tag # "raw"
      BY <2>2, <3>1, ChunkOf DEF Chunks
    <3>3. i \in CommittedIndices(m)
      BY <2>4 DEF CommittedIndices
    <3>4. QED
      BY <1>1, <2>1, <3>1, <3>2, <3>3 DEF Tags
  <2>5. QED
    BY <2>3, <2>4 DEF Committed
<1>7. SlotsInv
  <2>1. SUFFICES ASSUME NEW s \in Slots, slots[s] \notin {Absent, Torn} PROVE slots[s] = m /\ m # Absent
    BY <1>6 DEF SlotsInv, Fine
  <2>2. QED
    BY <1>1, <2>1 DEF NoSlots, Slots
<1>8. WritersInv
  BY <1>2 DEF WritersInv
<1>9. SeenInv
  BY <1>1, <1>2, <1>6 DEF SeenInv
<1>10. QED
  BY <1>5, <1>7, <1>8, <1>9 DEF StoreInv

LEMMA NextFits ==
    ASSUME StoreInv, [Next]_vars
    PROVE  StoreInv'
<1>1. CASE UNCHANGED vars
  <2>1. UNCHANGED <<slots, files, writer, seen, shown, dropped>>
    BY <1>1 DEF vars
  <2>2. QED
    BY <2>1 DEF StoreInv, StoreType, SlotsInv, WritersInv, SeenInv
<1>2. CASE Next
  BY <1>2, WriteStepFits, StartFits, ChunkOperationsFit, PlainOperationsFit, AttemptOperationsFit,
     AbortFits, RecoverFits, CrashFits DEF Next
<1>3. QED
  BY <1>1, <1>2

\* What the store keeps true of every manifest on disk or on its way there,
\* through every interleaving of the two writers, kill and failing call: the
\* text of its revisions is of committed attempts, and its chunks are whole.
THEOREM StoreInvariant == Spec => []StoreInv
<1>1. Init => StoreInv
  BY InitFits
<1>2. StoreInv /\ [Next]_vars => StoreInv'
  BY NextFits
<1>3. QED
  BY <1>1, <1>2, PTL DEF Spec

LEMMA SurfacesCommitted ==
    ASSUME NEW m \in Manifests, NEW sh, Committed(m, sh), NEW disk, ValidOn(m, disk),
           NEW i \in ContentSurfaces(m)
    PROVE  Chunk(m, i).tag \in sh \cup {"plain"}
<1>1. ASSUME NEW v \in DOMAIN m.revs, NEW k \in m.revs[v].idx
      PROVE  Chunk(m, k).tag \in sh \cup {"plain"}
  BY <1>1 DEF Committed
<1>2. ASSUME NEW k \in CurrentIndices(m) PROVE Chunk(m, k).tag \in sh \cup {"plain"}
  <2>1. CASE m.current \in DOMAIN m.revs
    BY <1>1, <1>2, <2>1 DEF CurrentIndices
  <2>2. CASE m.current \notin DOMAIN m.revs
    BY <1>2, <2>2, SegmentsFine DEF CurrentIndices
  <2>3. QED
    BY <2>1, <2>2
<1>3. ASSUME NEW k \in CleanedIndices(m) PROVE Chunk(m, k).tag \in sh \cup {"plain"}
  <2>1. m.cleaned # 0 /\ k \in m.revs[m.cleaned].idx
    BY <1>3 DEF CleanedIndices
  <2>2. m.cleaned \in DOMAIN m.revs
    BY <2>1 DEF ValidOn, SelectionValid
  <2>3. QED
    BY <1>1, <2>1, <2>2
<1>4. ASSUME NEW k \in Indices(m), Chunk(m, k).kind \in {"text", "audio"}
      PROVE  Chunk(m, k).tag = "plain"
  <2>1. Chunk(m, k) \in Chunks
    BY ChunkOf
  <2>2. Chunk(m, k).tag \notin Attempts
    BY <1>4 DEF ValidOn, ChunkDescriptorsValid
  <2>3. QED
    BY <1>4, <2>1, <2>2 DEF Chunks, Tags
<1>5. ASSUME NEW k \in ReadManifestChunks(m) PROVE Chunk(m, k).tag \in sh \cup {"plain"}
  <2>1. k \in Indices(m) /\ Chunk(m, k).kind # "raw" /\ ~IsUncommittedAttemptChunk(m, k)
    BY <1>5 DEF ReadManifestChunks
  <2>2. Chunk(m, k) \in Chunks
    BY <2>1, ChunkOf
  <2>3. CASE Chunk(m, k).kind = "segment" /\ k \in CommittedIndices(m)
    BY <1>1, <2>3 DEF CommittedIndices
  <2>4. CASE Chunk(m, k).kind \in {"text", "audio"}
    BY <1>4, <2>1, <2>4
  <2>5. QED
    BY <2>1, <2>2, <2>3, <2>4 DEF Chunks, IsUncommittedAttemptChunk
<1>6. ASSUME NEW k \in TranscriptSegments(m) PROVE Chunk(m, k).tag \in sh \cup {"plain"}
  BY <1>2, <1>6 DEF TranscriptSegments
<1>7. CASE i \in ReadManifestChunks(m)
  BY <1>5, <1>7
<1>8. CASE i \in TranscriptSegments(m)
  BY <1>6, <1>8
<1>9. CASE i \in TranscriptForLocalAi(m)
  BY <1>3, <1>6, <1>9 DEF TranscriptForLocalAi
<1>10. CASE i \in SearchableRows(m)
  BY <1>3, <1>4, <1>6, <1>10 DEF SearchableRows
<1>11. CASE i \in ExportedRows(m)
  BY <1>5, <1>6, <1>11 DEF ExportedRows
<1>12. CASE \E v \in DOMAIN m.revs : i \in RevisionPreview(m, v)
  BY <1>1, <1>12 DEF RevisionPreview
<1>13. QED
  BY <1>7, <1>8, <1>9, <1>10, <1>11, <1>12 DEF ContentSurfaces

LEMMA ComparisonOwned ==
    ASSUME NEW m \in Manifests, NEW disk, ValidOn(m, disk), NEW v \in DOMAIN m.revs,
           NEW i \in ComparisonView(m, v)
    PROVE  Chunk(m, i).tag = "raw" /\ \A u \in DOMAIN m.revs \ {v} : i \notin m.revs[u].raw
<1>1. i \in m.revs[v].raw /\ i \notin NoRaw
  BY DEF ComparisonView
<1>2. \A u \in DOMAIN m.revs : RawIndicesValid(m, u)
  BY DEF ValidOn, RevisionsValid
<1>3. i \in Indices(m) /\ Chunk(m, i).kind = "raw"
  BY <1>1, <1>2 DEF RawIndicesValid
<1>4. Chunk(m, i).tag = "raw"
  BY <1>3, ChunkOf DEF Chunks
<1>5. DOMAIN m.revs \subseteq Nat
  BY DEF Manifests
<1>6. ASSUME NEW u \in DOMAIN m.revs \ {v} PROVE i \notin m.revs[u].raw
  <2>1. SUFFICES ASSUME i \in m.revs[u].raw PROVE FALSE
    OBVIOUS
  <2>2. m.revs[u].raw # NoRaw /\ m.revs[v].raw # NoRaw
    BY <1>1, <2>1
  <2>3. u < v \/ v < u
    BY <1>5
  <2>4. m.revs[u].raw \cap m.revs[v].raw \subseteq NoRaw
    BY <1>2, <2>2, <2>3 DEF RawIndicesValid
  <2>5. QED
    BY <1>1, <2>1, <2>4
<1>7. QED
  BY <1>4, <1>6

\* Text of an attempt that never reached its commit is on no read, page, search
\* row, export, revision or model prompt, and raw text only in the comparison
\* of the revision that owns it: after any number of kills and failing calls,
\* however recovery rebuilt the manifest, whichever of the three names a read
\* ends with, and also when the unguarded receipt of a recap overlaps another
\* write.
THEOREM UncommittedIsInvisible == Spec => []UncommittedInvisible
<1>1. StoreInv => UncommittedInvisible
  <2>1. SUFFICES ASSUME StoreInv, NEW m \in Found
                 PROVE  /\ \A i \in ContentSurfaces(m) : Chunk(m, i).tag \in shown \cup {"plain"}
                        /\ \A v \in DOMAIN m.revs : \A i \in ComparisonView(m, v) :
                              /\ Chunk(m, i).tag = "raw"
                              /\ \A u \in DOMAIN m.revs \ {v} : i \notin m.revs[u].raw
    BY DEF UncommittedInvisible
  <2>2. m \in Manifests /\ ValidOn(m, files) /\ Committed(m, shown)
    BY <2>1, FoundFits DEF Fine
  <2>3. QED
    BY <2>2, SurfacesCommitted, ComparisonOwned
<1>2. QED
  BY <1>1, StoreInvariant, PTL

\* The bytes of every chunk an operation reported as stored stay on disk,
\* short of an abort and of raw transcripts, whatever fails or overlaps.
THEOREM StoredBytesStay == Spec => []ChunkBytesKept
<1>1. StoreInv => ChunkBytesKept
  BY DEF StoreInv, SeenInv, WholeOn, ChunkBytesKept
<1>2. QED
  BY <1>1, StoreInvariant, PTL

-----------------------------------------------------------------------------
(* The history *)

\* Every revision but a promoted legacy one has exactly one receipt, and no
\* receipt names a revision to come.
Audited(m) ==
    /\ \A n \in DOMAIN m.receipts : m.receipts[n].rev \in 0..Len(m.revs)
    /\ \A v \in DOMAIN m.revs : m.revs[v].kind # "legacy" =>
          \E n \in DOMAIN m.receipts : \A k \in DOMAIN m.receipts : m.receipts[k].rev = v <=> k = n

Sound(m) == Len(m.chunks) <= MaxChunks /\ RawOwned(m) /\ Audited(m)

Jobs == [pc : {"transcription", "review", "cleanup"}, base : Nat]

SoundInv ==
    /\ \A s \in Slots : slots[s] \notin {Absent, Torn} => Sound(slots[s])
    /\ \A f \in files : f.index < MaxChunks
    /\ \A t \in Writers : writer[t] # Idle =>
          Sound(writer[t].doc) /\ \A n \in DOMAIN writer[t].adds : writer[t].adds[n].index < MaxChunks
    /\ att \in [Attempts -> {Idle} \cup Jobs]
    /\ up \in BOOLEAN /\ rebuilt \in BOOLEAN /\ faults \in Nat

LEMMA SoundKept ==
    ASSUME NEW m \in Manifests, NEW d \in Manifests, Sound(m),
           d.chunks = m.chunks, d.revs = m.revs, NEW k, k.rev = 0,
           d.receipts = m.receipts \/ d.receipts = Append(m.receipts, k)
    PROVE  Sound(d)
<1>1. m.receipts \in Seq(Receipts) /\ m.revs \in Seq(Revisions) /\ m.chunks \in Seq(Chunks)
  BY DEF Manifests
<1>2. Len(d.chunks) <= MaxChunks /\ RawOwned(d)
  BY DEF Sound, RawOwned, OwnedRaw, Indices, Chunk
<1>3. /\ \A n \in DOMAIN m.receipts : n \in DOMAIN d.receipts /\ d.receipts[n] = m.receipts[n]
      /\ \A n \in DOMAIN d.receipts : n \in DOMAIN m.receipts \/ d.receipts[n].rev = 0
  <2>1. CASE d.receipts = m.receipts
    BY <2>1
  <2>2. CASE d.receipts = Append(m.receipts, k)
    <3>1. /\ DOMAIN d.receipts = 1..(Len(m.receipts) + 1) /\ DOMAIN m.receipts = 1..Len(m.receipts)
          /\ d.receipts[Len(m.receipts) + 1] = k /\ Len(m.receipts) \in Nat
          /\ \A n \in 1..Len(m.receipts) : d.receipts[n] = m.receipts[n]
      BY <1>1, <2>2
    <3>2. \A n \in 1..(Len(m.receipts) + 1) : n \in 1..Len(m.receipts) \/ n = Len(m.receipts) + 1
      BY <3>1
    <3>3. QED
      BY <3>1, <3>2
  <2>3. QED
    BY <2>1, <2>2
<1>4. Audited(m)
  BY DEF Sound
<1>5. \A n \in DOMAIN d.receipts : d.receipts[n].rev \in 0..Len(d.revs)
  BY <1>1, <1>3, <1>4 DEF Audited
<1>6. ASSUME NEW v \in DOMAIN d.revs, d.revs[v].kind # "legacy"
      PROVE  \E n \in DOMAIN d.receipts : \A j \in DOMAIN d.receipts : d.receipts[j].rev = v <=> j = n
  <2>1. v \in 1..Len(m.revs) /\ v # 0
    BY <1>1, <1>6
  <2>2. PICK n \in DOMAIN m.receipts : \A j \in DOMAIN m.receipts : m.receipts[j].rev = v <=> j = n
    BY <1>4, <1>6 DEF Audited
  <2>3. \A j \in DOMAIN d.receipts : d.receipts[j].rev = v <=> j = n
    BY <1>3, <2>1, <2>2
  <2>4. QED
    BY <1>3, <2>3
<1>7. QED
  BY <1>2, <1>5, <1>6 DEF Sound, Audited

LEMMA SoundAdds ==
    ASSUME NEW m \in Manifests, Sound(m), Len(m.chunks) < MaxChunks,
           NEW kind \in {"text", "audio", "segment"}, NEW tag,
           AddChunk(m, kind, tag) \in Manifests
    PROVE  Sound(AddChunk(m, kind, tag))
<1>1. PICK d, c : d = AddChunk(m, kind, tag) /\ c = Descriptor(kind, tag, TRUE)
  OBVIOUS
<1>2. m.chunks \in Seq(Chunks) /\ MaxChunks \in Nat /\ c.kind # "raw"
  BY <1>1, StoreConstants DEF Manifests, Descriptor
<1>3. d.chunks = Append(m.chunks, c) /\ d.revs = m.revs /\ d.receipts = m.receipts
  BY <1>1 DEF AddChunk, Manifests
<1>4. Len(d.chunks) <= MaxChunks
        /\ \A i \in Indices(d) : (i \in Indices(m) /\ Chunk(d, i) = Chunk(m, i)) \/ Chunk(d, i).kind # "raw"
  BY <1>2, <1>3 DEF Indices, Chunk
<1>5. RawOwned(d)
  BY <1>3, <1>4 DEF Sound, RawOwned, OwnedRaw
<1>6. Audited(d)
  BY <1>3 DEF Sound, Audited
<1>7. QED
  BY <1>1, <1>4, <1>5, <1>6 DEF Sound

LEMMA SoundLegacy ==
    ASSUME NEW m \in Manifests, Sound(m), PromoteLegacy(m) \in Manifests
    PROVE  Sound(PromoteLegacy(m))
<1>1. CASE PromoteLegacy(m) = m
  BY <1>1
<1>2. CASE PromoteLegacy(m) # m
  <2>1. PICK r, d : r = Revision("legacy", "initial", 0, CurrentIndices(m), NoRaw) /\ d = PromoteLegacy(m)
    OBVIOUS
  <2>2. m.revs = <<>> /\ d = [m EXCEPT !.revs = <<r>>, !.current = 1]
    BY <1>2, <2>1 DEF PromoteLegacy
  <2>3. d.revs = <<r>> /\ d.receipts = m.receipts /\ d.chunks = m.chunks
    BY <2>2 DEF Manifests
  <2>4. r.kind = "legacy" /\ DOMAIN <<r>> = {1} /\ Len(<<r>>) = 1 /\ <<r>>[1] = r
    BY <2>1 DEF Revision
  <2>5. DOMAIN m.revs = {} /\ Len(m.revs) = 0
    BY <2>2
  <2>6. RawOwned(d)
    BY <2>3, <2>5 DEF Sound, RawOwned, OwnedRaw, Indices, Chunk
  <2>7. Audited(d)
    <3>1. \A n \in DOMAIN m.receipts : m.receipts[n].rev \in 0..1
      BY <2>5 DEF Sound, Audited
    <3>2. \A n \in DOMAIN d.receipts : d.receipts[n].rev \in 0..Len(d.revs)
      BY <2>3, <2>4, <3>1
    <3>3. \A v \in DOMAIN d.revs : d.revs[v].kind = "legacy"
      BY <2>3, <2>4
    <3>4. QED
      BY <3>2, <3>3 DEF Audited
  <2>8. QED
    BY <2>1, <2>3, <2>6, <2>7 DEF Sound
<1>3. QED
  BY <1>1, <1>2

\* A revision enters with its receipt, and its raw chunk with it.
LEMMA SoundRevision ==
    ASSUME NEW m \in Manifests, NEW d \in Manifests, Sound(m), NEW r, NEW k, NEW c,
           d.revs = Append(m.revs, r), d.receipts = Append(m.receipts, k), k.rev = Len(m.revs) + 1,
           \/ d.chunks = m.chunks
           \/ /\ d.chunks = Append(m.chunks, c) /\ Len(m.chunks) < MaxChunks
              /\ Len(m.chunks) \in r.raw
    PROVE  Sound(d)
<1>1. m.receipts \in Seq(Receipts) /\ m.revs \in Seq(Revisions) /\ m.chunks \in Seq(Chunks)
      /\ MaxChunks \in Nat
  BY StoreConstants DEF Manifests
<1>2. Len(d.chunks) <= MaxChunks
  BY <1>1 DEF Sound
<1>3. /\ DOMAIN d.revs = 1..(Len(m.revs) + 1) /\ Len(d.revs) = Len(m.revs) + 1
      /\ d.revs[Len(m.revs) + 1] = r /\ \A v \in DOMAIN m.revs : d.revs[v] = m.revs[v]
  BY <1>1
<1>4. /\ DOMAIN d.receipts = 1..(Len(m.receipts) + 1)
      /\ d.receipts[Len(m.receipts) + 1] = k
      /\ \A n \in DOMAIN m.receipts : d.receipts[n] = m.receipts[n]
  BY <1>1
<1>5. DOMAIN m.revs = 1..Len(m.revs) /\ DOMAIN m.receipts = 1..Len(m.receipts)
      /\ Len(m.revs) \in Nat /\ Len(m.receipts) \in Nat
  BY <1>1
<1>6. RawOwned(d)
  <2>1. SUFFICES ASSUME NEW i \in Indices(d), Chunk(d, i).kind = "raw" PROVE i \in OwnedRaw(d)
    BY DEF RawOwned
  <2>2. CASE i \in Indices(m) /\ Chunk(d, i) = Chunk(m, i)
    <3>1. PICK v \in DOMAIN m.revs : i \in m.revs[v].raw \ NoRaw
      BY <2>1, <2>2 DEF Sound, RawOwned, OwnedRaw
    <3>2. v \in DOMAIN d.revs /\ d.revs[v] = m.revs[v]
      BY <1>3, <1>5
    <3>3. QED
      BY <3>1, <3>2 DEF OwnedRaw
  <2>3. CASE i = Len(m.chunks) /\ i \in r.raw
    <3>1. i \notin NoRaw /\ Len(m.revs) + 1 \in DOMAIN d.revs
      BY <1>1, <1>3, <1>5, <2>3 DEF NoRaw
    <3>2. QED
      BY <1>3, <2>3, <3>1 DEF OwnedRaw
  <2>4. CASE d.chunks = m.chunks
    BY <2>1, <2>2, <2>4 DEF Indices, Chunk
  <2>5. CASE d.chunks = Append(m.chunks, c) /\ Len(m.chunks) \in r.raw
    <3>1. i \in 0..Len(m.chunks)
      BY <1>1, <2>1, <2>5 DEF Indices
    <3>2. CASE i \in Indices(m)
      BY <1>1, <2>2, <2>5, <3>2 DEF Indices, Chunk
    <3>3. QED
      BY <1>1, <2>3, <2>5, <3>1, <3>2 DEF Indices
  <2>6. QED
    BY <2>4, <2>5
<1>7. Audited(m)
  BY DEF Sound
<1>8. \A n \in DOMAIN m.receipts : m.receipts[n].rev \in 0..Len(m.revs)
  BY <1>7 DEF Audited
<1>9. \A n \in DOMAIN d.receipts : d.receipts[n].rev \in 0..Len(d.revs)
  BY <1>3, <1>4, <1>5, <1>8
<1>10. ASSUME NEW v \in DOMAIN d.revs, d.revs[v].kind # "legacy"
       PROVE  \E n \in DOMAIN d.receipts : \A j \in DOMAIN d.receipts : d.receipts[j].rev = v <=> j = n
  <2>1. CASE v = Len(m.revs) + 1
    <3>1. \A j \in DOMAIN d.receipts : d.receipts[j].rev = v <=> j = Len(m.receipts) + 1
      BY <1>4, <1>5, <1>8, <2>1
    <3>2. Len(m.receipts) + 1 \in DOMAIN d.receipts
      BY <1>4, <1>5
    <3>3. QED
      BY <3>1, <3>2
  <2>2. CASE v \in DOMAIN m.revs
    <3>1. m.revs[v].kind # "legacy"
      BY <1>3, <1>10, <2>2
    <3>2. PICK n \in DOMAIN m.receipts : \A j \in DOMAIN m.receipts : m.receipts[j].rev = v <=> j = n
      BY <1>7, <2>2, <3>1 DEF Audited
    <3>3. \A j \in DOMAIN d.receipts : d.receipts[j].rev = v <=> j = n
      BY <1>4, <1>5, <2>2, <3>2
    <3>4. n \in DOMAIN d.receipts
      BY <1>4, <1>5
    <3>5. QED
      BY <3>3, <3>4
  <2>3. v \in 1..(Len(m.revs) + 1)
    BY <1>3
  <2>4. v = Len(m.revs) + 1 \/ v \in DOMAIN m.revs
    BY <1>5, <2>3
  <2>5. QED
    BY <2>1, <2>2, <2>4
<1>11. QED
  BY <1>2, <1>6, <1>9, <1>10 DEF Sound, Audited

\* What a step of a writer does, in outline.
LEMMA WriteShape ==
    ASSUME StoreInv, NEW t \in Writers, WriteStep(t)
    PROVE  /\ writer[t] \in Operations
           /\ slots' \in {slots, CreateTmp(slots), SyncTmp(slots, writer[t].doc), RemoveBak(slots),
                          MoveAside(slots), Promote(slots), RestoreBak(slots, writer[t].had)}
           /\ \A f \in files' : f \in files \/ (writer[t].adds # <<>> /\ f.index = writer[t].adds[1].index)
           /\ \/ writer' = [writer EXCEPT ![t] = Idle]
              \/ \E w \in Operations : /\ writer' = [writer EXCEPT ![t] = w]
                                       /\ w.doc = writer[t].doc /\ w.adds = writer[t].adds
           /\ UNCHANGED <<att, up, rebuilt>>
           /\ faults' = faults \/ Fault
<1>1. writer[t].pc \in Pcs /\ UNCHANGED <<att, up, rebuilt>>
  BY DEF WriteStep, CreateChunk, FlushChunk, CreateManifestTmp, SyncManifestTmp, RemoveOldBackup,
     MoveManifestAside, PromoteManifest, FinishWrite, FailCall, GiveUp, Pcs
<1>2. writer[t] \in Operations /\ OperationOK(writer[t], files, shown, dropped)
  BY <1>1, WriterAt DEF Pcs
<1>3. writer[t].adds \in Seq(ChunkFiles)
  BY <1>2 DEF Operations
<1>4. /\ slots' \in {slots, CreateTmp(slots), SyncTmp(slots, writer[t].doc), RemoveBak(slots),
                     MoveAside(slots), Promote(slots), RestoreBak(slots, writer[t].had)}
      /\ faults' = faults \/ Fault
  BY DEF WriteStep, CreateChunk, FlushChunk, CreateManifestTmp, SyncManifestTmp, RemoveOldBackup,
     MoveManifestAside, PromoteManifest, FinishWrite, FailCall
<1>5. \A f \in files' : f \in files \/ (writer[t].adds # <<>> /\ f.index = writer[t].adds[1].index)
  <2>1. CASE CreateChunk(t)
    <3>1. writer[t].adds # <<>> /\ Head(writer[t].adds) = writer[t].adds[1]
      BY <1>2, <1>3, <2>1 DEF OperationOK, CreateChunk
    <3>2. \A f \in files' : f \in files \/ f = ChunkFile(writer[t].adds[1].index, writer[t].adds[1].tag, FALSE)
      BY <2>1, <3>1 DEF CreateChunk
    <3>3. QED
      BY <3>1, <3>2 DEF ChunkFile
  <2>2. CASE FlushChunk(t)
    <3>1. writer[t].adds # <<>> /\ Head(writer[t].adds) = writer[t].adds[1]
      BY <1>2, <1>3, <2>2 DEF OperationOK, FlushChunk
    <3>2. \A f \in files' : f \in files \/ f = writer[t].adds[1]
      BY <2>2, <3>1 DEF FlushChunk
    <3>3. QED
      BY <3>1, <3>2
  <2>3. CASE ~CreateChunk(t) /\ ~FlushChunk(t)
    BY <2>3 DEF WriteStep, CreateManifestTmp, SyncManifestTmp, RemoveOldBackup,
       MoveManifestAside, PromoteManifest, FinishWrite, FailCall, GiveUp
  <2>4. QED
    BY <2>1, <2>2, <2>3
<1>6. \/ writer' = [writer EXCEPT ![t] = Idle]
      \/ \E p \in Pcs, had \in BOOLEAN : \/ writer' = [writer EXCEPT ![t].pc = p]
                                         \/ writer' = [writer EXCEPT ![t].pc = p, ![t].had = had]
  <2>1. ASSUME NEW p \in Pcs, Goto(t, p)
        PROVE  \E q \in Pcs : writer' = [writer EXCEPT ![t].pc = q]
    BY <2>1 DEF Goto
  <2>2. "flush" \in Pcs /\ "create" \in Pcs /\ "sync" \in Pcs /\ "unbackup" \in Pcs
        /\ "aside" \in Pcs /\ "promote" \in Pcs /\ "clean" \in Pcs
    BY DEF Pcs
  <2>3. \/ writer' = [writer EXCEPT ![t] = Idle]
        \/ \E p \in Pcs : Goto(t, p)
        \/ writer' = [writer EXCEPT ![t].pc = "promote", ![t].had = slots["main"] # Absent]
    BY <2>2 DEF WriteStep, CreateChunk, FlushChunk, CreateManifestTmp, SyncManifestTmp, RemoveOldBackup,
       MoveManifestAside, PromoteManifest, FinishWrite, FailCall, GiveUp
  <2>4. CASE writer' = [writer EXCEPT ![t].pc = "promote", ![t].had = slots["main"] # Absent]
    <3>1. PICK had \in BOOLEAN : had = (slots["main"] # Absent)
      OBVIOUS
    <3>2. QED
      BY <2>2, <2>4, <3>1
  <2>5. QED
    BY <2>1, <2>3, <2>4
<1>7. ASSUME NEW p \in Pcs, NEW had \in BOOLEAN,
             \/ writer' = [writer EXCEPT ![t].pc = p]
             \/ writer' = [writer EXCEPT ![t].pc = p, ![t].had = had]
      PROVE  \E w \in Operations : /\ writer' = [writer EXCEPT ![t] = w]
                                   /\ w.doc = writer[t].doc /\ w.adds = writer[t].adds
  <2>1. PICK w : /\ w = [writer[t] EXCEPT !.pc = p] \/ w = [writer[t] EXCEPT !.pc = p, !.had = had]
                 /\ writer' = [writer EXCEPT ![t] = w]
    BY <1>7, FilesNow
  <2>2. w \in Operations /\ w.doc = writer[t].doc /\ w.adds = writer[t].adds
    BY <1>2, <2>1 DEF Operations
  <2>3. QED
    BY <2>1, <2>2
<1>8. QED
  BY <1>1, <1>2, <1>4, <1>5, <1>6, <1>7

LEMMA SoundStep ==
    ASSUME StoreInv, SoundInv,
           \A s \in Slots : slots'[s] \notin {Absent, Torn} => Sound(slots'[s]),
           \A f \in files' : f.index < MaxChunks,
           \A t \in Writers : writer'[t] # Idle =>
              Sound(writer'[t].doc) /\ \A n \in DOMAIN writer'[t].adds : writer'[t].adds[n].index < MaxChunks,
           att' \in [Attempts -> {Idle} \cup Jobs],
           up' \in BOOLEAN, rebuilt' \in BOOLEAN, faults' = faults \/ Fault
    PROVE  SoundInv'
<1>1. faults' \in Nat
  BY DEF SoundInv, Fault
<1>2. QED
  BY <1>1 DEF SoundInv

LEMMA SoundWriteStep ==
    ASSUME StoreInv, SoundInv, NEW t \in Writers, WriteStep(t)
    PROVE  SoundInv'
<1>1. writer[t] \in Operations /\ writer[t] # Idle
  BY WriteShape DEF Operations, Pcs, Idle
<1>2. Sound(writer[t].doc) /\ \A n \in DOMAIN writer[t].adds : writer[t].adds[n].index < MaxChunks
  BY <1>1 DEF SoundInv
<1>3. writer[t].doc \in Manifests /\ writer[t].adds \in Seq(ChunkFiles) /\ StoreType
  BY <1>1 DEF Operations, StoreInv
<1>4. \A s \in Slots : slots'[s] \notin {Absent, Torn} => Sound(slots'[s])
  <2>1. PICK new, doc, had : new = slots' /\ doc = writer[t].doc /\ had = writer[t].had
    OBVIOUS
  <2>2. new \in {slots, CreateTmp(slots), SyncTmp(slots, doc), RemoveBak(slots),
                 MoveAside(slots), Promote(slots), RestoreBak(slots, had)}
    BY <2>1, WriteShape
  <2>3. \A s \in Slots : new[s] \in {Absent, Torn, slots["main"], slots["bak"], slots["tmp"]}
                         \/ new[s] = doc
    <3>1. doc \in Manifests
      BY <1>3, <2>1
    <3>2. QED
      BY <1>3, <2>2, <3>1, SlotSteps, SMTT(30)
  <2>4. \A s \in {"main", "bak", "tmp"} : slots[s] \notin {Absent, Torn} => Sound(slots[s])
    BY DEF SoundInv, Slots
  <2>5. QED
    BY <1>2, <2>1, <2>3, <2>4
<1>5. \A f \in files' : f.index < MaxChunks
  <2>1. writer[t].adds # <<>> => 1 \in DOMAIN writer[t].adds
    BY <1>3
  <2>2. QED
    BY <1>2, <2>1, WriteShape DEF SoundInv
<1>6. ASSUME NEW u \in Writers, writer'[u] # Idle
      PROVE  Sound(writer'[u].doc) /\ \A n \in DOMAIN writer'[u].adds : writer'[u].adds[n].index < MaxChunks
  <2>1. writer \in [Writers -> {Idle} \cup Operations]
    BY FilesNow
  <2>2. CASE writer' = [writer EXCEPT ![t] = Idle]
    BY <1>6, <2>1, <2>2 DEF SoundInv
  <2>3. ASSUME NEW w \in Operations, writer' = [writer EXCEPT ![t] = w],
               w.doc = writer[t].doc, w.adds = writer[t].adds
        PROVE  Sound(writer'[u].doc) /\ \A n \in DOMAIN writer'[u].adds : writer'[u].adds[n].index < MaxChunks
    <3>1. CASE u = t
      BY <1>2, <2>1, <2>3, <3>1
    <3>2. CASE u # t
      BY <1>6, <2>1, <2>3, <3>2 DEF SoundInv
    <3>3. QED
      BY <3>1, <3>2
  <2>4. QED
    BY <2>2, <2>3, WriteShape
<1>7. UNCHANGED <<att, up, rebuilt>> /\ (faults' = faults \/ Fault)
  BY WriteShape
<1>8. att' \in [Attempts -> {Idle} \cup Jobs] /\ up' \in BOOLEAN /\ rebuilt' \in BOOLEAN
  BY <1>7 DEF SoundInv
<1>9. QED
  BY <1>4, <1>5, <1>6, <1>7, <1>8, SoundStep

LEMMA SoundBegin ==
    ASSUME StoreInv, SoundInv, NEW t \in Writers, NEW op, NEW doc, NEW adds,
           Begin(t, op, doc, adds), Kept, Sound(doc), \A n \in DOMAIN adds : adds[n].index < MaxChunks,
           att' \in [Attempts -> {Idle} \cup Jobs]
    PROVE  SoundInv'
<1>1. PICK w : w = [pc |-> IF adds = <<>> THEN "create" ELSE "chunk",
                    op |-> op, doc |-> doc, adds |-> adds, had |-> FALSE]
  OBVIOUS
<1>2. /\ writer' = [writer EXCEPT ![t] = w] /\ w.doc = doc /\ w.adds = adds
      /\ UNCHANGED <<slots, files, up, rebuilt, faults>>
  BY <1>1 DEF Begin, Kept
<1>3. writer \in [Writers -> {Idle} \cup Operations]
  BY FilesNow
<1>4. ASSUME NEW u \in Writers, writer'[u] # Idle
      PROVE  Sound(writer'[u].doc) /\ \A n \in DOMAIN writer'[u].adds : writer'[u].adds[n].index < MaxChunks
  <2>1. CASE u = t
    BY <1>2, <1>3, <2>1
  <2>2. CASE u # t
    BY <1>2, <1>3, <1>4, <2>2 DEF SoundInv
  <2>3. QED
    BY <2>1, <2>2
<1>5. /\ \A s \in Slots : slots'[s] \notin {Absent, Torn} => Sound(slots'[s])
      /\ \A f \in files' : f.index < MaxChunks
      /\ up' \in BOOLEAN /\ rebuilt' \in BOOLEAN
  BY <1>2 DEF SoundInv
<1>6. QED
  BY <1>2, <1>4, <1>5, SoundStep

LEMMA FoundSound ==
    ASSUME StoreInv, SoundInv, NEW m \in Found
    PROVE  m \in Manifests /\ Sound(m) /\ ValidOn(m, files) /\ Fine(m, files, shown, dropped)
<1>1. PICK s \in Slots : m = slots[s] /\ slots[s] \notin {Absent, Torn}
  BY DEF Found, Usable
<1>2. QED
  BY <1>1, FoundFits DEF SoundInv

LEMMA ReadableSound ==
    ASSUME StoreInv, SoundInv, NEW m, m = Readable, m # Absent
    PROVE  m \in Found /\ m \in Manifests /\ Sound(m) /\ ValidOn(m, files) /\ Fine(m, files, shown, dropped)
<1>1. m \in Found
  BY ReadableFits
<1>2. QED
  BY <1>1, FoundSound

LEMMA AttemptsNow ==
    ASSUME SoundInv
    PROVE  /\ att \in [Attempts -> {Idle} \cup Jobs]
           /\ \A a \in Attempts : [att EXCEPT ![a] = Idle] \in [Attempts -> {Idle} \cup Jobs]
BY DEF SoundInv

LEMMA SoundChunkOperations ==
    ASSUME StoreInv, SoundInv,
           \/ WriteTextChunk \/ WriteAudioChunk \/ SaveNotes
           \/ \E tag \in Attempts \cup {"plain"} : WriteTranscriptSegment(tag)
    PROVE  SoundInv'
<1>1. PICK m : m = Readable
  OBVIOUS
<1>2. PICK kind \in {"text", "audio", "segment"}, tag \in Attempts \cup {"plain"} :
        /\ Begin("guarded", "chunk", AddChunk(m, kind, tag), NewFile(m, tag))
        /\ Open(m) /\ UNCHANGED att /\ Kept
  BY <1>1 DEF WriteTextChunk, WriteAudioChunk, SaveNotes, WriteTranscriptSegment
<1>3. m \in Manifests /\ Sound(m) /\ Fine(m, files, shown, dropped) /\ Len(m.chunks) < MaxChunks
  BY <1>1, <1>2, ReadableSound DEF Open
<1>4. tag \in Tags /\ tag # "raw"
  BY StoreConstants DEF Tags
<1>5. AddChunk(m, kind, tag) \in Manifests
  BY <1>3, <1>4, DocAdds
<1>6. Sound(AddChunk(m, kind, tag))
  BY <1>3, <1>5, SoundAdds
<1>7. \A n \in DOMAIN NewFile(m, tag) : NewFile(m, tag)[n].index < MaxChunks
  BY <1>3 DEF NewFile, ChunkFile
<1>8. PICK d, adds : d = AddChunk(m, kind, tag) /\ adds = NewFile(m, tag)
  OBVIOUS
<1>9. "guarded" \in Writers /\ att' \in [Attempts -> {Idle} \cup Jobs]
  BY <1>2, AttemptsNow DEF Writers
<1>10. QED
  BY <1>2, <1>6, <1>7, <1>8, <1>9, SoundBegin

LEMMA SoundKeeping ==
    ASSUME StoreInv, SoundInv, NEW m \in Found, NEW t \in Writers, NEW op,
           NEW d \in Manifests, d.chunks = m.chunks, d.revs = m.revs, NEW k, k.rev = 0,
           d.receipts = m.receipts \/ d.receipts = Append(m.receipts, k),
           Begin(t, op, d, <<>>), Kept, att' \in [Attempts -> {Idle} \cup Jobs]
    PROVE  SoundInv'
<1>1. Sound(d)
  BY FoundSound, SoundKept
<1>2. \A n \in DOMAIN <<>> : <<>>[n].index < MaxChunks
  OBVIOUS
<1>3. QED
  BY <1>1, <1>2, SoundBegin

LEMMA SoundPlainOperations ==
    ASSUME StoreInv, SoundInv,
           \/ Finish \/ MarkNeedsRecovery \/ AppendPrivacyEvent
           \/ \E v \in 1..MaxRevisions : SelectTranscriptRevision(v)
           \/ \E a \in Attempts : RecordFailure(a)
    PROVE  SoundInv'
<1>1. PICK m : m = Readable
  OBVIOUS
<1>2. m # Absent
  BY <1>1 DEF Finish, MarkNeedsRecovery, AppendPrivacyEvent, SelectTranscriptRevision,
     RecordFailure
<1>3. m \in Found /\ m \in Manifests /\ "guarded" \in Writers
  BY <1>1, <1>2, ReadableSound DEF Writers
<1>4. m.receipts \in Seq(Receipts) /\ m.revs \in Seq(Revisions) /\ m.current \in Nat
      /\ m.events + 1 \in Nat
  BY <1>3 DEF Manifests
<1>5. PICK none : none = Receipt("recap", "succeeded", 0, 0)
  OBVIOUS
<1>6. none.rev = 0
  BY <1>5 DEF Receipt
<1>7. ASSUME NEW op, NEW d,
             \/ d = [m EXCEPT !.state = "finished"] \/ d = [m EXCEPT !.state = "needsRecovery"]
             \/ d = [m EXCEPT !.events = @ + 1]
             \/ \E v \in 1..MaxRevisions : d = [m EXCEPT !.current = v],
             Begin("guarded", op, d, <<>>), Kept, UNCHANGED att
      PROVE  SoundInv'
  <2>1. d \in Manifests /\ d.chunks = m.chunks /\ d.revs = m.revs /\ d.receipts = m.receipts
    <3>1. CASE d = [m EXCEPT !.state = "finished"] \/ d = [m EXCEPT !.state = "needsRecovery"]
      BY <1>3, <3>1 DEF Manifests, States
    <3>2. CASE d = [m EXCEPT !.events = @ + 1]
      BY <1>3, <1>4, <3>2 DEF Manifests
    <3>3. ASSUME NEW v \in 1..MaxRevisions, d = [m EXCEPT !.current = v]
          PROVE  d \in Manifests /\ d.chunks = m.chunks /\ d.revs = m.revs /\ d.receipts = m.receipts
      <4>1. v \in Nat
        BY StoreConstants
      <4>2. QED
        BY <1>3, <3>3, <4>1 DEF Manifests
    <3>4. QED
      BY <1>7, <3>1, <3>2, <3>3
  <2>2. att' \in [Attempts -> {Idle} \cup Jobs]
    BY <1>7, AttemptsNow
  <2>3. QED
    BY <1>1, <1>2, <1>3, <1>6, <1>7, <2>1, <2>2, SoundKeeping
<1>8. ASSUME NEW t \in Writers, NEW op, NEW k \in Receipts, k.rev = 0,
             Begin(t, op, [m EXCEPT !.receipts = Append(@, k)], <<>>), Kept,
             att' \in [Attempts -> {Idle} \cup Jobs]
      PROVE  SoundInv'
  <2>1. PICK d : d = [m EXCEPT !.receipts = Append(@, k)]
    OBVIOUS
  <2>2. d \in Manifests /\ d.chunks = m.chunks /\ d.revs = m.revs
    BY <1>3, <1>8, <2>1, ReceiptFits
  <2>3. d.receipts = Append(m.receipts, k)
    BY <1>3, <2>1 DEF Manifests
  <2>4. QED
    BY <1>1, <1>2, <1>3, <1>8, <2>1, <2>2, <2>3, SoundKeeping
<1>9. CASE Finish \/ MarkNeedsRecovery
  BY <1>1, <1>7, <1>9 DEF Finish, MarkNeedsRecovery
<1>10. CASE AppendPrivacyEvent
  BY <1>1, <1>7, <1>10 DEF AppendPrivacyEvent
<1>11. CASE \E v \in 1..MaxRevisions : SelectTranscriptRevision(v)
  BY <1>1, <1>7, <1>11 DEF SelectTranscriptRevision
<1>12. CASE \E a \in Attempts : RecordFailure(a)
  <2>1. PICK a \in Attempts : RecordFailure(a)
    BY <1>12
  <2>2. PICK op, base : op = (IF att[a].pc = "cleanup" THEN "transcript-cleanup" ELSE "transcription")
                        /\ base = (IF att[a].pc = "cleanup" THEN att[a].base ELSE 0)
    OBVIOUS
  <2>3. op \in Processing /\ base \in Nat
    <3>1. att[a].pc = "cleanup" => att[a].base \in DOMAIN m.revs
      BY <1>1, <2>1 DEF RecordFailure
    <3>2. QED
      BY <1>4, <2>2, <3>1 DEF Processing
  <2>4. PICK k : k = Receipt(op, "failed", 0, base)
    OBVIOUS
  <2>5. k \in Receipts /\ k.rev = 0
    BY <2>3, <2>4 DEF Receipt, Receipts
  <2>6. /\ Begin("guarded", "failure", [m EXCEPT !.receipts = Append(@, k)], <<>>) /\ Kept
        /\ att' = [att EXCEPT ![a] = Idle]
    BY <1>1, <2>1, <2>2, <2>4 DEF RecordFailure
  <2>7. att' \in [Attempts -> {Idle} \cup Jobs]
    BY <2>6, AttemptsNow
  <2>8. QED
    BY <1>3, <1>8, <2>5, <2>6, <2>7
<1>13. QED
  BY <1>9, <1>10, <1>11, <1>12

LEMMA SoundRecap ==
    ASSUME StoreInv, SoundInv, RecordRecapReceipt
    PROVE  SoundInv'
<1>1. PICK m \in Found :
        /\ Begin("recap", "recap",
                 [m EXCEPT !.receipts = Append(@, Receipt("recap", "succeeded", 0, m.current))], <<>>)
        /\ UNCHANGED att /\ Kept
  BY DEF RecordRecapReceipt
<1>2. m \in Manifests /\ "recap" \in Writers
  BY FoundFits DEF Writers
<1>3. PICK k : k = Receipt("recap", "succeeded", 0, m.current)
  OBVIOUS
<1>4. k \in Receipts /\ k.rev = 0
  BY <1>2, <1>3 DEF Receipt, Receipts, Processing, Manifests
<1>5. PICK d : d = [m EXCEPT !.receipts = Append(@, k)]
  OBVIOUS
<1>6. d \in Manifests /\ d.chunks = m.chunks /\ d.revs = m.revs
  BY <1>2, <1>4, <1>5, ReceiptFits
<1>7. d.receipts = Append(m.receipts, k)
  BY <1>2, <1>5 DEF Manifests
<1>8. Begin("recap", "recap", d, <<>>) /\ Kept /\ att' \in [Attempts -> {Idle} \cup Jobs]
  BY <1>1, <1>3, <1>5, AttemptsNow
<1>9. QED
  BY <1>2, <1>4, <1>6, <1>7, <1>8, SoundKeeping

LEMMA SoundCommit ==
    ASSUME NEW m \in Manifests, Sound(m), NEW kind, NEW source, NEW parent, NEW op, NEW idx,
           NEW stored \in BOOLEAN, stored => Len(m.chunks) < MaxChunks,
           NEW d \in Manifests, d = CommitRevision(m, kind, source, parent, op, idx, stored)
    PROVE  Sound(d)
<1>1. PICK w, raw, c : /\ w = WithRaw(m, stored)
                       /\ raw = (IF stored THEN {Len(m.chunks)} ELSE {})
                       /\ c = Descriptor("raw", "raw", TRUE)
  OBVIOUS
<1>2. PICK r, k : /\ r = Revision(kind, source, parent, idx, raw)
                  /\ k = Receipt(op, "succeeded", Len(m.revs) + 1, parent)
  OBVIOUS
<1>3. r.raw = raw /\ k.rev = Len(m.revs) + 1
  BY <1>2 DEF Revision, Receipt
<1>4. d = [w EXCEPT !.revs = Append(@, r), !.current = Len(m.revs) + 1, !.receipts = Append(@, k)]
  BY <1>1, <1>2 DEF CommitRevision
<1>5. /\ w = m \/ w = [m EXCEPT !.chunks = Append(@, c)]
      /\ ~stored => w = m
      /\ w # m => stored
  BY <1>1 DEF WithRaw, AddChunk
<1>6. /\ w.revs = m.revs /\ w.receipts = m.receipts
      /\ DOMAIN w = DOMAIN m
      /\ w.chunks = m.chunks \/ (w.chunks = Append(m.chunks, c) /\ stored)
  BY <1>5 DEF Manifests
<1>7. /\ d.revs = Append(m.revs, r) /\ d.receipts = Append(m.receipts, k) /\ d.chunks = w.chunks
  BY <1>4, <1>5, <1>6 DEF Manifests
<1>8. d.chunks = m.chunks \/ (d.chunks = Append(m.chunks, c) /\ Len(m.chunks) < MaxChunks
                              /\ Len(m.chunks) \in r.raw)
  BY <1>1, <1>3, <1>6, <1>7
<1>9. QED
  BY <1>3, <1>7, <1>8, SoundRevision

LEMMA SoundCommitting ==
    ASSUME StoreInv, SoundInv, NEW m \in Manifests, NEW base \in Manifests, base.chunks = m.chunks,
           Fine(base, files, shown, dropped), Sound(base), NEW a \in Attempts,
           NEW kind \in {"legacy", "raw-asr", "normalized", "ai-cleaned"},
           NEW source \in {"initial", "reprocess", "review", "ai-cleanup"},
           NEW parent \in Nat, NEW op \in Processing, NEW stored \in BOOLEAN,
           stored => Len(m.chunks) < MaxChunks,
           Begin("guarded", "commit",
                 CommitRevision(base, kind, source, parent, op, SegmentsOf(m, a), stored),
                 IF stored THEN NewFile(m, "raw") ELSE <<>>),
           att' = [att EXCEPT ![a] = Idle], Kept
    PROVE  SoundInv'
<1>1. PICK idx, sh : idx = SegmentsOf(m, a) /\ sh = shown \cup {a}
  OBVIOUS
<1>2. Fine(base, files, sh, dropped)
  BY <1>1, FineGrows
<1>3. /\ idx \in SUBSET Nat
      /\ \A i \in idx : i \in Indices(base) /\ Chunk(base, i).tag \in sh \cup {"plain"}
  BY <1>1, SegmentsFine DEF Indices, Chunk
<1>4. CommitRevision(base, kind, source, parent, op, idx, stored) \in Manifests
  BY <1>2, <1>3, CommitFine, ZenonT(40)
<1>5. PICK d, adds : /\ d = CommitRevision(base, kind, source, parent, op, idx, stored)
                     /\ adds = IF stored THEN NewFile(m, "raw") ELSE <<>>
  OBVIOUS
<1>6. Sound(d)
  BY <1>4, <1>5, SoundCommit
<1>7. \A n \in DOMAIN adds : adds[n].index < MaxChunks
  <2>1. CASE stored
    BY <1>5, <2>1 DEF NewFile, ChunkFile
  <2>2. CASE ~stored
    BY <1>5, <2>2
  <2>3. QED
    BY <2>1, <2>2
<1>8. "guarded" \in Writers /\ att' \in [Attempts -> {Idle} \cup Jobs]
      /\ Begin("guarded", "commit", d, adds)
  BY <1>1, <1>5, AttemptsNow DEF Writers
<1>9. QED
  BY <1>6, <1>7, <1>8, SoundBegin

LEMMA SoundAttemptOperations ==
    ASSUME StoreInv, SoundInv, NEW a \in Attempts,
           \/ \E p \in {"transcription", "review", "cleanup"} : BeginAttempt(a, p)
           \/ \E stored \in BOOLEAN : CompleteTranscription(a, stored) \/ CompleteReview(a, stored)
           \/ CompleteCleanup(a)
    PROVE  SoundInv'
<1>1. PICK m : m = Readable
  OBVIOUS
<1>2. m # Absent
  BY <1>1 DEF BeginAttempt, CompleteTranscription, CompleteReview, CompleteCleanup, Committable
<1>3. m \in Manifests /\ Sound(m) /\ Fine(m, files, shown, dropped) /\ m.current \in Nat
  BY <1>1, <1>2, ReadableSound DEF Manifests
<1>4. ASSUME NEW p \in {"transcription", "review", "cleanup"}, BeginAttempt(a, p) PROVE SoundInv'
  <2>1. /\ att' = [att EXCEPT ![a] = [pc |-> p, base |-> m.current]]
        /\ UNCHANGED <<slots, files, writer, up, rebuilt, faults>>
    BY <1>1, <1>4 DEF BeginAttempt, Kept
  <2>2. [pc |-> p, base |-> m.current] \in Jobs
    BY <1>3 DEF Jobs
  <2>3. att' \in [Attempts -> {Idle} \cup Jobs]
    BY <2>1, <2>2, AttemptsNow
  <2>4. QED
    BY <2>1, <2>3 DEF SoundInv
<1>5. ASSUME NEW stored \in BOOLEAN, CompleteTranscription(a, stored) PROVE SoundInv'
  <2>1. PICK base : base = PromoteLegacy(m)
    OBVIOUS
  <2>2. base \in Manifests /\ base.chunks = m.chunks /\ Fine(base, files, shown, dropped)
    BY <1>3, <2>1, LegacyFine
  <2>3. Sound(base)
    BY <1>3, <2>1, <2>2, SoundLegacy
  <2>4. PICK source : source = IF base.revs = <<>> THEN "initial" ELSE "reprocess"
    OBVIOUS
  <2>5. /\ Begin("guarded", "commit",
                 CommitRevision(base, "raw-asr", source, 0, "transcription", SegmentsOf(m, a), stored),
                 IF stored THEN NewFile(m, "raw") ELSE <<>>)
        /\ att' = [att EXCEPT ![a] = Idle] /\ Kept /\ (stored => Len(m.chunks) < MaxChunks)
    BY <1>1, <1>5, <2>1, <2>4 DEF CompleteTranscription
  <2>6. source \in {"initial", "reprocess", "review", "ai-cleanup"} /\ "transcription" \in Processing
    BY <2>4 DEF Processing
  <2>7. QED
    BY <1>3, <2>2, <2>3, <2>5, <2>6, SoundCommitting
<1>6. ASSUME NEW stored \in BOOLEAN, CompleteReview(a, stored) PROVE SoundInv'
  <2>1. PICK parent : parent = m.current
    OBVIOUS
  <2>2. /\ Begin("guarded", "commit",
                 CommitRevision(m, "normalized", "review", parent, "protected-term-review",
                                SegmentsOf(m, a), stored),
                 IF stored THEN NewFile(m, "raw") ELSE <<>>)
        /\ att' = [att EXCEPT ![a] = Idle] /\ Kept /\ (stored => Len(m.chunks) < MaxChunks)
    BY <1>1, <1>6, <2>1 DEF CompleteReview
  <2>3. parent \in Nat /\ "protected-term-review" \in Processing
    BY <1>3, <2>1 DEF Processing
  <2>4. QED
    BY <1>3, <2>2, <2>3, SoundCommitting
<1>7. CASE CompleteCleanup(a)
  <2>1. m.revs \in Seq(Revisions) /\ m.receipts \in Seq(Receipts) /\ Len(m.revs) + 1 \in Nat
    BY <1>3 DEF Manifests
  <2>2. PICK r : r = Revision("ai-cleaned", "ai-cleanup", m.current, SegmentsOf(m, a), NoRaw)
    OBVIOUS
  <2>3. r \in Revisions
    BY <1>3, <2>2, SegmentsFine DEF Revision, Revisions, NoRaw
  <2>4. PICK k : k = Receipt("transcript-cleanup", "succeeded", Len(m.revs) + 1, m.current)
    OBVIOUS
  <2>5. k \in Receipts /\ k.rev = Len(m.revs) + 1
    BY <1>3, <2>1, <2>4 DEF Receipt, Receipts, Processing
  <2>6. PICK d : d = [m EXCEPT !.revs = Append(@, r), !.cleaned = Len(m.revs) + 1,
                               !.receipts = Append(@, k)]
    OBVIOUS
  <2>7. Append(m.revs, r) \in Seq(Revisions) /\ Append(m.receipts, k) \in Seq(Receipts)
    BY <2>1, <2>3, <2>5
  <2>8. /\ d \in Manifests /\ d.chunks = m.chunks
        /\ d.revs = Append(m.revs, r) /\ d.receipts = Append(m.receipts, k)
    BY <1>3, <2>1, <2>6, <2>7 DEF Manifests
  <2>9. Sound(d)
    BY <1>3, <2>5, <2>8, SoundRevision
  <2>10. Begin("guarded", "cleanup", d, <<>>) /\ att' = [att EXCEPT ![a] = Idle] /\ Kept
    BY <1>1, <1>7, <2>2, <2>4, <2>6 DEF CompleteCleanup
  <2>11. /\ "guarded" \in Writers /\ att' \in [Attempts -> {Idle} \cup Jobs]
         /\ \A n \in DOMAIN <<>> : <<>>[n].index < MaxChunks
    BY <2>10, AttemptsNow DEF Writers
  <2>12. QED
    BY <2>9, <2>10, <2>11, SoundBegin
<1>8. QED
  BY <1>4, <1>5, <1>6, <1>7

LEMMA SoundOthers ==
    ASSUME StoreInv, SoundInv, Start \/ AbortUnfinished \/ Crash
    PROVE  SoundInv'
<1>1. CASE Start
  <2>1. PICK d : d = EmptyManifest("recording")
    OBVIOUS
  <2>2. d.chunks = <<>> /\ d.revs = <<>> /\ d.receipts = <<>>
    BY <2>1 DEF EmptyManifest
  <2>3. DOMAIN <<>> = {} /\ Len(<<>>) = 0 /\ Indices(d) = {}
    BY <2>2 DEF Indices
  <2>4. Sound(d)
    BY <2>2, <2>3, StoreConstants DEF Sound, RawOwned, Audited
  <2>5. /\ Begin("guarded", "start", d, <<>>) /\ Kept /\ UNCHANGED att /\ "guarded" \in Writers
        /\ \A n \in DOMAIN <<>> : <<>>[n].index < MaxChunks
    BY <1>1, <2>1, <2>3 DEF Start, Writers
  <2>6. QED
    BY <2>4, <2>5, AttemptsNow, SoundBegin
<1>2. CASE AbortUnfinished
  <2>1. /\ slots' \in {slots, NoSlots} /\ files' \in SUBSET files
        /\ att' = [a \in Attempts |-> Idle] /\ UNCHANGED <<writer, up, rebuilt>>
        /\ faults' = faults \/ Fault
    BY <1>2 DEF AbortUnfinished
  <2>2. \A s \in Slots : slots'[s] \notin {Absent, Torn} => Sound(slots'[s])
    BY <2>1 DEF NoSlots, SoundInv
  <2>3. \A f \in files' : f.index < MaxChunks
    BY <2>1 DEF SoundInv
  <2>4. \A t \in Writers : writer'[t] # Idle =>
          Sound(writer'[t].doc) /\ \A n \in DOMAIN writer'[t].adds : writer'[t].adds[n].index < MaxChunks
    BY <2>1 DEF SoundInv
  <2>5. att' \in [Attempts -> {Idle} \cup Jobs] /\ up' \in BOOLEAN /\ rebuilt' \in BOOLEAN
    BY <2>1 DEF SoundInv
  <2>6. QED
    BY <2>1, <2>2, <2>3, <2>4, <2>5, SoundStep
<1>3. CASE Crash
  <2>1. /\ writer' = [t \in Writers |-> Idle] /\ att' = [a \in Attempts |-> Idle]
        /\ up' = FALSE /\ Fault /\ UNCHANGED <<slots, files, rebuilt>>
    BY <1>3 DEF Crash
  <2>2. /\ \A s \in Slots : slots'[s] \notin {Absent, Torn} => Sound(slots'[s])
        /\ \A f \in files' : f.index < MaxChunks
        /\ \A t \in Writers : writer'[t] = Idle
        /\ att' \in [Attempts -> {Idle} \cup Jobs] /\ up' \in BOOLEAN /\ rebuilt' \in BOOLEAN
    BY <2>1 DEF SoundInv
  <2>3. QED
    BY <2>1, <2>2, SoundStep
<1>4. QED
  BY <1>1, <1>2, <1>3

LEMMA ScannedRaw ==
    ASSUME NEW disk, disk \subseteq ChunkFiles, IsFiniteSet(disk), ScanOK(disk),
           NEW d, d.chunks = ScanChunks(disk), NEW i \in Indices(d), Chunk(d, i).kind = "raw"
    PROVE  \E f \in disk : f.index = i /\ f.tag = "raw"
<1>1. d.chunks \in Seq(Chunks) /\ Cardinality(disk) \in Nat /\ Len(d.chunks) = Cardinality(disk)
  BY ScanFits, FS_CardinalityType
<1>2. i \in Nat /\ i + 1 \in 1..Cardinality(disk) /\ (i + 1) - 1 = i
  BY <1>1 DEF Indices
<1>3. d.chunks[i + 1] \in Chunks /\ d.chunks[i + 1].kind = "raw"
  BY <1>1, <1>2 DEF Chunk
<1>4. \A n \in 1..Cardinality(disk) : \E f \in disk :
          f.index = n - 1 /\ f.whole = TRUE /\ ScanChunks(disk)[n].tag = f.tag
  BY ScanFits, Zenon
<1>5. PICK f \in disk : f.index = i /\ d.chunks[i + 1].tag = f.tag
  BY <1>2, <1>4
<1>6. QED
  BY <1>3, <1>5 DEF Chunks

LEMMA ScannedLength ==
    ASSUME NEW disk, disk \subseteq ChunkFiles, IsFiniteSet(disk), ScanOK(disk),
           \A f \in disk : f.index < MaxChunks
    PROVE  Len(ScanChunks(disk)) <= MaxChunks
<1>1. Cardinality(disk) \in Nat /\ Len(ScanChunks(disk)) = Cardinality(disk) /\ MaxChunks \in Nat
  BY ScanFits, FS_CardinalityType, StoreConstants
<1>2. CASE Cardinality(disk) = 0
  BY <1>1, <1>2
<1>3. CASE Cardinality(disk) # 0
  <2>1. Cardinality(disk) - 1 \in 0..(Cardinality(disk) - 1)
    BY <1>1, <1>3
  <2>2. PICK f \in disk : f.index = Cardinality(disk) - 1
    BY <2>1 DEF ScanOK
  <2>3. QED
    BY <1>1, <2>2
<1>4. QED
  BY <1>2, <1>3

\* What recovery begins to write, when it does.
RecoverWrites(loaded, left, chunks, state) ==
    /\ loaded = IF Readable # Absent THEN Readable ELSE ManifestFromChunks(files)
    /\ left = files \ UnownedRawFiles(loaded, files)
    /\ \/ chunks = ScanChunks(left) /\ rebuilt'
       \/ /\ chunks = loaded.chunks
          /\ \A f \in UnownedRawFiles(loaded, files) : f.index \notin Indices(loaded)
    /\ state = (IF loaded.state = "recording" THEN "needsRecovery" ELSE loaded.state)
    /\ ScanOK(files) /\ ScanOK(left) /\ files' = left
    /\ Readable = Absent => rebuilt'
    /\ writer' = [writer EXCEPT !["guarded"] =
          [pc |-> "create", op |-> "recover", adds |-> <<>>, had |-> FALSE,
           doc |-> [loaded EXCEPT !.chunks = chunks, !.state = state]]]

LEMMA RecoverShape ==
    ASSUME SoundInv, Recover
    PROVE  /\ Free("guarded") /\ (overlapped' \/ Free("recap"))
           /\ UNCHANGED <<slots, att, seen, shown, dropped, faults>> /\ up' = TRUE
           /\ rebuilt' \in BOOLEAN /\ (rebuilt => rebuilt')
           /\ \/ \E loaded, left :
                   /\ writer' = writer /\ UNCHANGED rebuilt
                   /\ loaded = IF Readable # Absent THEN Readable ELSE ManifestFromChunks(files)
                   /\ left = files \ UnownedRawFiles(loaded, files)
                   /\ files' \in {files, left}
              \/ \E loaded, left, chunks, state : RecoverWrites(loaded, left, chunks, state)
<1>1. PICK loaded, unowned, left :
        /\ loaded = IF Readable # Absent THEN Readable ELSE ManifestFromChunks(files)
        /\ unowned = UnownedRawFiles(loaded, files)
        /\ left = files \ unowned
  OBVIOUS
<1>2. PICK listed, scanned : /\ listed = (\E f \in unowned : f.index \in Indices(loaded))
                             /\ scanned = ScanChunks(left)
  OBVIOUS
<1>3. PICK adopt : adopt = ((unowned # {} /\ listed) \/ Len(scanned) > Len(loaded.chunks))
  OBVIOUS
<1>4. PICK chunks, state :
        /\ chunks = (IF adopt THEN scanned ELSE loaded.chunks)
        /\ state = (IF loaded.state = "recording" THEN "needsRecovery" ELSE loaded.state)
  OBVIOUS
<1>5. /\ Free("guarded") /\ (overlapped' \/ Free("recap"))
      /\ UNCHANGED <<slots, att, seen, shown, dropped, faults>> /\ up' = TRUE
  BY DEF Recover, Meet, Writers
<1>6. \/ writer' = writer /\ UNCHANGED rebuilt /\ files' \in {files, left}
      \/ /\ ScanOK(files) /\ ScanOK(left) /\ files' = left
         /\ rebuilt' = (rebuilt \/ adopt \/ Readable = Absent)
         /\ writer' = [writer EXCEPT !["guarded"] =
              [pc |-> "create", op |-> "recover", adds |-> <<>>, had |-> FALSE,
               doc |-> [loaded EXCEPT !.chunks = chunks, !.state = state]]]
  BY <1>1, <1>2, <1>3, <1>4 DEF Recover
<1>7. CASE writer' = writer /\ UNCHANGED rebuilt /\ files' \in {files, left}
  BY <1>1, <1>5, <1>7 DEF SoundInv
<1>8. CASE /\ ScanOK(files) /\ ScanOK(left) /\ files' = left
           /\ rebuilt' = (rebuilt \/ adopt \/ Readable = Absent)
           /\ writer' = [writer EXCEPT !["guarded"] =
                [pc |-> "create", op |-> "recover", adds |-> <<>>, had |-> FALSE,
                 doc |-> [loaded EXCEPT !.chunks = chunks, !.state = state]]]
  <2>1. adopt \in BOOLEAN
    BY <1>3
  <2>2. rebuilt' \in BOOLEAN /\ (rebuilt => rebuilt') /\ (adopt => rebuilt') /\ (Readable = Absent => rebuilt')
    BY <1>8, <2>1 DEF SoundInv
  <2>3. \/ chunks = ScanChunks(left) /\ rebuilt'
        \/ chunks = loaded.chunks /\ \A f \in unowned : f.index \notin Indices(loaded)
    <3>1. CASE adopt
      BY <1>2, <1>4, <2>2, <3>1
    <3>2. CASE ~adopt
      BY <1>2, <1>3, <1>4, <3>2
    <3>3. QED
      BY <3>1, <3>2
  <2>4. RecoverWrites(loaded, left, chunks, state)
    BY <1>1, <1>4, <1>8, <2>2, <2>3 DEF RecoverWrites
  <2>5. QED
    BY <1>5, <2>2, <2>4
<1>9. QED
  BY <1>6, <1>7, <1>8

LEMMA SoundRecover ==
    ASSUME StoreInv, SoundInv, Recover
    PROVE  SoundInv'
<1>1. /\ UNCHANGED <<slots, att>> /\ faults' = faults /\ up' \in BOOLEAN /\ rebuilt' \in BOOLEAN
  BY RecoverShape
<1>2. /\ \A s \in Slots : slots'[s] \notin {Absent, Torn} => Sound(slots'[s])
      /\ att' \in [Attempts -> {Idle} \cup Jobs]
  BY <1>1 DEF SoundInv
<1>3. ASSUME NEW loaded, NEW left, writer' = writer, left = files \ UnownedRawFiles(loaded, files),
             files' \in {files, left}
      PROVE  SoundInv'
  <2>1. \A f \in files' : f.index < MaxChunks
    BY <1>3 DEF SoundInv
  <2>2. \A t \in Writers : writer'[t] # Idle =>
          Sound(writer'[t].doc) /\ \A n \in DOMAIN writer'[t].adds : writer'[t].adds[n].index < MaxChunks
    BY <1>3 DEF SoundInv
  <2>3. QED
    BY <1>1, <1>2, <2>1, <2>2, SoundStep
<1>4. ASSUME NEW loaded, NEW left, NEW chunks, NEW state, RecoverWrites(loaded, left, chunks, state)
      PROVE  SoundInv'
  <2>1. /\ left = files \ UnownedRawFiles(loaded, files) /\ ScanOK(files) /\ ScanOK(left) /\ files' = left
        /\ loaded = IF Readable # Absent THEN Readable ELSE ManifestFromChunks(files)
    BY <1>4 DEF RecoverWrites
  <2>2. files \subseteq ChunkFiles /\ IsFiniteSet(files) /\ left \subseteq ChunkFiles /\ IsFiniteSet(left)
    BY <2>1, FilesNow, FS_Subset
  <2>3. (\A f \in files : f.index < MaxChunks) /\ (\A f \in left : f.index < MaxChunks)
    BY <2>1 DEF SoundInv
  <2>4. \A f \in left : f.tag = "raw" => f.index \in OwnedRaw(loaded)
    BY <2>1 DEF UnownedRawFiles
  <2>5. PICK d : d = [loaded EXCEPT !.chunks = chunks, !.state = state]
    OBVIOUS
  <2>6. ASSUME chunks = ScanChunks(left), d.chunks = chunks, OwnedRaw(d) = OwnedRaw(loaded)
        PROVE  RawOwned(d) /\ Len(d.chunks) <= MaxChunks
    <3>1. ASSUME NEW i \in Indices(d), Chunk(d, i).kind = "raw" PROVE i \in OwnedRaw(d)
      <4>1. PICK f \in left : f.index = i /\ f.tag = "raw"
        BY <2>1, <2>2, <2>6, <3>1, ScannedRaw
      <4>2. QED
        BY <2>4, <2>6, <4>1
    <3>2. QED
      BY <2>1, <2>2, <2>3, <2>6, <3>1, ScannedLength DEF RawOwned
  <2>7. ASSUME Readable # Absent PROVE Sound(d)
    <3>1. loaded \in Manifests /\ Sound(loaded)
      BY <2>1, <2>7, ReadableSound
    <3>2. d.chunks = chunks /\ d.revs = loaded.revs /\ d.receipts = loaded.receipts
      BY <2>5, <3>1 DEF Manifests
    <3>3. Audited(d) /\ OwnedRaw(d) = OwnedRaw(loaded)
      BY <3>1, <3>2 DEF Sound, Audited, OwnedRaw
    <3>4. CASE chunks = loaded.chunks
      <4>1. Indices(d) = Indices(loaded) /\ \A i \in Indices(d) : Chunk(d, i) = Chunk(loaded, i)
        BY <3>2, <3>4 DEF Indices, Chunk
      <4>2. QED
        BY <3>1, <3>2, <3>3, <3>4, <4>1 DEF Sound, RawOwned
    <3>5. CASE chunks = ScanChunks(left)
      BY <2>6, <3>2, <3>3, <3>5 DEF Sound
    <3>6. QED
      BY <1>4, <3>4, <3>5 DEF RecoverWrites
  <2>8. ASSUME Readable = Absent PROVE Sound(d)
    <3>1. loaded = [EmptyManifest("needsRecovery") EXCEPT !.chunks = ScanChunks(files)]
      BY <2>1, <2>8 DEF ManifestFromChunks
    <3>2. loaded.chunks = ScanChunks(files) /\ loaded.revs = <<>> /\ loaded.receipts = <<>>
          /\ d.chunks = chunks /\ d.revs = <<>> /\ d.receipts = <<>>
      BY <2>5, <3>1 DEF EmptyManifest
    <3>3. DOMAIN <<>> = {}
      OBVIOUS
    <3>4. Audited(d) /\ OwnedRaw(loaded) = {} /\ OwnedRaw(d) = {}
      BY <3>2, <3>3 DEF Audited, OwnedRaw
    <3>5. CASE chunks = ScanChunks(left)
      BY <2>6, <3>2, <3>4, <3>5 DEF Sound
    <3>6. CASE /\ chunks = loaded.chunks
               /\ \A f \in UnownedRawFiles(loaded, files) : f.index \notin Indices(loaded)
      <4>1. Indices(d) = Indices(loaded) /\ d.chunks = ScanChunks(files)
        BY <3>2, <3>6 DEF Indices
      <4>2. RawOwned(d)
        <5>1. SUFFICES ASSUME NEW i \in Indices(d), Chunk(d, i).kind = "raw" PROVE FALSE
          BY DEF RawOwned
        <5>2. PICK f \in files : f.index = i /\ f.tag = "raw"
          BY <2>1, <2>2, <4>1, <5>1, ScannedRaw
        <5>3. f \in UnownedRawFiles(loaded, files)
          BY <3>4, <5>2 DEF UnownedRawFiles
        <5>4. QED
          BY <3>6, <4>1, <5>1, <5>2, <5>3
      <4>3. Len(d.chunks) <= MaxChunks
        BY <2>1, <2>2, <2>3, <4>1, ScannedLength
      <4>4. QED
        BY <3>4, <4>2, <4>3 DEF Sound
    <3>7. QED
      BY <1>4, <3>5, <3>6 DEF RecoverWrites
  <2>9. PICK w : w = [pc |-> "create", op |-> "recover", adds |-> <<>>, had |-> FALSE, doc |-> d]
    OBVIOUS
  <2>10. writer' = [writer EXCEPT !["guarded"] = w] /\ w.doc = d /\ w.adds = <<>>
    BY <1>4, <2>5, <2>9 DEF RecoverWrites
  <2>11. ASSUME NEW u \in Writers, writer'[u] # Idle
         PROVE  Sound(writer'[u].doc) /\ \A n \in DOMAIN writer'[u].adds : writer'[u].adds[n].index < MaxChunks
    <3>1. CASE u = "guarded"
      <4>1. writer'[u] = w /\ DOMAIN <<>> = {}
        BY <2>10, <2>11, <3>1, FilesNow
      <4>2. QED
        BY <2>7, <2>8, <2>10, <4>1
    <3>2. CASE u # "guarded"
      BY <2>10, <2>11, <3>2, FilesNow DEF SoundInv
    <3>3. QED
      BY <3>1, <3>2
  <2>12. \A f \in files' : f.index < MaxChunks
    BY <2>1, <2>3
  <2>13. QED
    BY <1>1, <1>2, <2>11, <2>12, SoundStep
<1>5. QED
  BY <1>3, <1>4, RecoverShape

LEMMA AuditedAccounted ==
    ASSUME NEW m \in Manifests
    PROVE  /\ Audited(m) => Accounted(m)
           /\ Accounted(m) /\ ReceiptsValid(m) => Audited(m)
<1>1. m.receipts \in Seq(Receipts) /\ m.revs \in Seq(Revisions) /\ IsFiniteSet(DOMAIN m.receipts)
  <2>1. m.receipts \in Seq(Receipts) /\ m.revs \in Seq(Revisions)
    BY DEF Manifests
  <2>2. DOMAIN m.receipts = 1..Len(m.receipts) /\ 1 \in Int /\ Len(m.receipts) \in Int
    BY <2>1
  <2>3. QED
    BY <2>1, <2>2, FS_Interval
<1>2. ASSUME Audited(m), NEW v \in DOMAIN m.revs, m.revs[v].kind # "legacy"
      PROVE  Cardinality({n \in DOMAIN m.receipts : m.receipts[n].rev = v}) = 1
  <2>1. PICK n \in DOMAIN m.receipts : \A k \in DOMAIN m.receipts : m.receipts[k].rev = v <=> k = n
    BY <1>2 DEF Audited
  <2>2. {k \in DOMAIN m.receipts : m.receipts[k].rev = v} = {n}
    BY <2>1
  <2>3. QED
    BY <2>2, FS_Singleton
<1>3. ASSUME Accounted(m), NEW v \in DOMAIN m.revs, m.revs[v].kind # "legacy"
      PROVE  \E n \in DOMAIN m.receipts : \A k \in DOMAIN m.receipts : m.receipts[k].rev = v <=> k = n
  <2>1. PICK S : S = {n \in DOMAIN m.receipts : m.receipts[n].rev = v}
    OBVIOUS
  <2>2. Cardinality(S) = 1 /\ IsFiniteSet(S)
    <3>1. S \subseteq DOMAIN m.receipts
      BY <2>1
    <3>2. QED
      BY <1>1, <1>3, <2>1, <3>1, FS_Subset DEF Accounted
  <2>3. PICK n : S = {n}
    BY <2>2, FS_Singleton
  <2>4. QED
    BY <2>1, <2>3
<1>4. ASSUME ReceiptsValid(m), NEW n \in DOMAIN m.receipts PROVE m.receipts[n].rev \in 0..Len(m.revs)
  <2>1. m.receipts[n].rev = 0 \/ m.receipts[n].rev \in DOMAIN m.revs
    BY <1>4 DEF ReceiptsValid
  <2>2. QED
    BY <1>1, <2>1
<1>5. QED
  BY <1>2, <1>3, <1>4 DEF Accounted, Audited

LEMMA SoundInit ==
    ASSUME Init
    PROVE  SoundInv
<1>1. PICK m \in Earlier \cup {Absent} :
        /\ slots = [NoSlots EXCEPT !["main"] = m]
        /\ files = IF m = Absent THEN {} ELSE FilesOf(m)
  BY DEF Init
<1>2. m # Absent => /\ m \in Manifests /\ Len(m.chunks) <= MaxChunks /\ RawOwned(m) /\ Accounted(m)
                    /\ ReceiptsValid(m)
  BY EarlierStored DEF ValidOn
<1>3. m # Absent => Sound(m)
  BY <1>2, AuditedAccounted DEF Sound
<1>4. \A s \in Slots : slots[s] \notin {Absent, Torn} => Sound(slots[s])
  BY <1>1, <1>3 DEF NoSlots, Slots
<1>5. \A f \in files : f.index < MaxChunks
  <2>1. SUFFICES ASSUME NEW f \in files PROVE f.index < MaxChunks
    OBVIOUS
  <2>2. m # Absent /\ m.chunks \in Seq(Chunks) /\ Len(m.chunks) <= MaxChunks /\ MaxChunks \in Nat
    BY <1>1, <1>2, <2>1, StoreConstants DEF Manifests
  <2>3. PICK i \in Indices(m) : f = ChunkFile(i, Chunk(m, i).tag, TRUE)
    BY <1>1, <2>1, <2>2 DEF FilesOf
  <2>4. i < MaxChunks
    BY <2>2 DEF Indices
  <2>5. QED
    BY <2>3, <2>4 DEF ChunkFile
<1>6. QED
  BY <1>4, <1>5 DEF Init, SoundInv

LEMMA SoundNext ==
    ASSUME StoreInv, SoundInv, [Next]_vars
    PROVE  SoundInv'
<1>1. CASE UNCHANGED vars
  BY <1>1 DEF vars, SoundInv
<1>2. CASE Next
  BY <1>2, SoundWriteStep, SoundChunkOperations, SoundPlainOperations, SoundRecap, SoundAttemptOperations,
     SoundOthers, SoundRecover DEF Next
<1>3. QED
  BY <1>1, <1>2

\* Writers that met are not forgotten.
LEMMA OverlapStays ==
    ASSUME overlapped \in BOOLEAN, [Next]_vars
    PROVE  overlapped' \in BOOLEAN /\ (overlapped => overlapped')
<1>1. CASE UNCHANGED vars
  BY <1>1 DEF vars
<1>2. CASE Next
  <2>1. UNCHANGED overlapped \/ \E t \in Writers : Meet(t)
    BY <1>2 DEF Next, WriteStep, CreateChunk, FlushChunk, CreateManifestTmp, SyncManifestTmp, RemoveOldBackup,
       MoveManifestAside, PromoteManifest, FinishWrite, FailCall, GiveUp, Start, WriteTextChunk, WriteAudioChunk,
       SaveNotes, WriteTranscriptSegment, Finish, MarkNeedsRecovery, AbortUnfinished, AppendPrivacyEvent,
       SelectTranscriptRevision, BeginAttempt, CompleteTranscription, CompleteReview, CompleteCleanup,
       RecordFailure, RecordRecapReceipt, Recover, Crash, Kept, Begin, Writers
  <2>2. QED
    BY <2>1 DEF Meet
<1>3. QED
  BY <1>1, <1>2

\* Alone, a recap reads what a guarded operation would read.
LEMMA RecapReads ==
    ASSUME StoreInv, RecordRecapReceipt, ~overlapped', NEW m, m = Readable
    PROVE  /\ m # Absent /\ Ready("recap") /\ m.current \in DOMAIN m.revs
           /\ Len(m.receipts) < MaxReceipts /\ Kept
           /\ Begin("recap", "recap",
                    [m EXCEPT !.receipts = Append(@, Receipt("recap", "succeeded", 0, m.current))], <<>>)
<1>1. PICK r \in Found :
        /\ Ready("recap") /\ (r = Readable \/ ~Free("guarded"))
        /\ r.current \in DOMAIN r.revs /\ Len(r.receipts) < MaxReceipts /\ Kept
        /\ Begin("recap", "recap",
                 [r EXCEPT !.receipts = Append(@, Receipt("recap", "succeeded", 0, r.current))], <<>>)
  BY DEF RecordRecapReceipt
<1>2. Free("guarded")
  BY <1>1 DEF Begin, Meet, Writers
<1>3. r = m /\ m # Absent
  BY <1>1, <1>2, FoundFits
<1>4. QED
  BY <1>1, <1>3

\* Every manifest that was ever written accounts for its revisions: each one
\* that is not a promoted legacy transcript has exactly one receipt of success.
\* Kills, failing calls, recovery and overlapping writers may lose a revision,
\* but never one half of the pair; and everything keeps its type.
THEOREM RevisionsAreAccounted == Spec => [](TypeOK /\ AuditTrail)
<1>1. Init => StoreInv /\ SoundInv /\ overlapped \in BOOLEAN
  BY InitFits, SoundInit DEF Init
<1>2. StoreInv /\ SoundInv /\ overlapped \in BOOLEAN /\ [Next]_vars
        => (StoreInv /\ SoundInv /\ overlapped \in BOOLEAN)'
  BY NextFits, SoundNext, OverlapStays
<1>3. ASSUME StoreInv, SoundInv, overlapped \in BOOLEAN PROVE TypeOK /\ AuditTrail
  <2>1. DOMAIN slots = Slots /\ files \subseteq ChunkFiles /\ shown \subseteq Attempts
        /\ writer \in [Writers -> {Idle} \cup Operations] /\ MaxChunks \in Nat
    BY <1>3, StoreConstants DEF StoreInv, StoreType
  <2>2. \A f \in files : f.index \in 0..MaxChunks /\ f.tag \in Tags /\ f.whole \in BOOLEAN
    BY <1>3, <2>1 DEF ChunkFiles, SoundInv
  <2>3. \A t \in Writers : writer[t].pc \in {"idle", "chunk", "flush", "create", "sync",
                                            "unbackup", "aside", "promote", "clean"}
    <3>1. Idle.pc = "idle"
      BY DEF Idle
    <3>2. \A w \in Operations : w.pc \in Pcs
      BY DEF Operations
    <3>3. QED
      BY <2>1, <3>1, <3>2 DEF Pcs
  <2>4. \A a \in Attempts : att[a].pc \in {"idle", "transcription", "review", "cleanup"}
    <3>1. \A j \in {Idle} \cup Jobs : j.pc \in {"idle", "transcription", "review", "cleanup"}
      BY DEF Idle, Jobs
    <3>2. QED
      BY <1>3, <3>1 DEF SoundInv
  <2>5. PICK m : m = Readable
    OBVIOUS
  <2>6. m # Absent => m \in Manifests /\ Sound(m)
    BY <1>3, <2>5, ReadableSound
  <2>7. m # Absent => m.state \in States /\ Len(m.chunks) <= MaxChunks /\ Accounted(m)
    BY <2>6, AuditedAccounted DEF Manifests, Sound
  <2>8. AuditTrail
    BY <1>3, FoundSound, AuditedAccounted DEF AuditTrail, Sound
  <2>9. QED
    BY <1>3, <2>1, <2>2, <2>3, <2>4, <2>5, <2>7, <2>8 DEF TypeOK, SoundInv
<1>4. QED
  BY <1>1, <1>2, <1>3, PTL DEF Spec

-----------------------------------------------------------------------------
(* Manifests that extend one another, and stay readable *)

\* Manifests that still have everything an older one had.
LEMMA PrefixIs ==
    ASSUME NEW S, NEW s \in Seq(S), NEW t \in Seq(S)
    PROVE  IsPrefix(s, t) <=> Len(s) <= Len(t) /\ \A i \in 1..Len(s) : s[i] = t[i]
<1>1. Len(s) \in Nat /\ Len(t) \in Nat
  OBVIOUS
<1>2. CASE Len(s) <= Len(t)
  <2>1. PICK a, b : a = SubSeq(s, 1, Len(s)) /\ b = SubSeq(t, 1, Len(s))
    OBVIOUS
  <2>2. 1 \in 1..(Len(s) + 1) /\ Len(s) \in (1 - 1)..Len(s)
        /\ 1 \in 1..(Len(t) + 1) /\ Len(s) \in (1 - 1)..Len(t) /\ (Len(s) - 1) + 1 = Len(s)
        /\ \A i \in 1..Len(s) : (1 + i) - 1 = i
    BY <1>1, <1>2
  <2>3. a \in Seq(S) /\ Len(a) = Len(s) /\ \A i \in 1..Len(s) : a[i] = s[i]
    BY <1>1, <2>1, <2>2, SubSeqProperties
  <2>4. b \in Seq(S) /\ Len(b) = Len(s) /\ \A i \in 1..Len(s) : b[i] = t[i]
    BY <1>1, <1>2, <2>1, <2>2, SubSeqProperties
  <2>5. a = b <=> \A i \in 1..Len(s) : a[i] = b[i]
    BY <2>3, <2>4, SeqEqual
  <2>6. QED
    BY <1>2, <2>1, <2>3, <2>4, <2>5 DEF IsPrefix
<1>3. QED
  BY <1>2 DEF IsPrefix

LEMMA PrefixKept ==
    ASSUME NEW S, NEW s \in Seq(S), NEW t \in Seq(S), t = s \/ \E x : t = Append(s, x)
    PROVE  IsPrefix(s, t)
BY PrefixIs

LEMMA PrefixChain ==
    ASSUME NEW S, NEW r \in Seq(S), NEW s \in Seq(S), NEW t \in Seq(S), IsPrefix(r, s), IsPrefix(s, t)
    PROVE  IsPrefix(r, t)
<1>1. Len(r) \in Nat /\ Len(s) \in Nat /\ Len(t) \in Nat
  OBVIOUS
<1>2. /\ Len(r) <= Len(s) /\ Len(s) <= Len(t)
      /\ \A i \in 1..Len(r) : r[i] = s[i]
      /\ \A i \in 1..Len(s) : s[i] = t[i]
  BY PrefixIs
<1>3. Len(r) <= Len(t) /\ \A i \in 1..Len(r) : r[i] = t[i]
  BY <1>1, <1>2
<1>4. QED
  BY <1>3, PrefixIs

LEMMA ExtendsKept ==
    ASSUME NEW m \in Manifests, NEW d \in Manifests,
           d.chunks = m.chunks \/ \E c : d.chunks = Append(m.chunks, c),
           d.revs = m.revs \/ \E r : d.revs = Append(m.revs, r),
           d.receipts = m.receipts \/ \E k : d.receipts = Append(m.receipts, k),
           d.events >= m.events
    PROVE  Extends(d, m)
<1>1. /\ m.chunks \in Seq(Chunks) /\ m.revs \in Seq(Revisions) /\ m.receipts \in Seq(Receipts)
      /\ d.chunks \in Seq(Chunks) /\ d.revs \in Seq(Revisions) /\ d.receipts \in Seq(Receipts)
  BY DEF Manifests
<1>2. QED
  BY <1>1, PrefixKept DEF Extends

LEMMA ExtendsChain ==
    ASSUME NEW l \in Manifests, NEW m \in Manifests, NEW d \in Manifests, Extends(m, l), Extends(d, m)
    PROVE  Extends(d, l)
<1>1. /\ m.chunks \in Seq(Chunks) /\ m.revs \in Seq(Revisions) /\ m.receipts \in Seq(Receipts)
      /\ d.chunks \in Seq(Chunks) /\ d.revs \in Seq(Revisions) /\ d.receipts \in Seq(Receipts)
      /\ l.chunks \in Seq(Chunks) /\ l.revs \in Seq(Revisions) /\ l.receipts \in Seq(Receipts)
      /\ l.events \in Nat /\ m.events \in Nat /\ d.events \in Nat
  BY DEF Manifests
<1>2. IsPrefix(l.chunks, d.chunks) /\ IsPrefix(l.revs, d.revs) /\ IsPrefix(l.receipts, d.receipts)
  BY <1>1, PrefixChain DEF Extends
<1>3. QED
  BY <1>1, <1>2 DEF Extends

\* A manifest stays valid as long as each of its chunks has a file.
LEMMA ValidKept ==
    ASSUME NEW m \in Manifests, NEW disk, NEW new, ValidOn(m, disk),
           \A f \in disk : f.index < Len(m.chunks) => \E g \in new : g.index = f.index /\ g.tag = f.tag
    PROVE  ValidOn(m, new)
<1>1. m.chunks \in Seq(Chunks) /\ Len(m.chunks) \in Nat
  BY DEF Manifests
<1>2. ASSUME NEW i \in Indices(m) PROVE \E g \in new : g.index = i /\ g.tag = Chunk(m, i).tag
  <2>1. PICK f \in disk : f.index = i /\ f.tag = Chunk(m, i).tag
    BY DEF ValidOn, ChunkDescriptorsValid
  <2>2. f.index < Len(m.chunks)
    BY <1>1, <2>1 DEF Indices
  <2>3. QED
    BY <2>1, <2>2
<1>3. ChunkDescriptorsValid(m, new)
  BY <1>2 DEF ValidOn, ChunkDescriptorsValid
<1>4. QED
  BY <1>3 DEF ValidOn

\* Recovery removes no file of a manifest that owns its raw chunks.
LEMMA ValidOwned ==
    ASSUME NEW m \in Manifests, NEW disk, ValidOn(m, disk), RawOwned(m)
    PROVE  ValidOn(m, disk \ UnownedRawFiles(m, disk))
<1>1. ASSUME NEW i \in Indices(m)
      PROVE  \E g \in disk \ UnownedRawFiles(m, disk) : g.index = i /\ g.tag = Chunk(m, i).tag
  <2>1. PICK f \in disk : f.index = i /\ f.tag = Chunk(m, i).tag
    BY DEF ValidOn, ChunkDescriptorsValid
  <2>2. Chunk(m, i) \in Chunks
    BY ChunkOf
  <2>3. f \notin UnownedRawFiles(m, disk)
    BY <2>1, <2>2 DEF UnownedRawFiles, RawOwned, Chunks
  <2>4. QED
    BY <2>1, <2>3
<1>2. ChunkDescriptorsValid(m, disk \ UnownedRawFiles(m, disk))
  BY <1>1 DEF ValidOn, ChunkDescriptorsValid
<1>3. QED
  BY <1>2 DEF ValidOn

\* The checks of a revision look at its own chunks and at earlier revisions.
LEMMA RevisionsKept ==
    ASSUME NEW m \in Manifests, NEW d \in Manifests, RevisionsValid(m), d.revs = m.revs,
           d.chunks = m.chunks \/ \E c : d.chunks = Append(m.chunks, c)
    PROVE  RevisionsValid(d)
<1>1. m.chunks \in Seq(Chunks) /\ Len(m.chunks) \in Nat
  BY DEF Manifests
<1>2. \A i \in Indices(m) : i \in Indices(d) /\ Chunk(d, i) = Chunk(m, i)
  BY <1>1 DEF Indices, Chunk
<1>3. ASSUME NEW v \in DOMAIN m.revs
      PROVE  RevisionIndicesValid(d, m.revs[v].idx) /\ RawIndicesValid(d, v)
  <2>1. RevisionIndicesValid(m, m.revs[v].idx) /\ RawIndicesValid(m, v)
    BY DEF RevisionsValid
  <2>2. RevisionIndicesValid(d, m.revs[v].idx)
    BY <1>2, <2>1 DEF RevisionIndicesValid
  <2>3. RawIndicesValid(d, v)
    BY <1>2, <2>1 DEF RawIndicesValid
  <2>4. QED
    BY <2>2, <2>3
<1>4. QED
  BY <1>3 DEF RevisionsValid

\* The state, the selection, the events or a receipt change.
LEMMA ValidPlain ==
    ASSUME NEW m \in Manifests, NEW d \in Manifests, NEW disk, ValidOn(m, disk), RawOwned(m),
           d.chunks = m.chunks, d.revs = m.revs, d.cleaned = m.cleaned,
           \/ d.current = m.current
           \/ d.current \in DOMAIN m.revs /\ EffectiveKind(m.revs[d.current]) # "ai-cleaned",
           NEW k,
           \/ d.receipts = m.receipts
           \/ /\ d.receipts = Append(m.receipts, k) /\ Len(m.receipts) < MaxReceipts
              /\ k.input \in 0..Len(m.revs) /\ k.rev = 0
              /\ k.outcome = "succeeded" => k.op = "recap" /\ k.input # 0
    PROVE  ValidOn(d, disk)
<1>1. /\ m.receipts \in Seq(Receipts) /\ Len(m.receipts) \in Nat /\ MaxReceipts \in Nat
  BY StoreConstants DEF Manifests
<1>2. Indices(d) = Indices(m) /\ \A i \in Indices(m) : Chunk(d, i) = Chunk(m, i)
  BY DEF Indices, Chunk
<1>3. ChunkDescriptorsValid(d, disk)
  BY <1>2 DEF ValidOn, ChunkDescriptorsValid
<1>4. RevisionsValid(d)
  BY RevisionsKept DEF ValidOn
<1>5. RawOwned(d)
  BY <1>2 DEF RawOwned, OwnedRaw
<1>6. SelectionValid(d)
  BY <1>5 DEF ValidOn, SelectionValid
<1>7. ReceiptsValid(d)
  <2>1. ReceiptsValid(m)
    BY DEF ValidOn
  <2>2. CASE d.receipts = m.receipts
    BY <2>1, <2>2 DEF ReceiptsValid
  <2>3. CASE d.receipts # m.receipts
    <3>1. Len(d.receipts) <= MaxReceipts
      BY <1>1, <2>3
    <3>2. \A n \in DOMAIN d.receipts : (n \in DOMAIN m.receipts /\ d.receipts[n] = m.receipts[n])
                                       \/ d.receipts[n] = k
      <4>1. /\ DOMAIN d.receipts = 1..(Len(m.receipts) + 1) /\ DOMAIN m.receipts = 1..Len(m.receipts)
            /\ d.receipts[Len(m.receipts) + 1] = k
            /\ \A n \in 1..Len(m.receipts) : d.receipts[n] = m.receipts[n]
        BY <1>1, <2>3
      <4>2. \A n \in 1..(Len(m.receipts) + 1) : n \in 1..Len(m.receipts) \/ n = Len(m.receipts) + 1
        BY <1>1
      <4>3. QED
        BY <4>1, <4>2
    <3>3. QED
      BY <2>1, <2>3, <3>1, <3>2 DEF ReceiptsValid
  <2>4. QED
    BY <2>2, <2>3
<1>8. QED
  BY <1>3, <1>4, <1>6, <1>7 DEF ValidOn

LEMMA DescriptorsAdd ==
    ASSUME NEW m \in Manifests, NEW d, NEW c, NEW f, NEW disk, ChunkDescriptorsValid(m, disk),
           d.chunks = Append(m.chunks, c), c.tag = "raw" <=> c.kind = "raw",
           c.tag \in Attempts => c.kind = "segment", f.index = Len(m.chunks), f.tag = c.tag
    PROVE  ChunkDescriptorsValid(d, disk \cup {f})
<1>1. m.chunks \in Seq(Chunks) /\ Len(m.chunks) \in Nat
  BY DEF Manifests
<1>2. \A i \in Indices(d) : \/ i \in Indices(m) /\ Chunk(d, i) = Chunk(m, i)
                            \/ i = Len(m.chunks) /\ Chunk(d, i) = c
  BY <1>1 DEF Indices, Chunk
<1>3. SUFFICES ASSUME NEW i \in Indices(d), NEW x, x = Chunk(d, i)
               PROVE  /\ (x.tag = "raw") = (x.kind = "raw")
                      /\ x.tag \in Attempts => x.kind = "segment"
                      /\ \E g \in disk \cup {f} : g.index = i /\ g.tag = x.tag
  BY DEF ChunkDescriptorsValid
<1>4. CASE i \in Indices(m) /\ x = Chunk(m, i)
  <2>1. /\ (x.tag = "raw") = (x.kind = "raw")
        /\ x.tag \in Attempts => x.kind = "segment"
        /\ \E g \in disk : g.index = i /\ g.tag = x.tag
    BY <1>4 DEF ChunkDescriptorsValid
  <2>2. QED
    BY <2>1
<1>5. CASE i = Len(m.chunks) /\ x = c
  BY <1>5
<1>6. QED
  BY <1>2, <1>3, <1>4, <1>5

\* A chunk is added with its file.
LEMMA ValidAdds ==
    ASSUME NEW m \in Manifests, NEW disk, ValidOn(m, disk), RawOwned(m),
           NEW kind \in {"text", "audio", "segment"}, NEW tag \in Attempts \cup {"plain"},
           tag \in Attempts => kind = "segment",
           NEW d \in Manifests, d = AddChunk(m, kind, tag), NEW f, f = ChunkFile(Len(m.chunks), tag, TRUE)
    PROVE  ValidOn(d, disk \cup {f}) /\ Extends(d, m)
<1>1. PICK c : c = Descriptor(kind, tag, TRUE)
  OBVIOUS
<1>2. /\ m.chunks \in Seq(Chunks) /\ Len(m.chunks) \in Nat /\ m.events \in Nat
      /\ c.kind = kind /\ c.tag = tag /\ c.tag # "raw" /\ c.kind # "raw"
      /\ f.index = Len(m.chunks) /\ f.tag = tag
  <2>1. m.chunks \in Seq(Chunks) /\ Len(m.chunks) \in Nat /\ m.events \in Nat
    BY DEF Manifests
  <2>2. c.kind = kind /\ c.tag = tag /\ f.index = Len(m.chunks) /\ f.tag = tag
    BY <1>1 DEF Descriptor, ChunkFile
  <2>3. tag # "raw" /\ kind # "raw"
    BY StoreConstants
  <2>4. QED
    BY <2>1, <2>2, <2>3
<1>3. /\ d.chunks = Append(m.chunks, c) /\ d.revs = m.revs /\ d.receipts = m.receipts /\ d.state = m.state
      /\ d.current = m.current /\ d.cleaned = m.cleaned /\ d.events = m.events
  BY <1>1 DEF AddChunk, Manifests
<1>4. /\ \A i \in Indices(m) : i \in Indices(d) /\ Chunk(d, i) = Chunk(m, i)
      /\ \A i \in Indices(d) : i \in Indices(m) \/ (i = Len(m.chunks) /\ Chunk(d, i) = c)
  BY <1>2, <1>3 DEF Indices, Chunk
<1>5. ChunkDescriptorsValid(d, disk \cup {f})
  BY <1>2, <1>3, DescriptorsAdd DEF ValidOn
<1>6. RevisionsValid(d)
  BY <1>3, RevisionsKept DEF ValidOn
<1>7. RawOwned(d)
  BY <1>2, <1>3, <1>4 DEF RawOwned, OwnedRaw
<1>8. SelectionValid(d) /\ ReceiptsValid(d)
  BY <1>3, <1>7 DEF ValidOn, SelectionValid, ReceiptsValid
<1>9. Extends(d, m)
  <2>1. d.events >= m.events /\ \E x : d.chunks = Append(m.chunks, x)
    BY <1>2, <1>3
  <2>2. QED
    BY <1>3, <2>1, ExtendsKept
<1>10. QED
  BY <1>5, <1>6, <1>8, <1>9 DEF ValidOn

\* The dictated segments become the first revision.
LEMMA ValidLegacy ==
    ASSUME NEW m \in Manifests, NEW disk, ValidOn(m, disk), RawOwned(m),
           NEW d \in Manifests, d = PromoteLegacy(m)
    PROVE  /\ ValidOn(d, disk) /\ Extends(d, m) /\ d.receipts = m.receipts /\ d.events = m.events
           /\ d.revs = m.revs \/ Len(d.revs) = 1
<1>1. CASE m.revs # <<>> \/ CurrentIndices(m) = {}
  <2>1. d = m
    BY <1>1 DEF PromoteLegacy
  <2>2. m.events >= m.events
    BY DEF Manifests
  <2>3. QED
    BY <2>1, <2>2, ExtendsKept
<1>2. CASE m.revs = <<>> /\ CurrentIndices(m) # {}
  <2>1. DOMAIN m.revs = {} /\ Len(m.revs) = 0
    BY <1>2
  <2>2. PICK idx, r : idx = SegmentsOf(m, "plain") /\ r = Revision("legacy", "initial", 0, idx, NoRaw)
    OBVIOUS
  <2>3. CurrentIndices(m) = idx
    BY <2>1, <2>2 DEF CurrentIndices
  <2>4. d = [m EXCEPT !.revs = <<r>>, !.current = 1]
    BY <1>2, <2>2, <2>3 DEF PromoteLegacy
  <2>5. /\ d.chunks = m.chunks /\ d.revs = <<r>> /\ d.receipts = m.receipts /\ d.state = m.state
        /\ d.current = 1 /\ d.cleaned = m.cleaned /\ d.events = m.events
    BY <2>4 DEF Manifests
  <2>6. /\ DOMAIN d.revs = {1} /\ d.revs[1] = r /\ Len(d.revs) = 1 /\ d.revs = Append(m.revs, r)
        /\ r.kind = "legacy" /\ r.source = "initial" /\ r.parent = 0 /\ r.idx = idx /\ r.raw = NoRaw
    BY <1>2, <2>2, <2>5 DEF Revision
  <2>7. Indices(d) = Indices(m) /\ \A i \in Indices(m) : Chunk(d, i) = Chunk(m, i)
    BY <2>5 DEF Indices, Chunk
  <2>8. ChunkDescriptorsValid(d, disk)
    BY <2>7 DEF ValidOn, ChunkDescriptorsValid
  <2>9. EffectiveKind(r) = "raw-asr"
    BY <2>6 DEF EffectiveKind
  <2>10. RevisionsValid(d)
    <3>1. RevisionIndicesValid(d, r.idx)
      BY <2>2, <2>6, <2>7 DEF RevisionIndicesValid, SegmentsOf
    <3>2. RawIndicesValid(d, 1)
      BY <2>6 DEF RawIndicesValid
    <3>3. Len(d.revs) <= MaxRevisions
      BY <2>6, StoreConstants
    <3>4. QED
      BY <2>6, <2>9, <3>1, <3>2, <3>3 DEF RevisionsValid
  <2>11. SelectionValid(d)
    <3>1. RawOwned(d)
      BY <2>1, <2>7 DEF RawOwned, OwnedRaw
    <3>2. m.cleaned = 0
      BY <2>1 DEF ValidOn, SelectionValid
    <3>3. QED
      BY <2>5, <2>6, <2>9, <3>1, <3>2 DEF SelectionValid
  <2>12. ReceiptsValid(d)
    <3>1. \A n \in DOMAIN m.receipts : /\ m.receipts[n].input = 0
                                       /\ m.receipts[n].outcome # "succeeded" /\ m.receipts[n].rev = 0
      BY <2>1 DEF ValidOn, ReceiptsValid
    <3>2. QED
      BY <2>5, <2>6, <3>1 DEF ValidOn, ReceiptsValid
  <2>13. Extends(d, m)
    <3>1. d.events >= m.events
      BY <2>5 DEF Manifests
    <3>2. QED
      BY <2>5, <2>6, <3>1, ExtendsKept
  <2>14. QED
    BY <2>5, <2>6, <2>8, <2>10, <2>11, <2>12, <2>13 DEF ValidOn
<1>3. QED
  BY <1>1, <1>2

\* A revision enters with its receipt, and the raw chunk with its file.
LEMMA ValidRevision ==
    ASSUME NEW m \in Manifests, NEW d \in Manifests, NEW new,
           RevisionsValid(m), SelectionValid(m), ReceiptsValid(m), ChunkDescriptorsValid(d, new),
           \/ d.chunks = m.chunks
           \/ \E c : d.chunks = Append(m.chunks, c) /\ c.kind = "raw" /\ c.meta = TRUE,
           NEW r, NEW k, d.revs = Append(m.revs, r), d.receipts = Append(m.receipts, k),
           Len(m.revs) < MaxRevisions, Len(m.receipts) < MaxReceipts, RawOwned(d),
           EffectiveKind(r) \in {"raw-asr", "normalized"}, r.source # "ai-cleanup",
           r.parent \in 0..Len(m.revs), RevisionIndicesValid(m, r.idx),
           r.raw = {} \/ (r.raw = {Len(m.chunks)} /\ d.chunks # m.chunks),
           d.current = Len(m.revs) + 1, d.cleaned = m.cleaned,
           k.outcome = "succeeded", k.op # "recap", k.rev = Len(m.revs) + 1, k.input = r.parent
    PROVE  ValidOn(d, new)
<1>1. /\ m.chunks \in Seq(Chunks) /\ m.revs \in Seq(Revisions) /\ m.receipts \in Seq(Receipts)
      /\ Len(m.chunks) \in Nat /\ Len(m.revs) \in Nat /\ Len(m.receipts) \in Nat
      /\ MaxRevisions \in Nat /\ MaxReceipts \in Nat
  <2>1. m.chunks \in Seq(Chunks) /\ m.revs \in Seq(Revisions) /\ m.receipts \in Seq(Receipts)
    BY DEF Manifests
  <2>2. MaxRevisions \in Nat /\ MaxReceipts \in Nat
    BY StoreConstants, Zenon
  <2>3. QED
    BY <2>1, <2>2
<1>2. PICK n : n = Len(m.revs) + 1
  OBVIOUS
<1>3. /\ DOMAIN d.revs = 1..n /\ DOMAIN m.revs = 1..(n - 1) /\ Len(d.revs) = n /\ d.revs[n] = r
      /\ \A v \in DOMAIN m.revs : d.revs[v] = m.revs[v]
  BY <1>1, <1>2
<1>4. /\ n \in DOMAIN d.revs /\ n \notin DOMAIN m.revs
      /\ \A v \in DOMAIN d.revs : v = n \/ v \in DOMAIN m.revs
      /\ \A v \in DOMAIN m.revs : v \in DOMAIN d.revs /\ v < n
      /\ n - 1 = Len(m.revs) /\ n \in Nat
  BY <1>1, <1>2, <1>3
<1>5. \A i \in Indices(m) : i \in Indices(d) /\ Chunk(d, i) = Chunk(m, i)
  <2>1. CASE d.chunks = m.chunks
    BY <2>1 DEF Indices, Chunk
  <2>2. CASE \E c : d.chunks = Append(m.chunks, c)
    BY <1>1, <2>2 DEF Indices, Chunk
  <2>3. QED
    BY <2>1, <2>2
<1>6. \A v \in DOMAIN m.revs : \A i \in m.revs[v].raw : i \in Indices(m) \/ i = -1
  BY DEF RevisionsValid, RawIndicesValid, NoRaw
<1>7. RevisionsValid(d)
  <2>1. Len(d.revs) <= MaxRevisions
    BY <1>1, <1>2, <1>3
  <2>2. ASSUME NEW v \in DOMAIN d.revs, NEW x, x = d.revs[v]
        PROVE  /\ (EffectiveKind(x) = "ai-cleaned") = (x.source = "ai-cleanup")
               /\ x.parent < v
               /\ EffectiveKind(x) = "ai-cleaned" => x.parent # 0
               /\ RevisionIndicesValid(d, x.idx)
               /\ RawIndicesValid(d, v)
    <3>1. CASE v \in DOMAIN m.revs
      <4>1. x = m.revs[v]
        BY <1>3, <2>2, <3>1
      <4>2. /\ (EffectiveKind(x) = "ai-cleaned") = (x.source = "ai-cleanup")
            /\ x.parent < v
            /\ EffectiveKind(x) = "ai-cleaned" => x.parent # 0
            /\ RevisionIndicesValid(m, x.idx)
            /\ RawIndicesValid(m, v)
        BY <3>1, <4>1 DEF RevisionsValid
      <4>3. RevisionIndicesValid(d, x.idx)
        BY <1>5, <4>2 DEF RevisionIndicesValid
      <4>4. \A u \in DOMAIN d.revs : u < v => u \in DOMAIN m.revs
        BY <1>3, <1>4, <3>1
      <4>5. RawIndicesValid(d, v)
        BY <1>3, <1>5, <3>1, <4>2, <4>4 DEF RawIndicesValid
      <4>6. QED
        BY <4>2, <4>3, <4>5
    <3>2. CASE v = n
      <4>1. x = r
        BY <1>3, <2>2, <3>2
      <4>2. EffectiveKind(r) # "ai-cleaned" /\ r.parent < n
        BY <1>1, <1>2
      <4>3. RevisionIndicesValid(d, r.idx)
        BY <1>5 DEF RevisionIndicesValid
      <4>4. RawIndicesValid(d, n)
        <5>1. CASE r.raw = {}
          BY <1>3, <5>1 DEF RawIndicesValid
        <5>2. CASE r.raw = {Len(m.chunks)} /\ d.chunks # m.chunks
          <6>1. PICK c : d.chunks = Append(m.chunks, c) /\ c.kind = "raw" /\ c.meta = TRUE
            BY <5>2
          <6>2. Len(m.chunks) \in Indices(d) /\ Chunk(d, Len(m.chunks)) = c
            BY <1>1, <6>1 DEF Indices, Chunk
          <6>3. Len(m.chunks) \notin Indices(m) /\ Len(m.chunks) # -1
            BY <1>1 DEF Indices
          <6>4. \A u \in DOMAIN d.revs : u < n => d.revs[u].raw \cap r.raw \subseteq NoRaw
            <7>1. \A u \in DOMAIN d.revs : u < n => u \in DOMAIN m.revs /\ d.revs[u] = m.revs[u]
              BY <1>3, <1>4
            <7>2. QED
              BY <1>6, <5>2, <6>3, <7>1
          <6>5. QED
            BY <1>3, <5>2, <6>1, <6>2, <6>4 DEF RawIndicesValid
        <5>3. QED
          BY <5>1, <5>2
      <4>5. QED
        BY <3>2, <4>1, <4>2, <4>3, <4>4
    <3>3. QED
      BY <1>4, <3>1, <3>2
  <2>3. QED
    BY <2>1, <2>2 DEF RevisionsValid
<1>8. SelectionValid(d)
  <2>1. d.current = n /\ EffectiveKind(d.revs[n]) # "ai-cleaned"
    BY <1>2, <1>3
  <2>2. QED
    BY <1>3, <1>4, <2>1 DEF SelectionValid
<1>9. ReceiptsValid(d)
  <2>1. Len(d.receipts) <= MaxReceipts
    BY <1>1
  <2>2. \A j \in DOMAIN d.receipts : (j \in DOMAIN m.receipts /\ d.receipts[j] = m.receipts[j])
                                     \/ d.receipts[j] = k
    <3>1. /\ DOMAIN d.receipts = 1..(Len(m.receipts) + 1) /\ DOMAIN m.receipts = 1..Len(m.receipts)
          /\ d.receipts[Len(m.receipts) + 1] = k
          /\ \A j \in 1..Len(m.receipts) : d.receipts[j] = m.receipts[j]
      BY <1>1
    <3>2. \A j \in 1..(Len(m.receipts) + 1) : j \in 1..Len(m.receipts) \/ j = Len(m.receipts) + 1
      BY <1>1
    <3>3. QED
      BY <3>1, <3>2
  <2>3. ASSUME NEW x, (\E j \in DOMAIN m.receipts : x = m.receipts[j]) \/ x = k
        PROVE  /\ x.input \in 0..Len(d.revs)
               /\ x.outcome = "succeeded" =>
                      IF x.op = "recap" THEN x.rev = 0 /\ x.input # 0 ELSE x.rev \in DOMAIN d.revs
               /\ x.outcome # "succeeded" => x.rev = 0
    <3>1. CASE x = k
      BY <1>1, <1>2, <1>3, <1>4, <3>1
    <3>2. CASE \E j \in DOMAIN m.receipts : x = m.receipts[j]
      <4>1. /\ x.input \in 0..Len(m.revs)
            /\ x.outcome = "succeeded" =>
                   IF x.op = "recap" THEN x.rev = 0 /\ x.input # 0 ELSE x.rev \in DOMAIN m.revs
            /\ x.outcome # "succeeded" => x.rev = 0
        BY <3>2 DEF ReceiptsValid
      <4>2. x.input \in 0..Len(d.revs)
        BY <1>1, <1>2, <1>3, <4>1
      <4>3. QED
        BY <1>4, <4>1, <4>2
    <3>3. QED
      BY <2>3, <3>1, <3>2
  <2>4. QED
    BY <2>1, <2>2, <2>3 DEF ReceiptsValid
<1>10. QED
  BY <1>7, <1>8, <1>9 DEF ValidOn

LEMMA ValidCommit ==
    ASSUME NEW m \in Manifests, NEW disk, ValidOn(m, disk), Sound(m), NEW a \in Attempts,
           Len(m.revs) < MaxRevisions, Len(m.receipts) < MaxReceipts,
           NEW kind \in {"raw-asr", "normalized"}, NEW source, source # "ai-cleanup",
           NEW parent \in 0..Len(m.revs), NEW op, op # "recap",
           NEW idx, idx = SegmentsOf(m, a), NEW stored \in BOOLEAN, stored => Len(m.chunks) < MaxChunks,
           NEW d \in Manifests, d = CommitRevision(m, kind, source, parent, op, idx, stored),
           NEW f, f = ChunkFile(Len(m.chunks), "raw", TRUE)
    PROVE  ValidOn(d, IF stored THEN disk \cup {f} ELSE disk) /\ Extends(d, m)
<1>1. PICK w, raw, c : /\ w = WithRaw(m, stored)
                       /\ raw = (IF stored THEN {Len(m.chunks)} ELSE {})
                       /\ c = Descriptor("raw", "raw", TRUE)
  OBVIOUS
<1>2. PICK r, k : /\ r = Revision(kind, source, parent, idx, raw)
                  /\ k = Receipt(op, "succeeded", Len(m.revs) + 1, parent)
  OBVIOUS
<1>3. /\ r.kind = kind /\ r.source = source /\ r.parent = parent /\ r.idx = idx /\ r.raw = raw
      /\ k.op = op /\ k.outcome = "succeeded" /\ k.rev = Len(m.revs) + 1 /\ k.input = parent
      /\ c.kind = "raw" /\ c.tag = "raw" /\ c.meta = TRUE
      /\ f.index = Len(m.chunks) /\ f.tag = "raw"
  BY <1>1, <1>2 DEF Revision, Receipt, Descriptor, ChunkFile
<1>4. d = [w EXCEPT !.revs = Append(@, r), !.current = Len(m.revs) + 1, !.receipts = Append(@, k)]
  BY <1>1, <1>2 DEF CommitRevision
<1>5. (stored /\ w = [m EXCEPT !.chunks = Append(@, c)]) \/ (~stored /\ w = m)
  BY <1>1 DEF WithRaw, AddChunk
<1>6. w \in Manifests
  <2>1. c \in Chunks
    BY <1>1 DEF Descriptor, Chunks, Tags
  <2>2. Append(m.chunks, c) \in Seq(Chunks)
    BY <2>1 DEF Manifests
  <2>3. QED
    BY <1>5, <2>2 DEF Manifests
<1>7. /\ w.revs = m.revs /\ w.receipts = m.receipts /\ w.cleaned = m.cleaned /\ w.events = m.events
      /\ (stored /\ w.chunks = Append(m.chunks, c)) \/ (~stored /\ w.chunks = m.chunks)
  BY <1>5 DEF Manifests
<1>8. /\ d.chunks = w.chunks /\ d.revs = Append(m.revs, r) /\ d.receipts = Append(m.receipts, k)
      /\ d.current = Len(m.revs) + 1 /\ d.cleaned = m.cleaned /\ d.events = m.events
  BY <1>4, <1>6, <1>7 DEF Manifests
<1>9. PICK new : new = IF stored THEN disk \cup {f} ELSE disk
  OBVIOUS
<1>10. ChunkDescriptorsValid(d, new)
  <2>1. ChunkDescriptorsValid(m, disk)
    BY DEF ValidOn
  <2>2. CASE stored
    <3>1. c.tag \notin Attempts
      BY <1>3, StoreConstants
    <3>2. ChunkDescriptorsValid(d, disk \cup {f})
      <4>1. d.chunks = Append(m.chunks, c) /\ (c.tag = "raw" <=> c.kind = "raw") /\ f.tag = c.tag
            /\ f.index = Len(m.chunks)
        BY <1>3, <1>7, <1>8, <2>2
      <4>2. QED
        BY <2>1, <3>1, <4>1, DescriptorsAdd
    <3>3. QED
      BY <1>9, <2>2, <3>2
  <2>3. CASE ~stored
    <3>1. Indices(d) = Indices(m) /\ \A i \in Indices(m) : Chunk(d, i) = Chunk(m, i)
      BY <1>7, <1>8, <2>3 DEF Indices, Chunk
    <3>2. QED
      BY <1>9, <2>1, <2>3, <3>1 DEF ChunkDescriptorsValid
  <2>4. QED
    BY <2>2, <2>3
<1>11. RawOwned(d)
  <2>1. Sound(d)
    BY SoundCommit
  <2>2. QED
    BY <2>1 DEF Sound
<1>12. EffectiveKind(r) \in {"raw-asr", "normalized"}
  BY <1>3 DEF EffectiveKind
<1>13. RevisionIndicesValid(m, r.idx)
  BY <1>3 DEF RevisionIndicesValid, SegmentsOf
<1>14. r.raw = {} \/ (r.raw = {Len(m.chunks)} /\ d.chunks # m.chunks)
  <2>1. m.chunks \in Seq(Chunks)
    BY DEF Manifests
  <2>2. Append(m.chunks, c) # m.chunks
    <3>1. Len(Append(m.chunks, c)) = Len(m.chunks) + 1 /\ Len(m.chunks) \in Nat
      BY <2>1
    <3>2. QED
      BY <3>1
  <2>3. QED
    BY <1>1, <1>3, <1>7, <1>8, <2>2
<1>15. d.chunks = m.chunks \/ \E x : d.chunks = Append(m.chunks, x) /\ x.kind = "raw" /\ x.meta = TRUE
  BY <1>3, <1>7, <1>8
<1>16. r.source # "ai-cleanup" /\ r.parent \in 0..Len(m.revs) /\ k.op # "recap" /\ k.input = r.parent
  BY <1>3
<1>17. ValidOn(d, new)
  <2>1. d.revs = Append(m.revs, r)
        /\ d.receipts = Append(m.receipts, k) /\ d.current = Len(m.revs) + 1 /\ d.cleaned = m.cleaned
        /\ k.outcome = "succeeded" /\ k.rev = Len(m.revs) + 1
    BY <1>3, <1>8
  <2>2. RevisionsValid(m) /\ SelectionValid(m) /\ ReceiptsValid(m)
    BY DEF ValidOn
  <2>3. QED
    BY <1>10, <1>11, <1>12, <1>13, <1>14, <1>15, <1>16, <2>1, <2>2, ValidRevision
<1>18. Extends(d, m)
  <2>1. d.events >= m.events
    BY <1>8 DEF Manifests
  <2>2. d.chunks = m.chunks \/ \E x : d.chunks = Append(m.chunks, x)
    BY <1>7, <1>8
  <2>3. QED
    BY <1>8, <2>1, <2>2, ExtendsKept
<1>19. QED
  BY <1>9, <1>17, <1>18

-----------------------------------------------------------------------------
(* Where the history is, at each call of a write *)

\* A manifest a read accepts.
UsableOn(m, disk) == m \notin {Absent, Torn} /\ ValidOn(m, disk)

\* No file that comes or goes later makes a difference: the files of the
\* manifest are there, or it is not valid with them either.
Settled(m, disk) == m \notin {Absent, Torn} /\ ValidOn(m, FilesOf(m)) => ValidOn(m, disk)

LEMMA ValidWith ==
    ASSUME NEW m, NEW disk, NEW new, ValidOn(m, disk),
           \A i \in Indices(m) : \E f \in new : f.index = i /\ f.tag = Chunk(m, i).tag
    PROVE  ValidOn(m, new)
BY DEF ValidOn, ChunkDescriptorsValid

LEMMA FilesFound ==
    ASSUME NEW m, NEW disk, \A i \in Indices(m) : ChunkFile(i, Chunk(m, i).tag, TRUE) \in disk
    PROVE  \A i \in Indices(m) : \E f \in disk : f.index = i /\ f.tag = Chunk(m, i).tag
<1>1. SUFFICES ASSUME NEW i \in Indices(m) PROVE \E f \in disk : f.index = i /\ f.tag = Chunk(m, i).tag
  OBVIOUS
<1>2. PICK f : f = ChunkFile(i, Chunk(m, i).tag, TRUE)
  OBVIOUS
<1>3. f.index = i /\ f.tag = Chunk(m, i).tag
  BY <1>2 DEF ChunkFile
<1>4. f \in disk
  BY <1>2
<1>5. QED
  BY <1>3, <1>4

LEMMA ValidAlone ==
    ASSUME NEW m, NEW disk, ValidOn(m, disk)
    PROVE  ValidOn(m, FilesOf(m))
<1>1. \A i \in Indices(m) : ChunkFile(i, Chunk(m, i).tag, TRUE) \in FilesOf(m)
  BY DEF FilesOf
<1>2. QED
  BY <1>1, FilesFound, ValidWith

LEMMA SettledKept ==
    ASSUME NEW m \in Manifests, NEW disk, NEW new, Settled(m, disk),
           \A f \in disk : f.index < Len(m.chunks) => \E g \in new : g.index = f.index /\ g.tag = f.tag
    PROVE  Settled(m, new)
BY ValidKept DEF Settled

\* What an operation has staged or stored so far.
Place(w, sl, disk, reb) ==
    w # Idle =>
        /\ ~reb => ValidOn(w.doc, disk \cup Adding(w))
        /\ Settled(w.doc, disk \cup Adding(w))
        /\ w.pc = "sync" => sl["tmp"] = Torn
        /\ w.pc \in {"unbackup", "aside", "promote"} => sl["tmp"] = w.doc
        /\ w.pc = "aside" => sl["bak"] = Absent
        /\ w.pc = "promote" => sl["main"] = Absent /\ (w.had <=> sl["bak"] # Absent)
        /\ w.pc = "clean" => sl["main"] = w.doc /\ sl["tmp"] = Absent

\* A manifest with all that was reported; the file being written is none of
\* its chunks, so that no failure takes one away.
Leads(m, w, disk, old) ==
    /\ m \notin {Absent, Torn} /\ ValidOn(m, disk) /\ Extends(m, old)
    /\ w # Idle /\ w.adds # <<>> => Len(m.chunks) <= w.adds[1].index

\* Until the first fault the live manifest leads or is being replaced; after
\* it the backup may be the one, and during the write that replaces the
\* backup the staged manifest.
Holds(w, sl, disk, old, fl) ==
    /\ w # Idle => Extends(w.doc, old)
    /\ \/ Leads(sl["main"], w, disk, old)
       \/ fl = 1 /\ sl["main"] = Absent /\ Leads(sl["bak"], w, disk, old)
       \/ w.pc = "aside" /\ fl = 1 /\ sl["main"] = Absent
       \/ w.pc = "promote" /\ (Leads(sl["bak"], w, disk, old) \/ (fl = 1 /\ sl["bak"] = Absent))
       \/ w.pc = "clean"

HistoryInv ==
    \E t \in Writers :
        /\ \A u \in Writers : u # t => writer[u] = Idle
        /\ Place(writer[t], slots, files, rebuilt)
        /\ faults <= 1 /\ ~rebuilt /\ seen # Absent => Holds(writer[t], slots, files, seen, faults)

LEMMA LeadsKept ==
    ASSUME NEW m \in Manifests, NEW w, NEW w2, NEW disk, NEW new, NEW old, Leads(m, w, disk, old),
           w2 = Idle \/ (w # Idle /\ w2.adds = w.adds) \/ w2.adds = <<>>,
           \A f \in disk : f.index < Len(m.chunks) => \E g \in new : g.index = f.index /\ g.tag = f.tag
    PROVE  Leads(m, w2, new, old)
<1>1. ValidOn(m, new)
  BY ValidKept DEF Leads
<1>2. QED
  BY <1>1 DEF Leads

LEMMA LeadsSpared ==
    ASSUME NEW m \in Manifests, NEW w \in {Idle} \cup Operations, NEW disk, disk \subseteq ChunkFiles,
           NEW new, NEW old, Leads(m, w, disk, old),
           \A f \in disk : f \in new \/ (w # Idle /\ w.adds # <<>> /\ f.index = w.adds[1].index)
    PROVE  Leads(m, Idle, new, old)
<1>1. \A f \in disk : f.index \in Nat
  BY DEF ChunkFiles
<1>2. Len(m.chunks) \in Nat
  BY DEF Manifests
<1>3. \A f \in disk : f.index < Len(m.chunks) => f \in new
  BY <1>1, <1>2 DEF Leads
<1>4. QED
  BY <1>3, LeadsKept

\* A call fails or the process is killed, for the first time.
LEMMA FaultHolds ==
    ASSUME NEW sl \in [Slots -> Manifests \cup {Absent, Torn}], NEW w \in {Idle} \cup Operations,
           NEW disk, disk \subseteq ChunkFiles, NEW new, NEW old,
           Place(w, sl, disk, FALSE), Holds(w, sl, disk, old, 0),
           \A f \in disk : f \in new \/ (w # Idle /\ w.adds # <<>> /\ f.index = w.adds[1].index),
           w.pc = "clean" => new = disk,
           NEW sl2, sl2 = sl \/ (w.pc = "promote" /\ sl2 = RestoreBak(sl, w.had))
    PROVE  Holds(Idle, sl2, new, old, 1)
<1>1. \A s \in {"main", "bak"} : sl[s] \notin {Absent, Torn} => sl[s] \in Manifests
  BY DEF Slots
<1>2. ASSUME NEW s \in {"main", "bak"}, Leads(sl[s], w, disk, old)
      PROVE  Leads(sl[s], Idle, new, old) /\ sl[s] # Absent
  <2>1. sl[s] \in Manifests /\ sl[s] # Absent
    BY <1>1, <1>2 DEF Leads
  <2>2. QED
    BY <1>2, <2>1, LeadsSpared
<1>3. Idle.pc = "idle" /\ \A x \in Operations : x # Idle
  BY DEF Idle, Operations, Pcs
<1>4. CASE Leads(sl["main"], w, disk, old)
  <2>1. Leads(sl["main"], Idle, new, old) /\ sl["main"] # Absent
    BY <1>2, <1>4
  <2>2. w.pc # "promote"
    BY <1>3, <2>1 DEF Place
  <2>3. QED
    BY <2>1, <2>2 DEF Holds
<1>5. CASE w.pc = "promote" /\ Leads(sl["bak"], w, disk, old)
  <2>1. Leads(sl["bak"], Idle, new, old) /\ sl["bak"] # Absent
    BY <1>2, <1>5
  <2>2. sl["main"] = Absent /\ w.had
    BY <1>3, <1>5, <2>1 DEF Place
  <2>3. CASE sl2 = sl
    BY <2>1, <2>2, <2>3 DEF Holds
  <2>4. CASE sl2 = RestoreBak(sl, w.had)
    <3>1. sl2 = [sl EXCEPT !["main"] = sl["bak"], !["bak"] = Absent]
      BY <2>1, <2>2, <2>4 DEF RestoreBak
    <3>2. sl2["main"] = sl["bak"]
      BY <3>1 DEF Slots
    <3>3. QED
      BY <2>1, <3>2 DEF Holds
  <2>5. QED
    BY <2>3, <2>4
<1>6. CASE w.pc = "clean"
  <2>1. w # Idle /\ w \in Operations /\ sl["main"] = w.doc /\ w.doc \in Manifests
    BY <1>3, <1>6 DEF Place, Operations
  <2>2. disk \cup Adding(w) = disk
    BY <1>6 DEF Adding
  <2>3. ValidOn(w.doc, disk) /\ Extends(w.doc, old) /\ w.doc \notin {Absent, Torn}
    BY <2>1, <2>2, MarksAreNoManifests DEF Place, Holds
  <2>4. Leads(sl["main"], Idle, new, old) /\ sl2 = sl
    BY <1>6, <2>1, <2>3 DEF Leads
  <2>5. QED
    BY <2>4 DEF Holds
<1>7. QED
  BY <1>4, <1>5, <1>6 DEF Holds

\* The next call of a write succeeds.
NextCall(w, w2, sl, sl2, disk, new) ==
    \/ w.pc = "chunk" /\ w2.pc = "flush" /\ sl2 = sl
    \/ w.pc = "flush" /\ w2.pc = "create" /\ sl2 = sl /\ w.adds[1] \in new
    \/ w.pc = "create" /\ w2.pc = "sync" /\ sl2 = CreateTmp(sl)
    \/ w.pc = "sync" /\ w2.pc = "unbackup" /\ sl2 = SyncTmp(sl, w.doc)
    \/ w.pc = "unbackup" /\ w2.pc = "aside" /\ sl2 = RemoveBak(sl)
    \/ w.pc = "aside" /\ w2.pc = "promote" /\ sl2 = MoveAside(sl) /\ (w2.had <=> sl["main"] # Absent)
    \/ w.pc = "promote" /\ w2.pc = "clean" /\ sl2 = Promote(sl)

LEMMA NextPlace ==
    ASSUME NEW sl \in [Slots -> Manifests \cup {Absent, Torn}], NEW sl2,
           NEW w \in Operations, NEW w2 \in Operations, w2.doc = w.doc, w2.adds = w.adds,
           NEW disk, NEW new, \A f \in disk : \E g \in new : g.index = f.index /\ g.tag = f.tag,
           NEW reb, Place(w, sl, disk, reb), NextCall(w, w2, sl, sl2, disk, new)
    PROVE  Place(w2, sl2, new, reb)
<1>1. w # Idle /\ w2 # Idle /\ w.doc \in Manifests /\ w.doc \notin {Absent, Torn}
  BY MarksAreNoManifests DEF Idle, Operations, Pcs
<1>2. \A f \in disk \cup Adding(w) : \E g \in new \cup Adding(w2) : g.index = f.index /\ g.tag = f.tag
  BY DEF Adding, NextCall
<1>3. ~reb => ValidOn(w2.doc, new \cup Adding(w2))
  <2>1. SUFFICES ASSUME ~reb PROVE ValidOn(w.doc, new \cup Adding(w2))
    OBVIOUS
  <2>2. ValidOn(w.doc, disk \cup Adding(w))
    BY <1>1, <2>1 DEF Place
  <2>3. QED
    BY <1>1, <1>2, <2>2, ValidKept
<1>4. Settled(w2.doc, new \cup Adding(w2))
  <2>1. Settled(w.doc, disk \cup Adding(w))
    BY <1>1 DEF Place
  <2>2. QED
    BY <1>1, <1>2, <2>1, SettledKept
<1>5. {"main", "bak", "tmp"} = Slots
  BY DEF Slots
<1>6. w2.pc \in {"unbackup", "aside", "promote"} => sl2["tmp"] = w2.doc
  <2>1. CASE w2.pc = "unbackup"
    BY <1>5, <2>1 DEF NextCall, SyncTmp
  <2>2. CASE w2.pc = "aside"
    BY <1>1, <1>5, <2>2 DEF NextCall, RemoveBak, Place
  <2>3. CASE w2.pc = "promote"
    BY <1>1, <1>5, <2>3 DEF NextCall, MoveAside, Place
  <2>4. QED
    BY <2>1, <2>2, <2>3
<1>7. w2.pc = "aside" => sl2["bak"] = Absent
  BY <1>5 DEF NextCall, RemoveBak
<1>8. w2.pc = "promote" => sl2["main"] = Absent /\ (w2.had <=> sl2["bak"] # Absent)
  <2>1. SUFFICES ASSUME w2.pc = "promote" PROVE sl2["main"] = Absent /\ (w2.had <=> sl2["bak"] # Absent)
    OBVIOUS
  <2>2. sl["bak"] = Absent /\ sl2 = MoveAside(sl) /\ (w2.had <=> sl["main"] # Absent)
    BY <1>1, <2>1 DEF NextCall, Place
  <2>3. sl2["main"] = Absent /\ sl2["bak"] = sl["main"]
    BY <1>5, <2>2 DEF MoveAside
  <2>4. QED
    BY <2>2, <2>3
<1>9. w2.pc = "clean" => sl2["main"] = w2.doc /\ sl2["tmp"] = Absent
  BY <1>1, <1>5 DEF NextCall, Promote, Place
<1>10. w2.pc = "sync" => sl2["tmp"] = Torn
  BY <1>5 DEF NextCall, CreateTmp
<1>11. QED
  BY <1>3, <1>4, <1>6, <1>7, <1>8, <1>9, <1>10 DEF Place

LEMMA NextHolds ==
    ASSUME NEW sl \in [Slots -> Manifests \cup {Absent, Torn}], NEW sl2,
           NEW w \in Operations, NEW w2 \in Operations, w2.doc = w.doc, w2.adds = w.adds,
           NEW disk, NEW new, \A f \in disk : \E g \in new : g.index = f.index /\ g.tag = f.tag,
           NEW reb, Place(w, sl, disk, reb), NextCall(w, w2, sl, sl2, disk, new),
           NEW old, NEW fl, Holds(w, sl, disk, old, fl)
    PROVE  Holds(w2, sl2, new, old, fl)
<1>1. w # Idle /\ w2 # Idle /\ {"main", "bak", "tmp"} = Slots /\ Extends(w2.doc, old)
  BY DEF Idle, Operations, Pcs, Holds, Slots
<1>2. ASSUME NEW s \in {"main", "bak"}, Leads(sl[s], w, disk, old)
      PROVE  Leads(sl[s], w2, new, old) /\ sl[s] # Absent
  <2>1. sl[s] \in Manifests /\ sl[s] # Absent
    BY <1>1, <1>2 DEF Leads
  <2>2. QED
    BY <1>1, <1>2, <2>1, LeadsKept
<1>3. CASE w.pc \in {"chunk", "flush", "create", "sync"}
  <2>1. sl2["main"] = sl["main"] /\ sl2["bak"] = sl["bak"]
    BY <1>1, <1>3 DEF NextCall, CreateTmp, SyncTmp
  <2>2. Leads(sl["main"], w, disk, old) \/ (fl = 1 /\ sl["main"] = Absent /\ Leads(sl["bak"], w, disk, old))
    BY <1>3 DEF Holds
  <2>3. Leads(sl2["main"], w2, new, old)
        \/ (fl = 1 /\ sl2["main"] = Absent /\ Leads(sl2["bak"], w2, new, old))
    BY <1>2, <2>1, <2>2
  <2>4. QED
    BY <1>1, <2>3 DEF Holds
<1>4. CASE w.pc = "unbackup"
  <2>1. sl2["main"] = sl["main"] /\ w2.pc = "aside"
    BY <1>1, <1>4 DEF NextCall, RemoveBak
  <2>2. Leads(sl["main"], w, disk, old) \/ (fl = 1 /\ sl["main"] = Absent)
    BY <1>4 DEF Holds
  <2>3. Leads(sl2["main"], w2, new, old) \/ (fl = 1 /\ sl2["main"] = Absent)
    BY <1>2, <2>1, <2>2
  <2>4. QED
    BY <1>1, <2>1, <2>3 DEF Holds
<1>5. CASE w.pc = "aside"
  <2>1. sl["bak"] = Absent /\ sl2 = MoveAside(sl) /\ w2.pc = "promote"
    BY <1>1, <1>5 DEF NextCall, Place
  <2>2. sl2["bak"] = sl["main"]
    BY <1>1, <2>1 DEF MoveAside
  <2>3. Leads(sl["main"], w, disk, old) \/ (fl = 1 /\ sl["main"] = Absent)
    BY <1>5 DEF Holds
  <2>4. Leads(sl2["bak"], w2, new, old) \/ (fl = 1 /\ sl2["bak"] = Absent)
    BY <1>2, <2>2, <2>3
  <2>5. QED
    BY <1>1, <2>1, <2>4 DEF Holds
<1>6. CASE w.pc = "promote"
  <2>1. w2.pc = "clean"
    BY <1>6 DEF NextCall
  <2>2. QED
    BY <1>1, <2>1 DEF Holds
<1>7. QED
  BY <1>3, <1>4, <1>5, <1>6 DEF NextCall

\* What every read finds.
LEMMA HistoryReadable ==
    ASSUME StoreInv, HistoryInv, faults <= 1, ~rebuilt, seen # Absent, NEW m, m = Readable
    PROVE  m # Absent /\ Extends(m, seen)
<1>1. PICK t \in Writers : /\ Place(writer[t], slots, files, rebuilt)
                           /\ Holds(writer[t], slots, files, seen, faults)
  BY DEF HistoryInv
<1>2. PICK w : w = writer[t]
  OBVIOUS
<1>3. w \in {Idle} \cup Operations /\ Idle.pc = "idle"
  BY <1>2, FilesNow DEF Idle
<1>4. CASE Leads(slots["main"], w, files, seen)
  BY <1>4 DEF Leads, Readable, Usable
<1>5. CASE slots["main"] = Absent /\ Leads(slots["bak"], w, files, seen)
  BY <1>5 DEF Leads, Readable, Usable
<1>6. ASSUME w.pc \in {"aside", "promote", "clean"}
      PROVE  /\ ValidOn(w.doc, files) /\ Extends(w.doc, seen) /\ w.doc \notin {Absent, Torn} /\ w # Idle
             /\ w.pc \in {"aside", "promote"} => slots["tmp"] = w.doc
             /\ w.pc = "clean" => slots["main"] = w.doc
             /\ w.pc = "promote" => slots["main"] = Absent
             /\ w.pc = "aside" => slots["bak"] = Absent
  <2>1. w # Idle /\ w \in Operations /\ files \cup Adding(w) = files
    BY <1>3, <1>6 DEF Adding
  <2>2. w.doc \notin {Absent, Torn}
    BY <2>1, MarksAreNoManifests DEF Operations
  <2>3. Place(w, slots, files, rebuilt) /\ Extends(w.doc, seen)
    BY <1>1, <1>2, <2>1 DEF Holds
  <2>4. QED
    BY <2>1, <2>2, <2>3 DEF Place
<1>7. CASE w.pc = "aside" /\ slots["main"] = Absent
  BY <1>6, <1>7 DEF Readable, Usable
<1>8. CASE w.pc = "promote" /\ (Leads(slots["bak"], w, files, seen) \/ slots["bak"] = Absent)
  BY <1>5, <1>6, <1>8 DEF Readable, Usable
<1>9. CASE w.pc = "clean"
  BY <1>6, <1>9 DEF Readable, Usable
<1>10. QED
  BY <1>1, <1>2, <1>4, <1>5, <1>7, <1>8, <1>9 DEF Holds

-----------------------------------------------------------------------------
(* The calls of a write keep the history *)

\* A failing call takes away no file but the one the operation added.
LEMMA GiveUpSpares ==
    ASSUME StoreInv, NEW t \in Writers, NEW w, w = writer[t], w \in Operations,
           OperationOK(w, files, shown, dropped), GiveUp(t)
    PROVE  /\ writer' = [writer EXCEPT ![t] = Idle] /\ UNCHANGED <<seen, rebuilt>>
           /\ \A f \in files : f \in files' \/ (w.adds # <<>> /\ f.index = w.adds[1].index)
<1>1. writer' = [writer EXCEPT ![t] = Idle] /\ UNCHANGED <<seen, rebuilt>>
  BY DEF GiveUp
<1>2. w.adds \in Seq(ChunkFiles) /\ (w.adds # <<>> => Len(w.adds) = 1)
  BY DEF Operations, OperationOK
<1>3. \A n \in DOMAIN w.adds : n = 1 /\ w.adds # <<>>
  BY <1>2
<1>4. ASSUME NEW f \in files, f \notin files'
      PROVE  \E n \in DOMAIN w.adds : f.index = w.adds[n].index
  BY <1>4 DEF GiveUp
<1>5. QED
  BY <1>1, <1>3, <1>4

Fails(w) ==
    /\ Fault /\ w.pc # "clean" /\ UNCHANGED <<seen, rebuilt>>
    /\ \A f \in files : f \in files' \/ (w.adds # <<>> /\ f.index = w.adds[1].index)
    /\ slots' = slots \/ (w.pc = "promote" /\ slots' = RestoreBak(slots, w.had))

Goes(w, w2) ==
    /\ w2 \in Operations /\ w2.doc = w.doc /\ w2.adds = w.adds
    /\ \A f \in files : \E g \in files' : g.index = f.index /\ g.tag = f.tag
    /\ NextCall(w, w2, slots, slots', files, files')
    /\ w.pc \notin {"chunk", "flush"} => files' = files
    /\ UNCHANGED <<seen, rebuilt, faults>>

LEMMA ChunkCalls ==
    ASSUME StoreInv, NEW t \in Writers, NEW w, w = writer[t], CreateChunk(t) \/ FlushChunk(t)
    PROVE  /\ w \in Operations
           /\ \/ /\ writer' = [writer EXCEPT ![t] = Idle]
                 /\ Fails(w) \/ (w.pc = "chunk" /\ UNCHANGED <<slots, files, seen, rebuilt, faults>>)
              \/ \E w2 : writer' = [writer EXCEPT ![t] = w2] /\ Goes(w, w2)
<1>1. w.pc \in {"chunk", "flush"} /\ UNCHANGED <<slots, seen, rebuilt>>
  BY DEF CreateChunk, FlushChunk
<1>2. w \in Operations /\ OperationOK(w, files, shown, dropped)
  BY <1>1, WriterAt
<1>3. w.adds \in Seq(ChunkFiles) /\ w.adds # <<>> /\ Head(w.adds) = w.adds[1]
      /\ w.adds[1].whole = TRUE /\ w.adds[1] \in ChunkFiles
  <2>1. w.adds \in Seq(ChunkFiles) /\ w.adds # <<>> /\ Len(w.adds) = 1 /\ w.adds[1].whole = TRUE
    BY <1>1, <1>2 DEF Operations, OperationOK
  <2>2. QED
    BY <2>1
<1>4. PICK h, partial : h = w.adds[1] /\ partial = ChunkFile(h.index, h.tag, FALSE)
  OBVIOUS
<1>5. partial.index = h.index /\ partial.tag = h.tag
  BY <1>4 DEF ChunkFile
<1>6. ASSUME NEW p \in {"flush", "create"}, Goto(t, p)
      PROVE  \E w2 \in Operations : /\ writer' = [writer EXCEPT ![t] = w2]
                                    /\ w2.pc = p /\ w2.doc = w.doc /\ w2.adds = w.adds
  <2>1. PICK w2 : w2 = [w EXCEPT !.pc = p]
    OBVIOUS
  <2>2. p \in Pcs
    BY DEF Pcs
  <2>3. w2 \in Operations /\ w2.pc = p /\ w2.doc = w.doc /\ w2.adds = w.adds
    BY <1>2, <2>1, <2>2 DEF Operations
  <2>4. writer' = [writer EXCEPT ![t] = w2]
    BY <1>6, <2>1, FilesNow DEF Goto
  <2>5. QED
    BY <2>3, <2>4
<1>7. CASE CreateChunk(t)
  <2>1. CASE writer' = [writer EXCEPT ![t] = Idle] /\ UNCHANGED <<files, faults>>
    BY <1>1, <1>2, <1>7, <2>1 DEF CreateChunk
  <2>2. CASE files' = files \cup {partial} /\ Goto(t, "flush") /\ UNCHANGED faults
    <3>1. PICK w2 \in Operations : /\ writer' = [writer EXCEPT ![t] = w2]
                                   /\ w2.pc = "flush" /\ w2.doc = w.doc /\ w2.adds = w.adds
      BY <1>6, <2>2
    <3>2. w.pc = "chunk"
      BY <1>7 DEF CreateChunk
    <3>3. NextCall(w, w2, slots, slots', files, files')
      BY <1>1, <3>1, <3>2 DEF NextCall
    <3>4. Goes(w, w2)
      BY <1>1, <2>2, <3>1, <3>3 DEF Goes
    <3>5. QED
      BY <1>2, <3>1, <3>4
  <2>3. QED
    BY <1>3, <1>4, <1>7, <2>1, <2>2 DEF CreateChunk
<1>8. CASE FlushChunk(t)
  <2>1. w.pc = "flush"
    BY <1>8 DEF FlushChunk
  <2>2. CASE files' = (files \ {partial}) \cup {h} /\ Goto(t, "create") /\ UNCHANGED faults
    <3>1. PICK w2 \in Operations : /\ writer' = [writer EXCEPT ![t] = w2]
                                   /\ w2.pc = "create" /\ w2.doc = w.doc /\ w2.adds = w.adds
      BY <1>6, <2>2
    <3>2. NextCall(w, w2, slots, slots', files, files')
      BY <1>1, <1>4, <2>1, <2>2, <3>1 DEF NextCall
    <3>3. \A f \in files : \E g \in files' : g.index = f.index /\ g.tag = f.tag
      BY <1>5, <2>2
    <3>4. Goes(w, w2)
      BY <1>1, <2>2, <3>1, <3>2, <3>3 DEF Goes
    <3>5. QED
      BY <1>2, <3>1, <3>4
  <2>3. CASE /\ Fault /\ files' \in {files, files \ {partial}}
             /\ writer' = [writer EXCEPT ![t] = Idle]
    <3>1. \A f \in files : f \in files' \/ f.index = w.adds[1].index
      BY <1>4, <1>5, <2>3
    <3>2. Fails(w)
      BY <1>1, <1>3, <2>1, <2>3, <3>1 DEF Fails
    <3>3. QED
      BY <1>2, <2>3, <3>2
  <2>4. QED
    BY <1>3, <1>4, <1>8, <2>2, <2>3 DEF FlushChunk
<1>9. QED
  BY <1>7, <1>8

LEMMA ManifestCalls ==
    ASSUME StoreInv, NEW t \in Writers, NEW w, w = writer[t],
           \/ CreateManifestTmp(t) \/ SyncManifestTmp(t) \/ RemoveOldBackup(t)
           \/ MoveManifestAside(t) \/ PromoteManifest(t),
           w.pc = "promote" => slots["tmp"] # Absent
    PROVE  /\ w \in Operations
           /\ \/ writer' = [writer EXCEPT ![t] = Idle] /\ Fails(w)
              \/ \E w2 : writer' = [writer EXCEPT ![t] = w2] /\ Goes(w, w2)
<1>1. w.pc \in {"create", "sync", "unbackup", "aside", "promote"}
  BY DEF CreateManifestTmp, SyncManifestTmp, RemoveOldBackup, MoveManifestAside, PromoteManifest
<1>2. w \in Operations /\ OperationOK(w, files, shown, dropped)
  BY <1>1, WriterAt
<1>3. ASSUME FailCall(t), slots' = slots \/ (w.pc = "promote" /\ slots' = RestoreBak(slots, w.had))
      PROVE  writer' = [writer EXCEPT ![t] = Idle] /\ Fails(w)
  <2>1. /\ writer' = [writer EXCEPT ![t] = Idle] /\ UNCHANGED <<seen, rebuilt>>
        /\ \A f \in files : f \in files' \/ (w.adds # <<>> /\ f.index = w.adds[1].index)
    BY <1>2, <1>3, GiveUpSpares DEF FailCall
  <2>2. QED
    BY <1>1, <1>3, <2>1 DEF Fails, FailCall
<1>4. ASSUME NEW p \in Pcs, NEW had, NEW w2, w2 = [w EXCEPT !.pc = p] \/ w2 = [w EXCEPT !.pc = p, !.had = had],
             had \in BOOLEAN,
             writer' = [writer EXCEPT ![t] = w2],
             UNCHANGED <<files, seen, rebuilt, faults>>,
             w2.pc = p /\ (w2.had = w.had \/ w2.had = had) => NextCall(w, w2, slots, slots', files, files')
      PROVE  Goes(w, w2)
  <2>1. w2 \in Operations /\ w2.doc = w.doc /\ w2.adds = w.adds /\ w2.pc = p
        /\ (w2.had = w.had \/ w2.had = had)
    BY <1>2, <1>4 DEF Operations
  <2>2. QED
    BY <1>4, <2>1 DEF Goes
<1>5. ASSUME NEW p, Goto(t, p) PROVE \E w2 : w2 = [w EXCEPT !.pc = p] /\ writer' = [writer EXCEPT ![t] = w2]
  BY <1>5, FilesNow DEF Goto
<1>6. {"sync", "unbackup", "aside", "promote", "clean"} \subseteq Pcs /\ FALSE \in BOOLEAN
  BY DEF Pcs
<1>7. CASE CreateManifestTmp(t)
  <2>1. CASE slots' = CreateTmp(slots) /\ Goto(t, "sync") /\ UNCHANGED <<files, seen, rebuilt, faults>>
    <3>1. PICK w2 : w2 = [w EXCEPT !.pc = "sync"] /\ writer' = [writer EXCEPT ![t] = w2]
      BY <1>5, <2>1
    <3>2. w2.pc = "sync" => NextCall(w, w2, slots, slots', files, files')
      BY <1>7, <2>1 DEF NextCall, CreateManifestTmp
    <3>3. Goes(w, w2)
      BY <1>4, <1>6, <2>1, <3>1, <3>2
    <3>4. QED
      BY <1>2, <3>1, <3>3
  <2>2. QED
    BY <1>2, <1>3, <1>7, <2>1 DEF CreateManifestTmp
<1>8. CASE SyncManifestTmp(t)
  <2>1. CASE slots' = SyncTmp(slots, w.doc) /\ Goto(t, "unbackup") /\ UNCHANGED <<files, seen, rebuilt, faults>>
    <3>1. PICK w2 : w2 = [w EXCEPT !.pc = "unbackup"] /\ writer' = [writer EXCEPT ![t] = w2]
      BY <1>5, <2>1
    <3>2. w2.pc = "unbackup" => NextCall(w, w2, slots, slots', files, files')
      BY <1>8, <2>1 DEF NextCall, SyncManifestTmp
    <3>3. Goes(w, w2)
      BY <1>4, <1>6, <2>1, <3>1, <3>2
    <3>4. QED
      BY <1>2, <3>1, <3>3
  <2>2. QED
    BY <1>2, <1>3, <1>8, <2>1 DEF SyncManifestTmp
<1>9. CASE RemoveOldBackup(t)
  <2>1. CASE slots' = RemoveBak(slots) /\ Goto(t, "aside") /\ UNCHANGED <<files, seen, rebuilt, faults>>
    <3>1. PICK w2 : w2 = [w EXCEPT !.pc = "aside"] /\ writer' = [writer EXCEPT ![t] = w2]
      BY <1>5, <2>1
    <3>2. w2.pc = "aside" => NextCall(w, w2, slots, slots', files, files')
      BY <1>9, <2>1 DEF NextCall, RemoveOldBackup
    <3>3. Goes(w, w2)
      BY <1>4, <1>6, <2>1, <3>1, <3>2
    <3>4. QED
      BY <1>2, <3>1, <3>3
  <2>2. QED
    BY <1>2, <1>3, <1>9, <2>1 DEF RemoveOldBackup
<1>10. CASE MoveManifestAside(t)
  <2>1. CASE /\ slots' = MoveAside(slots)
             /\ writer' = [writer EXCEPT ![t].pc = "promote", ![t].had = slots["main"] # Absent]
             /\ UNCHANGED <<files, seen, rebuilt, faults>>
    <3>1. PICK had \in BOOLEAN : had = (slots["main"] # Absent)
      OBVIOUS
    <3>2. PICK w2 : w2 = [w EXCEPT !.pc = "promote", !.had = had] /\ writer' = [writer EXCEPT ![t] = w2]
      BY <2>1, <3>1, FilesNow
    <3>3. w2 \in Operations /\ w2.doc = w.doc /\ w2.adds = w.adds /\ w2.pc = "promote" /\ w2.had = had
      BY <1>2, <1>6, <3>2 DEF Operations
    <3>4. NextCall(w, w2, slots, slots', files, files')
      BY <1>10, <2>1, <3>1, <3>3 DEF NextCall, MoveManifestAside
    <3>5. Goes(w, w2)
      BY <2>1, <3>3, <3>4 DEF Goes
    <3>6. QED
      BY <1>2, <3>2, <3>5
  <2>2. QED
    BY <1>2, <1>3, <1>10, <2>1 DEF MoveManifestAside
<1>11. CASE PromoteManifest(t)
  <2>1. CASE slots' = Promote(slots) /\ Goto(t, "clean") /\ UNCHANGED <<files, seen, rebuilt, faults>>
    <3>1. PICK w2 : w2 = [w EXCEPT !.pc = "clean"] /\ writer' = [writer EXCEPT ![t] = w2]
      BY <1>5, <2>1
    <3>2. w2.pc = "clean" => NextCall(w, w2, slots, slots', files, files')
      BY <1>11, <2>1 DEF NextCall, PromoteManifest
    <3>3. Goes(w, w2)
      BY <1>4, <1>6, <2>1, <3>1, <3>2
    <3>4. QED
      BY <1>2, <3>1, <3>3
  <2>2. w.pc = "promote" /\ slots["tmp"] # Absent
    BY <1>11 DEF PromoteManifest
  <2>3. CASE slots' \in {slots, RestoreBak(slots, w.had)} /\ FailCall(t)
    BY <1>2, <1>3, <2>2, <2>3
  <2>4. QED
    BY <1>11, <2>1, <2>2, <2>3 DEF PromoteManifest
<1>12. QED
  BY <1>7, <1>8, <1>9, <1>10, <1>11

\* The conclusion for a step of the writer at work or of none.
LEMMA HistoryStep ==
    ASSUME NEW t \in Writers, \A u \in Writers : u # t => writer'[u] = Idle,
           Place(writer'[t], slots', files', rebuilt'),
           faults' <= 1 /\ ~rebuilt' /\ seen' # Absent => Holds(writer'[t], slots', files', seen', faults')
    PROVE  HistoryInv'
BY DEF HistoryInv

LEMMA IdlePlace ==
    ASSUME NEW sl, NEW disk, NEW reb
    PROVE  Place(Idle, sl, disk, reb)
BY DEF Place

LEMMA HistoryWriteStep ==
    ASSUME StoreInv, SoundInv, HistoryInv, NEW t \in Writers, WriteStep(t)
    PROVE  HistoryInv'
<1>1. PICK w : w = writer[t]
  OBVIOUS
<1>2. writer \in [Writers -> {Idle} \cup Operations] /\ slots \in [Slots -> Manifests \cup {Absent, Torn}]
      /\ files \subseteq ChunkFiles /\ faults \in Nat
  BY FilesNow DEF SoundInv
<1>3. w.pc \in Pcs /\ w # Idle /\ w \in Operations
  <2>1. writer[t] \in Operations
    BY WriteShape
  <2>2. QED
    BY <1>1, <2>1 DEF Operations, Pcs, Idle
<1>4. /\ \A u \in Writers : u # t => writer[u] = Idle
      /\ Place(w, slots, files, rebuilt)
      /\ faults <= 1 /\ ~rebuilt /\ seen # Absent => Holds(w, slots, files, seen, faults)
  <2>1. PICK x \in Writers :
          /\ \A u \in Writers : u # x => writer[u] = Idle
          /\ Place(writer[x], slots, files, rebuilt)
          /\ faults <= 1 /\ ~rebuilt /\ seen # Absent => Holds(writer[x], slots, files, seen, faults)
    BY DEF HistoryInv
  <2>2. x = t
    BY <1>1, <1>3, <2>1
  <2>3. QED
    BY <1>1, <2>1, <2>2
<1>5. ASSUME NEW x, writer' = [writer EXCEPT ![t] = x]
      PROVE  writer'[t] = x /\ \A u \in Writers : u # t => writer'[u] = Idle
  BY <1>2, <1>4, <1>5
<1>6. w.pc = "promote" => slots["tmp"] # Absent
  BY <1>3, <1>4, MarksAreNoManifests DEF Place, Operations
<1>7. ASSUME NEW w2, writer' = [writer EXCEPT ![t] = w2], Goes(w, w2) PROVE HistoryInv'
  <2>1. PICK sl2, new : sl2 = slots' /\ new = files'
    OBVIOUS
  <2>2. /\ w2 \in Operations /\ w2.doc = w.doc /\ w2.adds = w.adds
        /\ \A f \in files : \E g \in new : g.index = f.index /\ g.tag = f.tag
        /\ NextCall(w, w2, slots, sl2, files, new)
        /\ UNCHANGED <<seen, rebuilt, faults>>
    BY <1>7, <2>1 DEF Goes
  <2>3. Place(w2, sl2, new, rebuilt)
    BY <1>2, <1>3, <1>4, <2>2, NextPlace
  <2>4. faults <= 1 /\ ~rebuilt /\ seen # Absent => Holds(w2, sl2, new, seen, faults)
    BY <1>2, <1>3, <1>4, <2>2, NextHolds
  <2>5. writer'[t] = w2 /\ \A u \in Writers : u # t => writer'[u] = Idle
    BY <1>5, <1>7
  <2>6. QED
    BY <2>1, <2>2, <2>3, <2>4, <2>5, HistoryStep
<1>8. ASSUME writer' = [writer EXCEPT ![t] = Idle], Fails(w) PROVE HistoryInv'
  <2>1. PICK sl2, new : sl2 = slots' /\ new = files'
    OBVIOUS
  <2>2. /\ w.pc # "clean" /\ UNCHANGED <<seen, rebuilt>> /\ faults' = faults + 1
        /\ \A f \in files : f \in new \/ (w # Idle /\ w.adds # <<>> /\ f.index = w.adds[1].index)
        /\ sl2 = slots \/ (w.pc = "promote" /\ sl2 = RestoreBak(slots, w.had))
    BY <1>3, <1>8, <2>1 DEF Fails, Fault
  <2>3. ASSUME faults' <= 1, ~rebuilt, seen # Absent PROVE Holds(Idle, sl2, new, seen, faults')
    <3>1. faults = 0 /\ faults' = 1
      BY <1>2, <2>2, <2>3
    <3>2. Place(w, slots, files, FALSE)
      BY <1>4, <2>3 DEF Place
    <3>3. Holds(w, slots, files, seen, 0)
      BY <1>4, <2>3, <3>1
    <3>4. Holds(Idle, sl2, new, seen, 1)
      BY <1>2, <1>3, <2>2, <3>2, <3>3, FaultHolds
    <3>5. QED
      BY <3>1, <3>4
  <2>4. writer'[t] = Idle /\ \A u \in Writers : u # t => writer'[u] = Idle
    BY <1>5, <1>8
  <2>5. Place(Idle, sl2, new, rebuilt)
    BY IdlePlace
  <2>6. QED
    BY <2>1, <2>2, <2>3, <2>4, <2>5, HistoryStep
<1>9. ASSUME writer' = [writer EXCEPT ![t] = Idle], w.pc = "chunk",
             UNCHANGED <<slots, files, seen, rebuilt, faults>>
      PROVE  HistoryInv'
  <2>1. writer'[t] = Idle /\ \A u \in Writers : u # t => writer'[u] = Idle
    BY <1>5, <1>9
  <2>2. ASSUME NEW s \in {"main", "bak"}, Leads(slots[s], w, files, seen)
        PROVE  Leads(slots[s], Idle, files, seen)
    BY <2>2 DEF Leads
  <2>3. Holds(w, slots, files, seen, faults) => Holds(Idle, slots, files, seen, faults)
    BY <1>9, <2>2 DEF Holds
  <2>4. Place(Idle, slots, files, rebuilt)
    BY IdlePlace
  <2>5. QED
    BY <1>4, <1>9, <2>1, <2>3, <2>4, HistoryStep
<1>10. CASE FinishWrite(t)
  <2>1. /\ w.pc = "clean" /\ UNCHANGED <<files, rebuilt>> /\ writer' = [writer EXCEPT ![t] = Idle]
        /\ seen' = Absent \/ seen' = w.doc
        /\ slots' = RemoveBak(slots) \/ slots' = slots
    BY <1>1, <1>10 DEF FinishWrite
  <2>2. slots'["main"] = w.doc
    <3>1. slots["main"] = w.doc
      BY <1>3, <1>4, <2>1 DEF Place
    <3>2. QED
      BY <1>2, <2>1, <3>1 DEF RemoveBak, Slots
  <2>3. w.doc \in Manifests /\ w.doc \notin {Absent, Torn} /\ files \cup Adding(w) = files
    BY <1>3, <2>1, MarksAreNoManifests DEF Operations, Adding
  <2>4. Extends(w.doc, w.doc)
    <3>1. w.doc.events >= w.doc.events
      BY <2>3 DEF Manifests
    <3>2. QED
      BY <2>3, <3>1, ExtendsKept
  <2>5. ~rebuilt => ValidOn(w.doc, files)
    BY <1>3, <1>4, <2>3 DEF Place
  <2>6. ~rebuilt /\ seen' # Absent => Leads(slots'["main"], Idle, files, seen')
    BY <2>1, <2>2, <2>3, <2>4, <2>5 DEF Leads
  <2>7. PICK sl2, old, fl : sl2 = slots' /\ old = seen' /\ fl = faults'
    OBVIOUS
  <2>8. ~rebuilt /\ old # Absent => Holds(Idle, sl2, files, old, fl)
    BY <2>6, <2>7 DEF Holds
  <2>9. writer'[t] = Idle /\ \A u \in Writers : u # t => writer'[u] = Idle
    BY <1>5, <2>1
  <2>10. Place(Idle, sl2, files, rebuilt)
    BY IdlePlace
  <2>11. QED
    BY <2>1, <2>7, <2>8, <2>9, <2>10, HistoryStep
<1>11. CASE CreateChunk(t) \/ FlushChunk(t)
  BY <1>1, <1>7, <1>8, <1>9, <1>11, ChunkCalls
<1>12. CASE \/ CreateManifestTmp(t) \/ SyncManifestTmp(t) \/ RemoveOldBackup(t)
            \/ MoveManifestAside(t) \/ PromoteManifest(t)
  BY <1>1, <1>6, <1>7, <1>8, <1>12, ManifestCalls
<1>13. QED
  BY <1>10, <1>11, <1>12 DEF WriteStep

-----------------------------------------------------------------------------
(* The operations begin from what leads *)

\* Nobody writes: the manifest a read finds is the one that leads.
LEMMA IdleLeads ==
    ASSUME StoreInv, HistoryInv, \A u \in Writers : writer[u] = Idle,
           faults <= 1, ~rebuilt, seen # Absent, NEW m, m = Readable
    PROVE  /\ m \in Manifests /\ seen \in Manifests /\ Leads(m, Idle, files, seen)
           /\ \/ m = slots["main"]
              \/ faults = 1 /\ slots["main"] = Absent /\ m = slots["bak"]
<1>1. Holds(Idle, slots, files, seen, faults)
  BY DEF HistoryInv
<1>2. Idle.pc = "idle"
  BY DEF Idle
<1>3. CASE Leads(slots["main"], Idle, files, seen)
  <2>1. m = slots["main"]
    BY <1>3 DEF Leads, Readable, Usable
  <2>2. QED
    BY <1>3, <2>1, FilesNow DEF Leads, Slots
<1>4. CASE faults = 1 /\ slots["main"] = Absent /\ Leads(slots["bak"], Idle, files, seen)
  <2>1. m = slots["bak"]
    BY <1>4 DEF Leads, Readable, Usable
  <2>2. QED
    BY <1>4, <2>1, FilesNow DEF Leads, Slots
<1>5. QED
  BY <1>1, <1>2, <1>3, <1>4 DEF Holds

LEMMA HistoryBegin ==
    ASSUME StoreInv, HistoryInv, ~overlapped', NEW t \in Writers, Ready(t), NEW m, m = Readable, m # Absent,
           NEW op, NEW doc \in Manifests, NEW adds, Begin(t, op, doc, adds), Kept,
           NEW disk, disk = (IF adds = <<>> THEN files ELSE files \cup {adds[1]}), ValidOn(doc, disk),
           Extends(doc, m), adds # <<>> => adds[1].index = Len(m.chunks)
    PROVE  HistoryInv'
<1>1. PICK w : w = [pc |-> IF adds = <<>> THEN "create" ELSE "chunk",
                    op |-> op, doc |-> doc, adds |-> adds, had |-> FALSE]
  OBVIOUS
<1>2. writer' = [writer EXCEPT ![t] = w] /\ UNCHANGED <<slots, files, seen, rebuilt, faults>>
  BY <1>1 DEF Begin, Kept
<1>3. /\ w.pc = IF adds = <<>> THEN "create" ELSE "chunk"
      /\ w.doc = doc /\ w.adds = adds /\ w # Idle
  BY <1>1 DEF Idle
<1>4. \A u \in Writers : writer[u] = Idle
  BY DEF Ready, Free, Begin, Meet
<1>5. writer'[t] = w /\ \A u \in Writers : u # t => writer'[u] = Idle
  BY <1>2, <1>4, FilesNow
<1>6. files \cup Adding(w) = disk
  BY <1>3 DEF Adding
<1>7. Place(w, slots, files, rebuilt)
  BY <1>3, <1>6 DEF Place, Settled
<1>8. ASSUME faults <= 1, ~rebuilt, seen # Absent PROVE Holds(w, slots, files, seen, faults)
  <2>1. /\ m \in Manifests /\ seen \in Manifests /\ Leads(m, Idle, files, seen)
        /\ \/ m = slots["main"]
           \/ faults = 1 /\ slots["main"] = Absent /\ m = slots["bak"]
    BY <1>4, <1>8, IdleLeads
  <2>2. Len(m.chunks) <= Len(m.chunks)
    BY <2>1 DEF Manifests
  <2>3. Leads(m, w, files, seen)
    BY <1>3, <2>1, <2>2 DEF Leads
  <2>4. Extends(doc, seen)
    BY <2>1, ExtendsChain DEF Leads
  <2>5. QED
    BY <1>3, <2>1, <2>3, <2>4 DEF Holds
<1>9. QED
  BY <1>2, <1>5, <1>7, <1>8, HistoryStep

LEMMA HistoryChunkOperations ==
    ASSUME StoreInv, SoundInv, HistoryInv, ~overlapped',
           \/ WriteTextChunk \/ WriteAudioChunk \/ SaveNotes
           \/ \E tag \in Attempts \cup {"plain"} : WriteTranscriptSegment(tag)
    PROVE  HistoryInv'
<1>1. PICK m : m = Readable
  OBVIOUS
<1>2. "plain" \notin Attempts
  BY StoreConstants
<1>3. PICK kind \in {"text", "audio", "segment"}, tag \in Attempts \cup {"plain"} :
        /\ Begin("guarded", "chunk", AddChunk(m, kind, tag), NewFile(m, tag))
        /\ Ready("guarded") /\ Open(m) /\ Kept /\ (tag \in Attempts => kind = "segment")
  BY <1>1, <1>2 DEF WriteTextChunk, WriteAudioChunk, SaveNotes, WriteTranscriptSegment
<1>4. m # Absent /\ m \in Manifests /\ RawOwned(m) /\ ValidOn(m, files) /\ Fine(m, files, shown, dropped)
  BY <1>1, <1>3, ReadableSound DEF Open, Sound
<1>5. tag \in Tags /\ tag # "raw"
  BY StoreConstants DEF Tags
<1>6. PICK d, f : d = AddChunk(m, kind, tag) /\ f = ChunkFile(Len(m.chunks), tag, TRUE)
  OBVIOUS
<1>7. d \in Manifests
  BY <1>4, <1>5, <1>6, DocAdds
<1>8. ValidOn(d, files \cup {f}) /\ Extends(d, m)
  BY <1>3, <1>4, <1>6, <1>7, ValidAdds
<1>9. PICK adds : adds = NewFile(m, tag)
  OBVIOUS
<1>10. adds = <<f>> /\ adds # <<>> /\ adds[1] = f /\ f.index = Len(m.chunks)
  BY <1>6, <1>9 DEF NewFile, ChunkFile
<1>11. Begin("guarded", "chunk", d, adds) /\ "guarded" \in Writers
  BY <1>3, <1>6, <1>9 DEF Writers
<1>12. files \cup {f} = (IF adds = <<>> THEN files ELSE files \cup {adds[1]})
  BY <1>10
<1>13. QED
  BY <1>1, <1>3, <1>4, <1>7, <1>8, <1>10, <1>11, <1>12, HistoryBegin

LEMMA HistoryKeeping ==
    ASSUME StoreInv, SoundInv, HistoryInv, ~overlapped', NEW m, m = Readable, m # Absent,
           NEW t \in Writers, Ready(t), NEW op, NEW d \in Manifests, Begin(t, op, d, <<>>), Kept,
           d.chunks = m.chunks, d.revs = m.revs, d.cleaned = m.cleaned, d.events >= m.events,
           \/ d.current = m.current
           \/ d.current \in DOMAIN m.revs /\ EffectiveKind(m.revs[d.current]) # "ai-cleaned",
           NEW k,
           \/ d.receipts = m.receipts
           \/ /\ d.receipts = Append(m.receipts, k) /\ Len(m.receipts) < MaxReceipts
              /\ k.input \in 0..Len(m.revs) /\ k.rev = 0
              /\ k.outcome = "succeeded" => k.op = "recap" /\ k.input # 0
    PROVE  HistoryInv'
<1>1. m \in Manifests /\ RawOwned(m) /\ ValidOn(m, files)
  BY ReadableSound DEF Sound
<1>2. ValidOn(d, files)
  BY <1>1, ValidPlain
<1>3. Extends(d, m)
  BY <1>1, ExtendsKept
<1>4. PICK adds : adds = <<>>
  OBVIOUS
<1>5. files = (IF adds = <<>> THEN files ELSE files \cup {adds[1]})
  BY <1>4
<1>6. QED
  BY <1>2, <1>3, <1>4, <1>5, HistoryBegin

LEMMA HistoryPlainOperations ==
    ASSUME StoreInv, SoundInv, HistoryInv, ~overlapped',
           \/ Finish \/ MarkNeedsRecovery \/ AppendPrivacyEvent \/ RecordRecapReceipt
           \/ \E v \in 1..MaxRevisions : SelectTranscriptRevision(v)
           \/ \E a \in Attempts : RecordFailure(a)
    PROVE  HistoryInv'
<1>1. PICK m : m = Readable
  OBVIOUS
<1>2. m # Absent
  BY <1>1, RecapReads DEF Finish, MarkNeedsRecovery, AppendPrivacyEvent, SelectTranscriptRevision, RecordFailure
<1>3. m \in Manifests /\ "guarded" \in Writers /\ "recap" \in Writers
  BY <1>1, <1>2, ReadableSound DEF Writers
<1>4. m.receipts \in Seq(Receipts) /\ m.revs \in Seq(Revisions) /\ m.current \in Nat /\ m.events \in Nat
      /\ m.events + 1 \in Nat /\ m.events + 1 >= m.events /\ m.events >= m.events
  <2>1. m.receipts \in Seq(Receipts) /\ m.revs \in Seq(Revisions) /\ m.current \in Nat /\ m.events \in Nat
    BY <1>3 DEF Manifests
  <2>2. QED
    BY <2>1
<1>5. ASSUME NEW op, NEW d,
             \/ d = [m EXCEPT !.state = "finished"] \/ d = [m EXCEPT !.state = "needsRecovery"]
             \/ d = [m EXCEPT !.events = @ + 1]
             \/ \E v \in 1..MaxRevisions : /\ d = [m EXCEPT !.current = v]
                                           /\ v \in DOMAIN m.revs /\ EffectiveKind(m.revs[v]) # "ai-cleaned",
             Begin("guarded", op, d, <<>>), Kept, Ready("guarded")
      PROVE  HistoryInv'
  <2>1. /\ d \in Manifests /\ d.chunks = m.chunks /\ d.revs = m.revs /\ d.receipts = m.receipts
        /\ d.cleaned = m.cleaned /\ d.events >= m.events
        /\ \/ d.current = m.current
           \/ d.current \in DOMAIN m.revs /\ EffectiveKind(m.revs[d.current]) # "ai-cleaned"
    <3>1. CASE d = [m EXCEPT !.state = "finished"] \/ d = [m EXCEPT !.state = "needsRecovery"]
      BY <1>3, <1>4, <3>1 DEF Manifests, States
    <3>2. CASE d = [m EXCEPT !.events = @ + 1]
      <4>1. d.events = m.events + 1
        BY <1>3, <3>2 DEF Manifests
      <4>2. QED
        BY <1>3, <1>4, <3>2, <4>1 DEF Manifests
    <3>3. ASSUME NEW v \in 1..MaxRevisions, d = [m EXCEPT !.current = v],
                 v \in DOMAIN m.revs, EffectiveKind(m.revs[v]) # "ai-cleaned"
          PROVE  /\ d \in Manifests /\ d.chunks = m.chunks /\ d.revs = m.revs /\ d.receipts = m.receipts
                 /\ d.cleaned = m.cleaned /\ d.events = m.events /\ d.current = v
      <4>1. v \in Nat
        BY StoreConstants
      <4>2. QED
        BY <1>3, <3>3, <4>1 DEF Manifests
    <3>4. QED
      BY <1>4, <1>5, <3>1, <3>2, <3>3
  <2>2. QED
    BY <1>1, <1>2, <1>3, <1>5, <2>1, HistoryKeeping
<1>6. ASSUME NEW t \in Writers, NEW op, NEW k \in Receipts, k.rev = 0, Len(m.receipts) < MaxReceipts,
             k.input \in 0..Len(m.revs), k.outcome = "succeeded" => k.op = "recap" /\ k.input # 0,
             Begin(t, op, [m EXCEPT !.receipts = Append(@, k)], <<>>), Kept, Ready(t)
      PROVE  HistoryInv'
  <2>1. PICK d : d = [m EXCEPT !.receipts = Append(@, k)]
    OBVIOUS
  <2>2. d \in Manifests /\ d.chunks = m.chunks /\ d.revs = m.revs
    BY <1>3, <1>6, <2>1, ReceiptFits
  <2>3. d.receipts = Append(m.receipts, k) /\ d.cleaned = m.cleaned /\ d.current = m.current
        /\ d.events >= m.events
    BY <1>3, <1>4, <2>1 DEF Manifests
  <2>4. Begin(t, op, d, <<>>)
    BY <1>6, <2>1
  <2>5. QED
    BY <1>1, <1>2, <1>6, <2>2, <2>3, <2>4, HistoryKeeping
<1>7. CASE Finish \/ MarkNeedsRecovery
  BY <1>1, <1>5, <1>7 DEF Finish, MarkNeedsRecovery
<1>8. CASE AppendPrivacyEvent
  BY <1>1, <1>5, <1>8 DEF AppendPrivacyEvent
<1>9. CASE \E v \in 1..MaxRevisions : SelectTranscriptRevision(v)
  BY <1>1, <1>5, <1>9 DEF SelectTranscriptRevision
<1>10. CASE RecordRecapReceipt
  <2>1. PICK k : k = Receipt("recap", "succeeded", 0, m.current)
    OBVIOUS
  <2>2. k \in Receipts /\ k.rev = 0 /\ k.op = "recap" /\ k.input = m.current
    BY <1>4, <2>1 DEF Receipt, Receipts, Processing
  <2>3. /\ Begin("recap", "recap", [m EXCEPT !.receipts = Append(@, k)], <<>>) /\ Kept /\ Ready("recap")
        /\ m.current \in DOMAIN m.revs /\ Len(m.receipts) < MaxReceipts
    BY <1>1, <1>10, <2>1, RecapReads
  <2>4. m.current \in 0..Len(m.revs) /\ m.current # 0
    BY <1>4, <2>3
  <2>5. QED
    BY <1>3, <1>6, <2>2, <2>3, <2>4
<1>11. CASE \E a \in Attempts : RecordFailure(a)
  <2>1. PICK a \in Attempts : RecordFailure(a)
    BY <1>11
  <2>2. PICK op, base : op = (IF att[a].pc = "cleanup" THEN "transcript-cleanup" ELSE "transcription")
                        /\ base = (IF att[a].pc = "cleanup" THEN att[a].base ELSE 0)
    OBVIOUS
  <2>3. op \in Processing /\ base \in 0..Len(m.revs)
    <3>1. att[a].pc = "cleanup" => att[a].base \in DOMAIN m.revs
      BY <1>1, <2>1 DEF RecordFailure
    <3>2. QED
      BY <1>4, <2>2, <3>1 DEF Processing
  <2>4. PICK k : k = Receipt(op, "failed", 0, base)
    OBVIOUS
  <2>5. k \in Receipts /\ k.rev = 0 /\ k.outcome = "failed" /\ k.input = base
    BY <2>3, <2>4 DEF Receipt, Receipts
  <2>6. /\ Begin("guarded", "failure", [m EXCEPT !.receipts = Append(@, k)], <<>>) /\ Kept
        /\ Ready("guarded") /\ Len(m.receipts) < MaxReceipts
    BY <1>1, <2>1, <2>2, <2>4 DEF RecordFailure
  <2>7. QED
    BY <1>3, <1>6, <2>3, <2>5, <2>6
<1>12. QED
  BY <1>7, <1>8, <1>9, <1>10, <1>11

LEMMA HistoryCommitting ==
    ASSUME StoreInv, SoundInv, HistoryInv, ~overlapped', Ready("guarded"), NEW m, m = Readable, m # Absent,
           NEW base \in Manifests, base.chunks = m.chunks, Extends(base, m),
           Fine(base, files, shown, dropped), Sound(base), ValidOn(base, files), NEW a \in Attempts,
           Len(base.revs) < MaxRevisions, Len(base.receipts) < MaxReceipts,
           NEW kind \in {"raw-asr", "normalized"}, NEW source \in {"initial", "reprocess", "review"},
           NEW parent \in 0..Len(base.revs), NEW op \in Processing \ {"recap"}, NEW stored \in BOOLEAN,
           stored => Len(m.chunks) < MaxChunks,
           Begin("guarded", "commit",
                 CommitRevision(base, kind, source, parent, op, SegmentsOf(m, a), stored),
                 IF stored THEN NewFile(m, "raw") ELSE <<>>),
           Kept
    PROVE  HistoryInv'
<1>1. PICK idx, sh : idx = SegmentsOf(m, a) /\ sh = shown \cup {a}
  OBVIOUS
<1>2. m \in Manifests
  BY ReadableSound
<1>3. idx = SegmentsOf(base, a)
  BY <1>1 DEF SegmentsOf, Indices, Chunk
<1>4. Fine(base, files, sh, dropped)
  BY <1>1, FineGrows
<1>5. /\ idx \in SUBSET Nat
      /\ \A i \in idx : i \in Indices(base) /\ Chunk(base, i).tag \in sh \cup {"plain"}
  BY <1>1, <1>3, SegmentsFine
<1>6. /\ kind \in {"legacy", "raw-asr", "normalized", "ai-cleaned"}
      /\ source \in {"initial", "reprocess", "review", "ai-cleanup"}
      /\ parent \in Nat /\ op \in Processing
  OBVIOUS
<1>7. CommitRevision(base, kind, source, parent, op, idx, stored) \in Manifests
  BY <1>4, <1>5, <1>6, CommitFine, ZenonT(40)
<1>8. PICK d, adds, f : /\ d = CommitRevision(base, kind, source, parent, op, idx, stored)
                        /\ adds = IF stored THEN NewFile(m, "raw") ELSE <<>>
                        /\ f = ChunkFile(Len(base.chunks), "raw", TRUE)
  OBVIOUS
<1>9. source # "ai-cleanup" /\ op # "recap" /\ (stored => Len(base.chunks) < MaxChunks) /\ d \in Manifests
  BY <1>7, <1>8
<1>10. PICK disk : disk = IF stored THEN files \cup {f} ELSE files
  OBVIOUS
<1>11. ValidOn(d, disk) /\ Extends(d, base)
  <2>1. ValidOn(d, IF stored THEN files \cup {f} ELSE files) /\ Extends(d, base)
    BY <1>3, <1>8, <1>9, ValidCommit, ZenonT(40)
  <2>2. QED
    BY <1>10, <2>1
<1>12. Extends(d, m)
  BY <1>2, <1>9, <1>11, ExtendsChain
<1>13. /\ stored => adds = <<f>> /\ adds # <<>> /\ adds[1] = f /\ f.index = Len(m.chunks)
       /\ ~stored => adds = <<>>
  BY <1>8 DEF NewFile, ChunkFile
<1>14. disk = (IF adds = <<>> THEN files ELSE files \cup {adds[1]})
       /\ (adds # <<>> => adds[1].index = Len(m.chunks))
  BY <1>10, <1>13
<1>15. Begin("guarded", "commit", d, adds) /\ "guarded" \in Writers
  BY <1>1, <1>8 DEF Writers
<1>16. QED
  BY <1>9, <1>11, <1>12, <1>14, <1>15, HistoryBegin

LEMMA HistoryAttemptOperations ==
    ASSUME StoreInv, SoundInv, HistoryInv, ~overlapped', NEW a \in Attempts,
           \/ \E p \in {"transcription", "review", "cleanup"} : BeginAttempt(a, p)
           \/ \E stored \in BOOLEAN : CompleteTranscription(a, stored) \/ CompleteReview(a, stored)
           \/ CompleteCleanup(a)
    PROVE  HistoryInv'
<1>1. PICK m : m = Readable
  OBVIOUS
<1>2. m # Absent
  BY <1>1 DEF BeginAttempt, CompleteTranscription, CompleteReview, CompleteCleanup, Committable
<1>3. m \in Manifests /\ Sound(m) /\ RawOwned(m) /\ ValidOn(m, files) /\ Fine(m, files, shown, dropped)
  BY <1>1, <1>2, ReadableSound DEF Sound
<1>4. /\ m.revs \in Seq(Revisions) /\ m.receipts \in Seq(Receipts) /\ m.current \in Nat
      /\ Len(m.revs) + 1 \in Nat /\ m.events >= m.events
  <2>1. m.revs \in Seq(Revisions) /\ m.receipts \in Seq(Receipts) /\ m.current \in Nat /\ m.events \in Nat
    BY <1>3 DEF Manifests
  <2>2. QED
    BY <2>1
<1>5. ASSUME NEW p \in {"transcription", "review", "cleanup"}, BeginAttempt(a, p) PROVE HistoryInv'
  <2>1. UNCHANGED <<slots, files, writer, seen, rebuilt, faults>>
    BY <1>5 DEF BeginAttempt, Kept
  <2>2. QED
    BY <2>1 DEF HistoryInv
<1>6. ASSUME NEW stored \in BOOLEAN, CompleteTranscription(a, stored) PROVE HistoryInv'
  <2>1. PICK base : base = PromoteLegacy(m)
    OBVIOUS
  <2>2. base \in Manifests /\ base.chunks = m.chunks /\ Fine(base, files, shown, dropped)
    BY <1>3, <2>1, LegacyFine
  <2>3. Sound(base)
    BY <1>3, <2>1, <2>2, SoundLegacy
  <2>4. PICK source : source = IF base.revs = <<>> THEN "initial" ELSE "reprocess"
    OBVIOUS
  <2>5. /\ Begin("guarded", "commit",
                 CommitRevision(base, "raw-asr", source, 0, "transcription", SegmentsOf(m, a), stored),
                 IF stored THEN NewFile(m, "raw") ELSE <<>>)
        /\ Kept /\ (stored => Len(m.chunks) < MaxChunks) /\ Ready("guarded") /\ Committable(m)
    BY <1>1, <1>6, <2>1, <2>4 DEF CompleteTranscription
  <2>6. /\ ValidOn(base, files) /\ Extends(base, m) /\ base.receipts = m.receipts
        /\ base.revs = m.revs \/ Len(base.revs) = 1
    BY <1>3, <2>1, <2>2, ValidLegacy
  <2>7. Len(base.revs) < MaxRevisions /\ Len(base.receipts) < MaxReceipts
    <3>1. MaxRevisions \in Nat /\ MaxRevisions >= 2
      BY StoreConstants
    <3>2. Len(m.revs) < MaxRevisions /\ Len(m.receipts) < MaxReceipts
      BY <2>5 DEF Committable
    <3>3. Len(base.revs) < MaxRevisions
      <4>1. CASE base.revs = m.revs
        BY <3>2, <4>1
      <4>2. CASE Len(base.revs) = 1
        <5>1. 1 < MaxRevisions
          BY <3>1
        <5>2. QED
          BY <4>2, <5>1, Zenon
      <4>3. QED
        BY <2>6, <4>1, <4>2, Zenon
    <3>4. QED
      BY <2>6, <3>2, <3>3
  <2>8. 0 \in 0..Len(base.revs)
    <3>1. base.revs \in Seq(Revisions)
      BY <2>2 DEF Manifests
    <3>2. QED
      BY <3>1
  <2>9. source \in {"initial", "reprocess", "review"} /\ "transcription" \in Processing \ {"recap"}
    BY <2>4 DEF Processing
  <2>10. QED
    BY <1>1, <1>2, <2>2, <2>3, <2>5, <2>6, <2>7, <2>8, <2>9, HistoryCommitting
<1>7. ASSUME NEW stored \in BOOLEAN, CompleteReview(a, stored) PROVE HistoryInv'
  <2>1. PICK parent : parent = m.current
    OBVIOUS
  <2>2. /\ Begin("guarded", "commit",
                 CommitRevision(m, "normalized", "review", parent, "protected-term-review",
                                SegmentsOf(m, a), stored),
                 IF stored THEN NewFile(m, "raw") ELSE <<>>)
        /\ Kept /\ (stored => Len(m.chunks) < MaxChunks) /\ Ready("guarded") /\ Committable(m)
        /\ m.current \in DOMAIN m.revs
    BY <1>1, <1>7, <2>1 DEF CompleteReview
  <2>3. parent \in 0..Len(m.revs) /\ "protected-term-review" \in Processing \ {"recap"}
    BY <1>4, <2>1, <2>2 DEF Processing
  <2>4. Len(m.revs) < MaxRevisions /\ Len(m.receipts) < MaxReceipts
    BY <2>2 DEF Committable
  <2>5. Extends(m, m)
    BY <1>3, <1>4, ExtendsKept
  <2>6. QED
    BY <1>1, <1>2, <1>3, <2>2, <2>3, <2>4, <2>5, HistoryCommitting
<1>8. CASE CompleteCleanup(a)
  <2>1. PICK r : r = Revision("ai-cleaned", "ai-cleanup", m.current, SegmentsOf(m, a), NoRaw)
    OBVIOUS
  <2>2. r \in Revisions
    BY <1>3, <1>4, <2>1, SegmentsFine DEF Revision, Revisions, NoRaw
  <2>3. PICK k : k = Receipt("transcript-cleanup", "succeeded", Len(m.revs) + 1, m.current)
    OBVIOUS
  <2>4. k \in Receipts
    BY <1>4, <2>3 DEF Receipt, Receipts, Processing
  <2>5. PICK d : d = [m EXCEPT !.revs = Append(@, r), !.cleaned = Len(m.revs) + 1,
                               !.receipts = Append(@, k)]
    OBVIOUS
  <2>6. Append(m.revs, r) \in Seq(Revisions) /\ Append(m.receipts, k) \in Seq(Receipts)
    BY <1>4, <2>2, <2>4
  <2>7. /\ d \in Manifests /\ d.chunks = m.chunks /\ d.events >= m.events
        /\ d.revs = Append(m.revs, r) /\ d.receipts = Append(m.receipts, k)
    BY <1>3, <1>4, <2>5, <2>6 DEF Manifests
  <2>8. Extends(d, m)
    BY <1>3, <2>7, ExtendsKept
  <2>9. /\ Begin("guarded", "cleanup", d, <<>>) /\ Kept /\ Ready("guarded") /\ ValidOn(d, files)
        /\ "guarded" \in Writers
    BY <1>1, <1>8, <2>1, <2>3, <2>5 DEF CompleteCleanup, Writers
  <2>10. PICK adds : adds = <<>>
    OBVIOUS
  <2>11. files = (IF adds = <<>> THEN files ELSE files \cup {adds[1]})
    BY <2>10
  <2>12. QED
    BY <1>1, <1>2, <2>7, <2>8, <2>9, <2>10, <2>11, HistoryBegin
<1>9. QED
  BY <1>5, <1>6, <1>7, <1>8

LEMMA HistoryOthers ==
    ASSUME StoreInv, SoundInv, HistoryInv, ~overlapped', Start \/ AbortUnfinished \/ Crash
    PROVE  HistoryInv'
<1>1. "guarded" \in Writers
  BY DEF Writers
<1>2. CASE Start
  <2>1. PICK d : d = EmptyManifest("recording")
    OBVIOUS
  <2>2. PICK w : w = [pc |-> "create", op |-> "start", doc |-> d, adds |-> <<>>, had |-> FALSE]
    OBVIOUS
  <2>3. /\ writer' = [writer EXCEPT !["guarded"] = w] /\ UNCHANGED <<slots, files, seen, rebuilt, faults>>
        /\ seen = Absent /\ \A u \in Writers : writer[u] = Idle
    BY <1>2, <2>1, <2>2 DEF Start, Begin, Meet, Kept, Ready, Free
  <2>4. w.pc = "create" /\ w.doc = d /\ w # Idle
    BY <2>2 DEF Idle
  <2>5. ValidOn(d, files)
    <3>1. d.chunks = <<>> /\ d.revs = <<>> /\ d.receipts = <<>> /\ d.current = 0 /\ d.cleaned = 0
      BY <2>1 DEF EmptyManifest
    <3>2. Indices(d) = {} /\ DOMAIN d.revs = {} /\ DOMAIN d.receipts = {} /\ Len(d.revs) = 0
          /\ Len(d.receipts) = 0
      BY <3>1 DEF Indices
    <3>3. MaxRevisions \in Nat /\ MaxReceipts \in Nat
      BY StoreConstants
    <3>4. ChunkDescriptorsValid(d, files) /\ RevisionsValid(d)
      BY <3>2, <3>3 DEF ChunkDescriptorsValid, RevisionsValid
    <3>5. SelectionValid(d) /\ ReceiptsValid(d)
      BY <3>1, <3>2, <3>3 DEF SelectionValid, ReceiptsValid, RawOwned
    <3>6. QED
      BY <3>4, <3>5 DEF ValidOn
  <2>6. files \cup Adding(w) = files
    BY <2>4 DEF Adding
  <2>7. Place(w, slots, files, rebuilt)
    BY <2>4, <2>5, <2>6 DEF Place, Settled
  <2>8. writer'["guarded"] = w /\ \A u \in Writers : u # "guarded" => writer'[u] = Idle
    BY <1>1, <2>3, FilesNow
  <2>9. QED
    BY <1>1, <2>3, <2>7, <2>8, HistoryStep
<1>3. CASE AbortUnfinished
  <2>1. writer' = writer /\ seen' = Absent /\ \A u \in Writers : writer[u] = Idle
    BY <1>3 DEF AbortUnfinished, Meet, Ready, Free
  <2>2. PICK sl, disk, reb : sl = slots' /\ disk = files' /\ reb = rebuilt'
    OBVIOUS
  <2>3. Place(Idle, sl, disk, reb)
    BY IdlePlace
  <2>4. QED
    BY <1>1, <2>1, <2>2, <2>3, HistoryStep
<1>4. CASE Crash
  <2>1. /\ writer' = [t \in Writers |-> Idle] /\ faults' = faults + 1
        /\ UNCHANGED <<slots, files, seen, rebuilt>>
    BY <1>4 DEF Crash, Fault
  <2>2. PICK t \in Writers :
          /\ Place(writer[t], slots, files, rebuilt)
          /\ faults <= 1 /\ ~rebuilt /\ seen # Absent => Holds(writer[t], slots, files, seen, faults)
    BY DEF HistoryInv
  <2>3. PICK w : w = writer[t]
    OBVIOUS
  <2>4. w \in {Idle} \cup Operations /\ slots \in [Slots -> Manifests \cup {Absent, Torn}]
        /\ files \subseteq ChunkFiles /\ faults \in Nat
    BY <2>3, FilesNow DEF SoundInv
  <2>5. ASSUME faults' <= 1, ~rebuilt, seen # Absent PROVE Holds(Idle, slots, files, seen, faults')
    <3>1. faults = 0 /\ faults' = 1
      BY <2>1, <2>4, <2>5
    <3>2. Place(w, slots, files, FALSE) /\ Holds(w, slots, files, seen, 0)
      BY <2>2, <2>3, <2>5, <3>1 DEF Place
    <3>3. Holds(Idle, slots, files, seen, 1)
      BY <2>4, <3>2, FaultHolds
    <3>4. QED
      BY <3>1, <3>3
  <2>6. writer'[t] = Idle /\ \A u \in Writers : u # t => writer'[u] = Idle
    BY <2>1
  <2>7. Place(Idle, slots, files, rebuilt)
    BY IdlePlace
  <2>8. QED
    BY <2>1, <2>5, <2>6, <2>7, HistoryStep
<1>5. QED
  BY <1>2, <1>3, <1>4

\* The manifest that recovery writes lists files it has seen.
LEMMA RecoverDoc ==
    ASSUME StoreInv, SoundInv, NEW loaded, NEW left, NEW chunks, NEW state,
           RecoverWrites(loaded, left, chunks, state),
           NEW d, d = [loaded EXCEPT !.chunks = chunks, !.state = state]
    PROVE  Settled(d, left)
<1>1. /\ loaded = IF Readable # Absent THEN Readable ELSE ManifestFromChunks(files)
      /\ left = files \ UnownedRawFiles(loaded, files)
      /\ \/ chunks = ScanChunks(left)
         \/ /\ chunks = loaded.chunks
            /\ \A f \in UnownedRawFiles(loaded, files) : f.index \notin Indices(loaded)
      /\ state = (IF loaded.state = "recording" THEN "needsRecovery" ELSE loaded.state)
      /\ ScanOK(files) /\ ScanOK(left)
  BY DEF RecoverWrites
<1>2. files \subseteq ChunkFiles /\ IsFiniteSet(files) /\ left \subseteq ChunkFiles /\ IsFiniteSet(left)
  BY <1>1, FilesNow, FS_Subset
<1>3. /\ loaded \in Manifests
      /\ \A i \in Indices(loaded) : \E f \in files : f.index = i /\ f.tag = Chunk(loaded, i).tag
  <2>1. CASE Readable # Absent
    <3>1. loaded \in Manifests /\ ValidOn(loaded, files)
      BY <1>1, <2>1, ReadableSound
    <3>2. QED
      BY <3>1 DEF ValidOn, ChunkDescriptorsValid
  <2>2. CASE Readable = Absent
    <3>1. loaded = [EmptyManifest("needsRecovery") EXCEPT !.chunks = ScanChunks(files)]
      BY <1>1, <2>2 DEF ManifestFromChunks
    <3>2. ScanChunks(files) \in Seq(Chunks)
      BY <1>1, <1>2, ScanFits
    <3>3. <<>> \in Seq(Revisions) /\ <<>> \in Seq(Receipts) /\ "needsRecovery" \in States
      BY DEF States
    <3>4. loaded \in Manifests /\ loaded.chunks = ScanChunks(files)
      BY <3>1, <3>2, <3>3 DEF EmptyManifest, Manifests
    <3>5. \A i \in Indices(loaded) : ChunkFile(i, Chunk(loaded, i).tag, TRUE) \in files
      BY <1>1, <1>2, <3>4, ScannedWhole
    <3>6. QED
      BY <3>4, <3>5, FilesFound
  <2>3. QED
    BY <2>1, <2>2
<1>4. d.chunks = chunks
  BY <1>3 DEF Manifests
<1>5. \A i \in Indices(d) : \E f \in left : f.index = i /\ f.tag = Chunk(d, i).tag
  <2>1. CASE chunks = ScanChunks(left)
    <3>1. \A i \in Indices(d) : ChunkFile(i, Chunk(d, i).tag, TRUE) \in left
      <4>1. ScanOK(left) /\ d.chunks = ScanChunks(left)
        BY <1>1, <1>4, <2>1
      <4>2. QED
        BY <1>2, <4>1, ScannedWhole
    <3>2. QED
      BY <3>1, FilesFound
  <2>2. CASE chunks = loaded.chunks /\ \A f \in UnownedRawFiles(loaded, files) : f.index \notin Indices(loaded)
    <3>1. Indices(d) = Indices(loaded) /\ \A i \in Indices(d) : Chunk(d, i) = Chunk(loaded, i)
      BY <1>4, <2>2 DEF Indices, Chunk
    <3>2. ASSUME NEW i \in Indices(d) PROVE \E f \in left : f.index = i /\ f.tag = Chunk(d, i).tag
      <4>1. PICK f \in files : f.index = i /\ f.tag = Chunk(d, i).tag
        BY <1>3, <3>1
      <4>2. f \in left
        BY <1>1, <2>2, <3>1, <4>1
      <4>3. QED
        BY <4>1, <4>2
    <3>3. QED
      BY <3>2
  <2>3. QED
    BY <1>1, <2>1, <2>2
<1>6. QED
  BY <1>4, <1>5, ValidWith DEF Settled

LEMMA HistoryRecover ==
    ASSUME StoreInv, SoundInv, HistoryInv, ~overlapped', Recover
    PROVE  HistoryInv'
<1>1. /\ UNCHANGED <<slots, seen, faults>> /\ rebuilt' \in BOOLEAN /\ (rebuilt => rebuilt')
      /\ \A u \in Writers : writer[u] = Idle
  BY RecoverShape DEF Free, Writers
<1>2. "guarded" \in Writers
  BY DEF Writers
<1>3. PICK m : m = Readable
  OBVIOUS
<1>4. ASSUME m # Absent, NEW left, left = files \ UnownedRawFiles(m, files)
      PROVE  m \in Manifests /\ RawOwned(m) /\ ValidOn(m, files) /\ ValidOn(m, left)
  <2>1. m \in Manifests /\ RawOwned(m) /\ ValidOn(m, files)
    BY <1>3, <1>4, ReadableSound DEF Sound
  <2>2. QED
    BY <1>4, <2>1, ValidOwned
<1>5. ASSUME faults <= 1, ~rebuilt, seen # Absent
      PROVE  /\ m # Absent /\ m \in Manifests /\ seen \in Manifests /\ Extends(m, seen)
             /\ m \notin {Absent, Torn}
             /\ \/ m = slots["main"]
                \/ faults = 1 /\ slots["main"] = Absent /\ m = slots["bak"]
  BY <1>1, <1>3, <1>5, IdleLeads DEF Leads
<1>6. ASSUME NEW loaded, NEW left, writer' = writer, UNCHANGED rebuilt,
             loaded = IF Readable # Absent THEN Readable ELSE ManifestFromChunks(files),
             left = files \ UnownedRawFiles(loaded, files), files' \in {files, left}
      PROVE  HistoryInv'
  <2>1. PICK new : new = files'
    OBVIOUS
  <2>2. ASSUME faults <= 1, ~rebuilt, seen # Absent PROVE Holds(Idle, slots, new, seen, faults)
    <3>1. loaded = m /\ m # Absent
      BY <1>3, <1>5, <1>6, <2>2
    <3>2. ValidOn(m, new)
      BY <1>4, <1>6, <2>1, <3>1
    <3>3. Leads(m, Idle, new, seen)
      BY <1>5, <2>2, <3>2 DEF Leads
    <3>4. QED
      BY <1>5, <2>2, <3>3 DEF Holds
  <2>3. Place(Idle, slots, new, rebuilt)
    BY IdlePlace
  <2>4. QED
    BY <1>1, <1>2, <1>6, <2>1, <2>2, <2>3, HistoryStep
<1>7. ASSUME NEW loaded, NEW left, NEW chunks, NEW state, RecoverWrites(loaded, left, chunks, state),
             chunks = loaded.chunks \/ rebuilt'
      PROVE  HistoryInv'
  <2>1. PICK d, w : /\ d = [loaded EXCEPT !.chunks = chunks, !.state = state]
                    /\ w = [pc |-> "create", op |-> "recover", adds |-> <<>>, had |-> FALSE, doc |-> d]
    OBVIOUS
  <2>2. /\ loaded = IF Readable # Absent THEN Readable ELSE ManifestFromChunks(files)
        /\ left = files \ UnownedRawFiles(loaded, files) /\ files' = left
        /\ state = (IF loaded.state = "recording" THEN "needsRecovery" ELSE loaded.state)
        /\ Readable = Absent => rebuilt'
        /\ writer' = [writer EXCEPT !["guarded"] = w]
    BY <1>7, <2>1 DEF RecoverWrites
  <2>3. w.pc = "create" /\ w.doc = d /\ w.adds = <<>> /\ w # Idle
    BY <2>1 DEF Idle
  <2>4. writer'["guarded"] = w /\ \A u \in Writers : u # "guarded" => writer'[u] = Idle
    BY <1>1, <1>2, <2>2, FilesNow
  <2>5. ASSUME ~rebuilt' PROVE m # Absent /\ loaded = m /\ d \in Manifests /\ ValidOn(d, left) /\ Extends(d, m)
    <3>1. m # Absent /\ loaded = m /\ chunks = m.chunks
      BY <1>3, <1>7, <2>2, <2>5
    <3>2. m \in Manifests /\ RawOwned(m) /\ ValidOn(m, left)
      BY <1>4, <2>2, <3>1
    <3>3. state \in States /\ m.chunks \in Seq(Chunks) /\ m.events >= m.events
      BY <2>2, <3>1, <3>2 DEF Manifests, States
    <3>4. /\ d \in Manifests /\ d.chunks = m.chunks /\ d.revs = m.revs /\ d.receipts = m.receipts
          /\ d.cleaned = m.cleaned /\ d.current = m.current /\ d.events = m.events
      BY <2>1, <3>1, <3>2, <3>3 DEF Manifests
    <3>5. ValidOn(d, left)
      BY <3>2, <3>4, ValidPlain
    <3>6. Extends(d, m)
      BY <3>2, <3>3, <3>4, ExtendsKept
    <3>7. QED
      BY <3>1, <3>4, <3>5, <3>6
  <2>6. PICK reb : reb = rebuilt'
    OBVIOUS
  <2>7. Place(w, slots, left, reb)
    <3>1. left \cup Adding(w) = left
      BY <2>3 DEF Adding
    <3>2. Settled(d, left)
      BY <1>7, <2>1, RecoverDoc
    <3>3. QED
      BY <2>3, <2>5, <2>6, <3>1, <3>2 DEF Place
  <2>8. ASSUME faults <= 1, ~rebuilt', seen # Absent PROVE Holds(w, slots, left, seen, faults)
    <3>1. ~rebuilt
      BY <1>1, <2>8
    <3>2. ValidOn(m, left)
      BY <1>4, <2>2, <2>5, <2>8
    <3>3. Leads(m, w, left, seen)
      BY <1>5, <2>3, <2>8, <3>1, <3>2 DEF Leads
    <3>4. Extends(d, seen)
      BY <1>5, <2>5, <2>8, <3>1, ExtendsChain
    <3>5. QED
      BY <1>5, <2>3, <2>8, <3>1, <3>3, <3>4 DEF Holds
  <2>9. QED
    BY <1>1, <1>2, <2>2, <2>4, <2>6, <2>7, <2>8, HistoryStep
<1>8. ASSUME NEW loaded, NEW left, NEW chunks, NEW state, RecoverWrites(loaded, left, chunks, state)
      PROVE  HistoryInv'
  BY <1>7, <1>8 DEF RecoverWrites
<1>9. QED
  BY <1>6, <1>8, RecoverShape

LEMMA HistoryInit ==
    ASSUME Init
    PROVE  HistoryInv
<1>1. PICK m \in Earlier \cup {Absent} :
        /\ slots = [NoSlots EXCEPT !["main"] = m]
        /\ files = IF m = Absent THEN {} ELSE FilesOf(m)
        /\ seen = m
  BY DEF Init
<1>2. writer = [t \in Writers |-> Idle] /\ "guarded" \in Writers
  BY DEF Init, Writers
<1>3. \A u \in Writers : writer[u] = Idle
  BY <1>2
<1>4. ASSUME m # Absent PROVE Holds(Idle, slots, files, seen, faults)
  <2>1. m \in Manifests /\ ValidOn(m, FilesOf(m))
    BY <1>1, <1>4, EarlierStored
  <2>2. slots["main"] = m
    BY <1>1 DEF NoSlots, Slots
  <2>3. m.events >= m.events
    BY <2>1 DEF Manifests
  <2>4. Extends(m, m)
    BY <2>1, <2>3, ExtendsKept
  <2>5. Leads(slots["main"], Idle, files, seen)
    BY <1>1, <1>4, <2>1, <2>2, <2>4, MarksAreNoManifests DEF Leads
  <2>6. QED
    BY <2>5 DEF Holds
<1>5. Place(writer["guarded"], slots, files, rebuilt)
  BY <1>2, <1>3, IdlePlace
<1>6. QED
  BY <1>1, <1>2, <1>3, <1>4, <1>5 DEF HistoryInv

LEMMA HistoryNext ==
    ASSUME StoreInv, SoundInv, HistoryInv, ~overlapped', [Next]_vars
    PROVE  HistoryInv'
<1>1. CASE UNCHANGED vars
  BY <1>1 DEF HistoryInv, vars
<1>2. CASE \E t \in Writers : WriteStep(t)
  BY <1>2, HistoryWriteStep
<1>3. CASE Next /\ ~\E t \in Writers : WriteStep(t)
  BY <1>3, HistoryChunkOperations, HistoryPlainOperations, HistoryAttemptOperations,
     HistoryOthers, HistoryRecover DEF Next
<1>4. QED
  BY <1>1, <1>2, <1>3

\* What an operation reported as stored is what the next holder of the guard
\* finds, after one kill or failing call of a write at any point and while a
\* later write or the recovery is between two calls, unless recovery had to
\* rebuild the manifest: its chunks, revisions, receipts and events have only
\* grown.  The receipts account for the revisions.  As long as no recap receipt
\* was written beside another operation.
THEOREM HistoryIsSound == Spec => []HistorySound
<1> DEFINE Inv == StoreInv /\ SoundInv /\ overlapped \in BOOLEAN /\ (overlapped \/ HistoryInv)
<1>1. Init => Inv
  BY InitFits, SoundInit, HistoryInit DEF Init
<1>2. Inv /\ [Next]_vars => Inv'
  BY NextFits, SoundNext, HistoryNext, OverlapStays
<1>3. ASSUME Inv PROVE HistoryKept
  BY <1>3, HistoryReadable DEF HistoryKept
<1>4. Spec => []HistoryKept
  BY <1>1, <1>2, <1>3, PTL DEF Spec
<1>5. TypeOK /\ AuditTrail /\ HistoryKept => HistorySound
  BY DEF HistorySound
<1>6. QED
  BY <1>4, <1>5, RevisionsAreAccounted, PTL

-----------------------------------------------------------------------------
(* The life cycle of a recording *)

Onward(m, d) ==
    /\ m.state # "recording" => d.state # "recording"
    /\ m.state = "finished" => d.state = "finished"

\* What read_manifest finds in the three names.
FoundIn(sl, disk) ==
    IF UsableOn(sl["main"], disk) THEN sl["main"]
    ELSE IF UsableOn(sl["bak"], disk) THEN sl["bak"]
    ELSE IF UsableOn(sl["tmp"], disk) THEN sl["tmp"] ELSE Absent

Passes(sl, disk, sl2, new) ==
    FoundIn(sl, disk) # Absent /\ FoundIn(sl2, new) # Absent => Onward(FoundIn(sl, disk), FoundIn(sl2, new))

\* No file that comes later makes a manifest readable that was not.
Steady(sl, disk) ==
    /\ Settled(sl["main"], disk)
    /\ UsableOn(sl["main"], disk) \/ Settled(sl["bak"], disk)

\* A write goes on from the manifest that a read finds, and the file it adds
\* is none of its chunks.
Succeeds(w, m) ==
    /\ Onward(m, w.doc)
    /\ w.adds # <<>> => Len(m.chunks) <= w.adds[1].index

Follows(w, sl, disk) ==
    w # Idle /\ w.pc # "clean" =>
        /\ UsableOn(sl["main"], disk) => Succeeds(w, sl["main"])
        /\ ~UsableOn(sl["main"], disk) /\ UsableOn(sl["bak"], disk) => Succeeds(w, sl["bak"])

LifeInv ==
    ~dropped => Steady(slots, files) /\ \A t \in Writers : Follows(writer[t], slots, files)

LEMMA FoundReadable ==
    Readable = FoundIn(slots, files) /\ Readable' = FoundIn(slots', files')
BY DEF Readable, Usable, FoundIn, UsableOn

LEMMA UnusableStays ==
    ASSUME NEW m, NEW disk, NEW new, Settled(m, disk), ~UsableOn(m, disk)
    PROVE  ~UsableOn(m, new) /\ Settled(m, new)
<1>1. ValidOn(m, new) => ValidOn(m, FilesOf(m))
  BY ValidAlone
<1>2. QED
  BY <1>1 DEF Settled, UsableOn

LEMMA UsableGrows ==
    ASSUME NEW m \in Manifests \cup {Absent, Torn}, NEW disk, NEW new, UsableOn(m, disk),
           \A f \in disk : \E g \in new : g.index = f.index /\ g.tag = f.tag
    PROVE  UsableOn(m, new)
<1>1. m \in Manifests /\ ValidOn(m, disk)
  BY DEF UsableOn
<1>2. ValidOn(m, new)
  BY <1>1, ValidKept
<1>3. QED
  BY <1>2 DEF UsableOn

LEMMA UsableSpared ==
    ASSUME NEW m \in Manifests \cup {Absent, Torn}, NEW disk, NEW new, disk \subseteq ChunkFiles,
           UsableOn(m, disk), NEW w, w.adds # <<>> => w.adds[1].index \in Nat,
           Succeeds(w, m),
           \A f \in disk : f \in new \/ (w.adds # <<>> /\ f.index = w.adds[1].index)
    PROVE  UsableOn(m, new)
<1>1. m \in Manifests /\ ValidOn(m, disk) /\ \A f \in disk : f.index \in Nat
  BY DEF UsableOn, ChunkFiles
<1>2. Len(m.chunks) \in Nat
  BY <1>1 DEF Manifests
<1>3. \A f \in disk : f.index < Len(m.chunks) => f \in new
  BY <1>1, <1>2 DEF Succeeds
<1>4. ValidOn(m, new)
  BY <1>1, <1>3, ValidKept
<1>5. QED
  BY <1>4 DEF UsableOn

\* The manifest that a read finds in one of the first two names stays.
LEMMA SteadyKept ==
    ASSUME NEW sl, NEW sl2, NEW disk, NEW new, Steady(sl, disk),
           sl2["main"] = sl["main"], sl2["bak"] = sl["bak"],
           UsableOn(sl["main"], disk) => UsableOn(sl["main"], new),
           ~UsableOn(sl["main"], disk) /\ UsableOn(sl["bak"], disk) => UsableOn(sl["bak"], new)
    PROVE  /\ Steady(sl2, new)
           /\ UsableOn(sl2["main"], new) <=> UsableOn(sl["main"], disk)
           /\ ~UsableOn(sl["main"], disk) => (UsableOn(sl2["bak"], new) <=> UsableOn(sl["bak"], disk))
<1>1. ~UsableOn(sl["main"], disk) => ~UsableOn(sl["main"], new) /\ Settled(sl["main"], new)
  BY UnusableStays DEF Steady
<1>2. ~UsableOn(sl["main"], disk) /\ ~UsableOn(sl["bak"], disk)
        => ~UsableOn(sl["bak"], new) /\ Settled(sl["bak"], new)
  BY UnusableStays DEF Steady
<1>3. \A m : UsableOn(m, new) => Settled(m, new)
  BY DEF UsableOn, Settled
<1>4. QED
  BY <1>1, <1>2, <1>3 DEF Steady

LEMMA PassesKept ==
    ASSUME NEW sl, NEW sl2, NEW disk, NEW new, Steady(sl, disk),
           sl2["main"] = sl["main"], sl2["bak"] = sl["bak"],
           UsableOn(sl["main"], disk) => UsableOn(sl["main"], new),
           ~UsableOn(sl["main"], disk) /\ UsableOn(sl["bak"], disk) => UsableOn(sl["bak"], new),
           sl2["tmp"] = sl["tmp"] \/ sl2["tmp"] = Torn \/ sl["tmp"] = Torn
    PROVE  Passes(sl, disk, sl2, new)
<1>1. /\ UsableOn(sl2["main"], new) <=> UsableOn(sl["main"], disk)
      /\ ~UsableOn(sl["main"], disk) => (UsableOn(sl2["bak"], new) <=> UsableOn(sl["bak"], disk))
  BY SteadyKept
<1>2. \A m : Onward(m, m)
  BY DEF Onward
<1>3. ~UsableOn(Torn, disk) /\ ~UsableOn(Torn, new)
  BY DEF UsableOn
<1>4. CASE UsableOn(sl["main"], disk)
  BY <1>1, <1>2, <1>4 DEF Passes, FoundIn
<1>5. CASE ~UsableOn(sl["main"], disk) /\ UsableOn(sl["bak"], disk)
  BY <1>1, <1>2, <1>5 DEF Passes, FoundIn
<1>6. CASE ~UsableOn(sl["main"], disk) /\ ~UsableOn(sl["bak"], disk)
  BY <1>1, <1>2, <1>3, <1>6 DEF Passes, FoundIn
<1>7. QED
  BY <1>4, <1>5, <1>6

LEMMA LifeFails ==
    ASSUME NEW sl \in [Slots -> Manifests \cup {Absent, Torn}], NEW w \in Operations,
           NEW disk, disk \subseteq ChunkFiles, NEW new, NEW reb, Place(w, sl, disk, reb),
           Steady(sl, disk), Follows(w, sl, disk), w.pc # "clean",
           w.adds # <<>> => w.adds[1].index \in Nat,
           \A f \in disk : f \in new \/ (w.adds # <<>> /\ f.index = w.adds[1].index),
           NEW sl2, sl2 = sl \/ (w.pc = "promote" /\ sl2 = RestoreBak(sl, w.had))
    PROVE  Steady(sl2, new) /\ Passes(sl, disk, sl2, new)
<1>1. {"main", "bak", "tmp"} = Slots /\ w # Idle
  BY DEF Slots, Idle, Operations, Pcs
<1>2. \A s \in {"main", "bak"} : sl[s] \in Manifests \cup {Absent, Torn}
  BY <1>1
<1>3. ASSUME UsableOn(sl["main"], disk) PROVE UsableOn(sl["main"], new)
  <2>1. Succeeds(w, sl["main"])
    BY <1>1, <1>3 DEF Follows
  <2>2. QED
    BY <1>2, <1>3, <2>1, UsableSpared
<1>4. ASSUME ~UsableOn(sl["main"], disk), UsableOn(sl["bak"], disk) PROVE UsableOn(sl["bak"], new)
  <2>1. Succeeds(w, sl["bak"])
    BY <1>1, <1>4 DEF Follows
  <2>2. QED
    BY <1>2, <1>4, <2>1, UsableSpared
<1>5. CASE sl2 = sl
  BY <1>3, <1>4, <1>5, SteadyKept, PassesKept
<1>6. CASE w.pc = "promote" /\ sl2 = RestoreBak(sl, w.had) /\ sl2 # sl
  <2>1. sl["main"] = Absent
    BY <1>1, <1>6 DEF Place
  <2>2. sl2["main"] = sl["bak"] /\ sl2["bak"] = Absent /\ sl2["tmp"] = sl["tmp"]
    BY <1>1, <1>6 DEF RestoreBak
  <2>3. \A d : ~UsableOn(Absent, d) /\ Settled(Absent, d)
    BY DEF UsableOn, Settled
  <2>4. /\ Steady(sl, new) /\ Passes(sl, disk, sl, new)
        /\ ~UsableOn(sl["main"], new) /\ (UsableOn(sl["bak"], new) <=> UsableOn(sl["bak"], disk))
    BY <1>3, <1>4, <2>1, <2>3, SteadyKept, PassesKept
  <2>5. FoundIn(sl2, new) = FoundIn(sl, new)
    BY <2>1, <2>2, <2>3 DEF FoundIn
  <2>6. Steady(sl2, new)
    BY <2>1, <2>2, <2>3, <2>4 DEF Steady
  <2>7. QED
    BY <2>4, <2>5, <2>6 DEF Passes
<1>7. QED
  BY <1>5, <1>6

LEMMA LifeGoes ==
    ASSUME NEW sl \in [Slots -> Manifests \cup {Absent, Torn}], NEW sl2,
           NEW w \in Operations, NEW w2 \in Operations, w2.doc = w.doc, w2.adds = w.adds,
           NEW disk, NEW new, \A f \in disk : \E g \in new : g.index = f.index /\ g.tag = f.tag,
           NEW reb, Place(w, sl, disk, reb), NextCall(w, w2, sl, sl2, disk, new),
           Steady(sl, disk), Follows(w, sl, disk), w.pc \notin {"chunk", "flush"} => new = disk
    PROVE  Steady(sl2, new) /\ Follows(w2, sl2, new) /\ Passes(sl, disk, sl2, new)
<1>1. {"main", "bak", "tmp"} = Slots /\ w # Idle /\ w2 # Idle
  BY DEF Slots, Idle, Operations, Pcs
<1>2. \A s \in {"main", "bak"} : sl[s] \in Manifests \cup {Absent, Torn}
  BY <1>1
<1>3. \A s \in {"main", "bak"} : UsableOn(sl[s], disk) => UsableOn(sl[s], new)
  BY <1>2, UsableGrows
<1>4. /\ \A d : ~UsableOn(Absent, d) /\ Settled(Absent, d) /\ \A m : UsableOn(m, d) => Settled(m, d)
      /\ \A m : Onward(m, m)
  BY DEF UsableOn, Settled, Onward
<1>5. /\ UsableOn(sl["main"], disk) /\ w.pc # "clean" => Succeeds(w, sl["main"])
      /\ ~UsableOn(sl["main"], disk) /\ UsableOn(sl["bak"], disk) /\ w.pc # "clean" => Succeeds(w, sl["bak"])
  BY <1>1 DEF Follows
<1>6. \A m : Succeeds(w2, m) <=> Succeeds(w, m)
  BY DEF Succeeds
<1>7. CASE w.pc \in {"chunk", "flush", "create", "sync"}
  <2>1. sl2["main"] = sl["main"] /\ sl2["bak"] = sl["bak"]
        /\ (sl2["tmp"] = sl["tmp"] \/ sl2["tmp"] = Torn \/ sl["tmp"] = Torn)
    BY <1>1, <1>7 DEF NextCall, CreateTmp, SyncTmp, Place
  <2>2. /\ Steady(sl2, new)
        /\ UsableOn(sl2["main"], new) <=> UsableOn(sl["main"], disk)
        /\ ~UsableOn(sl["main"], disk) => (UsableOn(sl2["bak"], new) <=> UsableOn(sl["bak"], disk))
    BY <1>3, <2>1, SteadyKept
  <2>3. Passes(sl, disk, sl2, new)
    BY <1>3, <2>1, PassesKept
  <2>4. Follows(w2, sl2, new)
    BY <1>5, <1>6, <1>7, <2>1, <2>2 DEF Follows
  <2>5. QED
    BY <2>2, <2>3, <2>4
<1>8. CASE w.pc = "unbackup"
  <2>1. /\ sl2["main"] = sl["main"] /\ sl2["bak"] = Absent /\ sl2["tmp"] = sl["tmp"] /\ new = disk
        /\ sl["tmp"] = w.doc
    BY <1>1, <1>8 DEF NextCall, RemoveBak, Place
  <2>2. Steady(sl2, new)
    BY <1>4, <2>1 DEF Steady
  <2>3. Follows(w2, sl2, new)
    BY <1>4, <1>5, <1>6, <1>8, <2>1 DEF Follows
  <2>4. Passes(sl, disk, sl2, new)
    <3>1. CASE UsableOn(sl["main"], disk)
      BY <1>4, <2>1, <3>1 DEF Passes, FoundIn
    <3>2. CASE ~UsableOn(sl["main"], disk) /\ UsableOn(sl["bak"], disk)
      <4>1. Onward(sl["bak"], w.doc)
        BY <1>5, <1>8, <3>2 DEF Succeeds
      <4>2. QED
        BY <1>4, <2>1, <3>2, <4>1 DEF Passes, FoundIn
    <3>3. CASE ~UsableOn(sl["main"], disk) /\ ~UsableOn(sl["bak"], disk)
      BY <1>4, <2>1, <3>3 DEF Passes, FoundIn
    <3>4. QED
      BY <3>1, <3>2, <3>3
  <2>5. QED
    BY <2>2, <2>3, <2>4
<1>9. CASE w.pc = "aside"
  <2>1. /\ sl["bak"] = Absent /\ sl2["main"] = Absent /\ sl2["bak"] = sl["main"] /\ sl2["tmp"] = sl["tmp"]
        /\ new = disk
    BY <1>1, <1>9 DEF NextCall, MoveAside, Place
  <2>2. Steady(sl2, new)
    BY <1>4, <2>1 DEF Steady
  <2>3. Follows(w2, sl2, new)
    BY <1>4, <1>5, <1>6, <1>9, <2>1 DEF Follows
  <2>4. FoundIn(sl2, new) = FoundIn(sl, disk)
    BY <1>4, <2>1 DEF FoundIn
  <2>5. QED
    BY <1>4, <2>2, <2>3, <2>4 DEF Passes
<1>10. CASE w.pc = "promote"
  <2>1. /\ sl["main"] = Absent /\ sl["tmp"] = w.doc /\ sl2["main"] = w.doc /\ sl2["tmp"] = Absent
        /\ sl2["bak"] = sl["bak"] /\ new = disk /\ w2.pc = "clean"
    BY <1>1, <1>10 DEF NextCall, Promote, Place
  <2>2. Settled(w.doc, disk)
    <3>1. disk \cup Adding(w) = disk
      BY <1>10 DEF Adding
    <3>2. QED
      BY <1>1, <3>1 DEF Place
  <2>3. Steady(sl2, new)
    BY <1>4, <2>1, <2>2 DEF Steady
  <2>4. Follows(w2, sl2, new)
    BY <2>1 DEF Follows
  <2>5. UsableOn(sl["bak"], disk) => Onward(sl["bak"], w.doc)
    BY <1>4, <1>5, <1>10, <2>1 DEF Succeeds
  <2>6. Passes(sl, disk, sl2, new)
    BY <1>4, <2>1, <2>5 DEF Passes, FoundIn
  <2>7. QED
    BY <2>3, <2>4, <2>6
<1>11. QED
  BY <1>7, <1>8, <1>9, <1>10 DEF NextCall

LEMMA LifeFinish ==
    ASSUME NEW sl \in [Slots -> Manifests \cup {Absent, Torn}], NEW w \in Operations, w.pc = "clean",
           NEW disk, NEW reb, Place(w, sl, disk, reb), Steady(sl, disk),
           NEW sl2, sl2 = sl \/ sl2 = RemoveBak(sl)
    PROVE  Steady(sl2, disk) /\ Passes(sl, disk, sl2, disk)
<1>1. {"main", "bak", "tmp"} = Slots /\ w # Idle
  BY DEF Slots, Idle, Operations, Pcs
<1>2. /\ ~UsableOn(Absent, disk) /\ Settled(Absent, disk)
      /\ \A m : Onward(m, m)
  BY DEF UsableOn, Settled, Onward
<1>3. sl["tmp"] = Absent
  BY <1>1 DEF Place
<1>4. sl2["main"] = sl["main"] /\ sl2["tmp"] = sl["tmp"] /\ (sl2["bak"] = sl["bak"] \/ sl2["bak"] = Absent)
  BY <1>1 DEF RemoveBak
<1>5. Steady(sl2, disk)
  BY <1>2, <1>4 DEF Steady
<1>6. FoundIn(sl2, disk) \in {FoundIn(sl, disk), Absent}
  BY <1>2, <1>3, <1>4 DEF FoundIn
<1>7. QED
  BY <1>2, <1>5, <1>6 DEF Passes

LEMMA LifeWriteStep ==
    ASSUME StoreInv, SoundInv, HistoryInv, LifeInv, ~dropped, NEW t \in Writers, WriteStep(t)
    PROVE  LifeInv' /\ Passes(slots, files, slots', files')
<1>1. PICK w, sl2, new : w = writer[t] /\ sl2 = slots' /\ new = files'
  OBVIOUS
<1>2. writer \in [Writers -> {Idle} \cup Operations] /\ slots \in [Slots -> Manifests \cup {Absent, Torn}]
      /\ files \subseteq ChunkFiles
  BY FilesNow
<1>3. w # Idle /\ w \in Operations
  <2>1. writer[t] \in Operations
    BY WriteShape
  <2>2. QED
    BY <1>1, <2>1 DEF Operations, Pcs, Idle
<1>4. w.adds # <<>> => w.adds[1].index \in Nat
  <2>1. w.adds \in Seq(ChunkFiles)
    BY <1>3 DEF Operations
  <2>2. w.adds # <<>> => w.adds[1] \in ChunkFiles
    BY <2>1
  <2>3. QED
    BY <2>2 DEF ChunkFiles
<1>5. (\A u \in Writers : u # t => writer[u] = Idle) /\ Place(w, slots, files, rebuilt)
  <2>1. PICK x \in Writers : /\ \A u \in Writers : u # x => writer[u] = Idle
                             /\ Place(writer[x], slots, files, rebuilt)
    BY DEF HistoryInv
  <2>2. x = t
    BY <1>1, <1>3, <2>1
  <2>3. QED
    BY <1>1, <2>1, <2>2
<1>6. Steady(slots, files) /\ Follows(w, slots, files)
  BY <1>1 DEF LifeInv
<1>7. w.pc = "promote" => slots["tmp"] # Absent
  BY <1>3, <1>5, MarksAreNoManifests DEF Place, Operations
<1>8. ASSUME NEW x, writer' = [writer EXCEPT ![t] = x], Steady(sl2, new), Follows(x, sl2, new)
      PROVE  LifeInv'
  <2>1. \A u \in Writers : writer'[u] = x \/ writer'[u] = Idle
    BY <1>2, <1>5, <1>8
  <2>2. Follows(Idle, sl2, new)
    BY DEF Follows
  <2>3. QED
    BY <1>1, <1>8, <2>1, <2>2 DEF LifeInv
<1>9. Follows(Idle, sl2, new)
  BY DEF Follows
<1>10. ASSUME NEW w2, writer' = [writer EXCEPT ![t] = w2], Goes(w, w2)
       PROVE  LifeInv' /\ Passes(slots, files, slots', files')
  <2>1. /\ w2 \in Operations /\ w2.doc = w.doc /\ w2.adds = w.adds
        /\ \A f \in files : \E g \in new : g.index = f.index /\ g.tag = f.tag
        /\ NextCall(w, w2, slots, sl2, files, new)
        /\ w.pc \notin {"chunk", "flush"} => new = files
    BY <1>1, <1>10 DEF Goes
  <2>2. Steady(sl2, new) /\ Follows(w2, sl2, new) /\ Passes(slots, files, sl2, new)
    BY <1>2, <1>3, <1>5, <1>6, <2>1, LifeGoes
  <2>3. QED
    BY <1>1, <1>8, <1>10, <2>2
<1>11. ASSUME writer' = [writer EXCEPT ![t] = Idle], Fails(w)
       PROVE  LifeInv' /\ Passes(slots, files, slots', files')
  <2>1. /\ w.pc # "clean"
        /\ \A f \in files : f \in new \/ (w.adds # <<>> /\ f.index = w.adds[1].index)
        /\ sl2 = slots \/ (w.pc = "promote" /\ sl2 = RestoreBak(slots, w.had))
    BY <1>1, <1>11 DEF Fails
  <2>2. Steady(sl2, new) /\ Passes(slots, files, sl2, new)
    BY <1>2, <1>3, <1>4, <1>5, <1>6, <2>1, LifeFails
  <2>3. QED
    BY <1>1, <1>8, <1>9, <1>11, <2>2
<1>12. ASSUME writer' = [writer EXCEPT ![t] = Idle], UNCHANGED <<slots, files>>
       PROVE  LifeInv' /\ Passes(slots, files, slots', files')
  <2>1. Passes(slots, files, sl2, new)
    BY <1>1, <1>12 DEF Passes, Onward
  <2>2. QED
    BY <1>1, <1>6, <1>8, <1>9, <1>12, <2>1
<1>13. CASE FinishWrite(t)
  <2>1. /\ w.pc = "clean" /\ new = files /\ writer' = [writer EXCEPT ![t] = Idle]
        /\ sl2 = RemoveBak(slots) \/ sl2 = slots
    BY <1>1, <1>13 DEF FinishWrite
  <2>2. Steady(sl2, files) /\ Passes(slots, files, sl2, files)
    BY <1>2, <1>3, <1>5, <1>6, <2>1, LifeFinish
  <2>3. QED
    BY <1>1, <1>8, <1>9, <2>1, <2>2
<1>14. CASE CreateChunk(t) \/ FlushChunk(t)
  BY <1>1, <1>10, <1>11, <1>12, <1>14, ChunkCalls
<1>15. CASE \/ CreateManifestTmp(t) \/ SyncManifestTmp(t) \/ RemoveOldBackup(t)
            \/ MoveManifestAside(t) \/ PromoteManifest(t)
  BY <1>1, <1>7, <1>10, <1>11, <1>15, ManifestCalls
<1>16. QED
  BY <1>13, <1>14, <1>15 DEF WriteStep

\* An operation begins from the manifest that a read finds.
LEMMA LifeBegin ==
    ASSUME StoreInv, LifeInv, ~overlapped', NEW t \in Writers, Ready(t), NEW op, NEW doc, NEW adds,
           Begin(t, op, doc, adds), Kept, NEW m, m = Readable,
           m # Absent => m \in Manifests /\ Onward(m, doc),
           m # Absent /\ adds # <<>> => adds[1].index = Len(m.chunks)
    PROVE  LifeInv' /\ UNCHANGED <<slots, files, dropped>>
<1>1. PICK w : w = [pc |-> IF adds = <<>> THEN "create" ELSE "chunk",
                    op |-> op, doc |-> doc, adds |-> adds, had |-> FALSE]
  OBVIOUS
<1>2. writer' = [writer EXCEPT ![t] = w] /\ UNCHANGED <<slots, files, dropped>>
  BY <1>1 DEF Begin, Kept
<1>3. w.doc = doc /\ w.adds = adds
  BY <1>1
<1>4. \A u \in Writers : writer[u] = Idle
  BY DEF Ready, Free, Begin, Meet
<1>5. \A u \in Writers : writer'[u] = w \/ writer'[u] = Idle
  BY <1>2, <1>4, FilesNow
<1>6. m # Absent => Len(m.chunks) <= Len(m.chunks)
  BY DEF Manifests
<1>7. m # Absent => Succeeds(w, m)
  BY <1>3, <1>6 DEF Succeeds
<1>8. /\ UsableOn(slots["main"], files) => m = slots["main"] /\ m # Absent
      /\ ~UsableOn(slots["main"], files) /\ UsableOn(slots["bak"], files) => m = slots["bak"] /\ m # Absent
  BY FoundReadable DEF FoundIn, UsableOn
<1>9. Follows(w, slots, files) /\ Follows(Idle, slots, files)
  BY <1>7, <1>8 DEF Follows
<1>10. QED
  BY <1>2, <1>5, <1>9 DEF LifeInv

LEMMA CommitState ==
    ASSUME NEW m \in Manifests, NEW base, base = PromoteLegacy(m) \/ base = m,
           NEW kind, NEW source, NEW parent, NEW op, NEW idx, NEW stored,
           NEW d, d = CommitRevision(base, kind, source, parent, op, idx, stored)
    PROVE  d.state = m.state
<1>1. base.state = m.state /\ DOMAIN base = DOMAIN m
  BY DEF PromoteLegacy, Manifests
<1>2. PICK raw : raw = WithRaw(base, stored)
  OBVIOUS
<1>3. "state" \in DOMAIN m
  BY DEF Manifests
<1>4. raw.state = m.state /\ "state" \in DOMAIN raw
  BY <1>1, <1>2, <1>3 DEF WithRaw, AddChunk
<1>5. QED
  BY <1>2, <1>4 DEF CommitRevision

LEMMA LifeOperations ==
    ASSUME StoreInv, SoundInv, LifeInv, ~overlapped',
           \/ Start \/ WriteTextChunk \/ WriteAudioChunk \/ SaveNotes
           \/ \E tag \in Attempts \cup {"plain"} : WriteTranscriptSegment(tag)
           \/ Finish \/ MarkNeedsRecovery \/ AppendPrivacyEvent
           \/ \E v \in 1..MaxRevisions : SelectTranscriptRevision(v)
           \/ \E a \in Attempts : \/ \E stored \in BOOLEAN : \/ CompleteTranscription(a, stored)
                                                             \/ CompleteReview(a, stored)
                                  \/ CompleteCleanup(a)
                                  \/ RecordFailure(a)
           \/ RecordRecapReceipt
    PROVE  LifeInv' /\ UNCHANGED <<slots, files, dropped>>
<1>1. PICK m : m = Readable
  OBVIOUS
<1>2. m # Absent => m \in Manifests
  BY <1>1, ReadableSound
<1>3. "guarded" \in Writers /\ "recap" \in Writers
  BY DEF Writers
<1>4. ASSUME NEW t \in Writers, Ready(t), NEW op, NEW doc, NEW adds, Begin(t, op, doc, adds), Kept,
             m # Absent, doc.state = m.state \/ doc.state = "finished"
                         \/ (doc.state = "needsRecovery" /\ m.state # "finished"),
             adds = <<>> \/ \E tag : adds = NewFile(m, tag)
      PROVE  LifeInv' /\ UNCHANGED <<slots, files, dropped>>
  <2>1. Onward(m, doc)
    BY <1>4 DEF Onward
  <2>2. adds # <<>> => adds[1].index = Len(m.chunks)
    BY <1>4 DEF NewFile, ChunkFile
  <2>3. QED
    BY <1>1, <1>2, <1>4, <2>1, <2>2, LifeBegin
<1>5. CASE Start
  <2>1. m = Absent
    BY <1>1, <1>5 DEF Start, NoDirectory, NoSlots, Slots, Readable, Usable
  <2>2. Ready("guarded") /\ Begin("guarded", "start", EmptyManifest("recording"), <<>>) /\ Kept
    BY <1>5 DEF Start
  <2>3. QED
    BY <1>1, <1>3, <2>1, <2>2, LifeBegin
<1>6. CASE \/ WriteTextChunk \/ WriteAudioChunk \/ SaveNotes
           \/ \E tag \in Attempts \cup {"plain"} : WriteTranscriptSegment(tag)
  <2>1. PICK kind, tag : /\ Begin("guarded", "chunk", AddChunk(m, kind, tag), NewFile(m, tag))
                         /\ Ready("guarded") /\ Open(m) /\ Kept
    BY <1>1, <1>6 DEF WriteTextChunk, WriteAudioChunk, SaveNotes, WriteTranscriptSegment
  <2>2. m # Absent
    BY <2>1 DEF Open
  <2>3. AddChunk(m, kind, tag).state = m.state
    BY <1>2, <2>2 DEF AddChunk, Manifests
  <2>4. QED
    BY <1>3, <1>4, <2>1, <2>2, <2>3
<1>7. CASE Finish \/ MarkNeedsRecovery
  <2>1. PICK doc : /\ doc = [m EXCEPT !.state = "finished"] \/ doc = [m EXCEPT !.state = "needsRecovery"]
                   /\ Begin("guarded", "state", doc, <<>>)
                   /\ Ready("guarded") /\ Kept /\ m # Absent /\ m.state # "finished"
    BY <1>1, <1>7 DEF Finish, MarkNeedsRecovery
  <2>2. doc.state \in {"finished", "needsRecovery"}
    BY <1>2, <2>1 DEF Manifests
  <2>3. QED
    BY <1>3, <1>4, <2>1, <2>2
<1>8. CASE AppendPrivacyEvent \/ \E v \in 1..MaxRevisions : SelectTranscriptRevision(v)
  <2>1. PICK op, doc : /\ doc = [m EXCEPT !.events = @ + 1] \/ \E v : doc = [m EXCEPT !.current = v]
                       /\ Begin("guarded", op, doc, <<>>) /\ Ready("guarded") /\ Kept /\ m # Absent
    BY <1>1, <1>8 DEF AppendPrivacyEvent, SelectTranscriptRevision
  <2>2. doc.state = m.state
    BY <1>2, <2>1 DEF Manifests
  <2>3. QED
    BY <1>3, <1>4, <2>1, <2>2
<1>9. CASE RecordRecapReceipt \/ \E a \in Attempts : RecordFailure(a)
  <2>1. PICK t, op, doc, k :
          /\ t \in Writers /\ doc = [m EXCEPT !.receipts = Append(@, k)]
          /\ Begin(t, op, doc, <<>>) /\ Ready(t) /\ Kept /\ m # Absent
    <3>1. CASE RecordRecapReceipt
      BY <1>1, <1>3, <3>1, RecapReads
    <3>2. CASE \E a \in Attempts : RecordFailure(a)
      BY <1>1, <1>3, <3>2 DEF RecordFailure
    <3>3. QED
      BY <1>9, <3>1, <3>2
  <2>2. doc.state = m.state
    BY <1>2, <2>1 DEF Manifests
  <2>3. QED
    BY <1>4, <2>1, <2>2
<1>10. CASE \E a \in Attempts, stored \in BOOLEAN : CompleteTranscription(a, stored)
  <2>1. PICK a \in Attempts, stored \in BOOLEAN : CompleteTranscription(a, stored)
    BY <1>10
  <2>2. PICK base, source : base = PromoteLegacy(m) /\ source = IF base.revs = <<>> THEN "initial" ELSE "reprocess"
    OBVIOUS
  <2>3. PICK d : d = CommitRevision(base, "raw-asr", source, 0, "transcription", SegmentsOf(m, a), stored)
    OBVIOUS
  <2>4. /\ Begin("guarded", "commit", d, IF stored THEN NewFile(m, "raw") ELSE <<>>)
        /\ Ready("guarded") /\ Kept /\ m # Absent
    BY <1>1, <2>1, <2>2, <2>3 DEF CompleteTranscription, Committable
  <2>5. d.state = m.state
    BY <1>2, <2>2, <2>3, <2>4, CommitState
  <2>6. PICK adds : adds = IF stored THEN NewFile(m, "raw") ELSE <<>>
    OBVIOUS
  <2>7. QED
    BY <1>3, <1>4, <2>4, <2>5, <2>6
<1>11. CASE \E a \in Attempts, stored \in BOOLEAN : CompleteReview(a, stored)
  <2>1. PICK a \in Attempts, stored \in BOOLEAN : CompleteReview(a, stored)
    BY <1>11
  <2>2. PICK parent : parent = m.current
    OBVIOUS
  <2>3. PICK d : d = CommitRevision(m, "normalized", "review", parent, "protected-term-review",
                                    SegmentsOf(m, a), stored)
    OBVIOUS
  <2>4. /\ Begin("guarded", "commit", d, IF stored THEN NewFile(m, "raw") ELSE <<>>)
        /\ Ready("guarded") /\ Kept /\ m # Absent
    BY <1>1, <2>1, <2>2, <2>3 DEF CompleteReview, Committable
  <2>5. d.state = m.state
    BY <1>2, <2>3, <2>4, CommitState
  <2>6. PICK adds : adds = IF stored THEN NewFile(m, "raw") ELSE <<>>
    OBVIOUS
  <2>7. QED
    BY <1>3, <1>4, <2>4, <2>5, <2>6
<1>12. CASE \E a \in Attempts : CompleteCleanup(a)
  <2>1. PICK a \in Attempts : CompleteCleanup(a)
    BY <1>12
  <2>2. PICK d, r, v, k : /\ d = [m EXCEPT !.revs = Append(@, r), !.cleaned = v, !.receipts = Append(@, k)]
                          /\ Begin("guarded", "cleanup", d, <<>>) /\ Ready("guarded") /\ Kept /\ m # Absent
    BY <1>1, <2>1 DEF CompleteCleanup, Committable
  <2>3. d.state = m.state
    BY <1>2, <2>2 DEF Manifests
  <2>4. QED
    BY <1>3, <1>4, <2>2, <2>3
<1>13. QED
  BY <1>5, <1>6, <1>7, <1>8, <1>9, <1>10, <1>11, <1>12

LEMMA LifeRecover ==
    ASSUME StoreInv, SoundInv, LifeInv, ~overlapped', ~dropped, Recover
    PROVE  LifeInv' /\ Passes(slots, files, slots', files')
<1>1. UNCHANGED <<slots, dropped>> /\ \A u \in Writers : writer[u] = Idle
  BY RecoverShape DEF Free, Writers
<1>2. PICK m, new : m = Readable /\ new = files'
  OBVIOUS
<1>3. /\ UsableOn(slots["main"], files) => m = slots["main"] /\ m # Absent
      /\ ~UsableOn(slots["main"], files) /\ UsableOn(slots["bak"], files) => m = slots["bak"] /\ m # Absent
  BY <1>2, FoundReadable DEF FoundIn, UsableOn
<1>4. Steady(slots, files) /\ Follows(Idle, slots, new)
  BY DEF LifeInv, Follows
<1>5. ASSUME NEW loaded, loaded = IF Readable # Absent THEN Readable ELSE ManifestFromChunks(files),
             new \in {files, files \ UnownedRawFiles(loaded, files)}
      PROVE  /\ Steady(slots, new) /\ Passes(slots, files, slots, new)
             /\ UsableOn(slots["main"], new) => loaded = slots["main"]
             /\ ~UsableOn(slots["main"], new) /\ UsableOn(slots["bak"], new) => loaded = slots["bak"]
  <2>1. ASSUME m # Absent PROVE loaded = m /\ ValidOn(m, new)
    <3>1. m \in Manifests /\ RawOwned(m) /\ ValidOn(m, files) /\ loaded = m
      BY <1>2, <1>5, <2>1, ReadableSound DEF Sound
    <3>2. ValidOn(m, files \ UnownedRawFiles(m, files))
      BY <3>1, ValidOwned
    <3>3. QED
      BY <1>5, <3>1, <3>2
  <2>2. UsableOn(slots["main"], files) => UsableOn(slots["main"], new)
    BY <1>3, <2>1 DEF UsableOn
  <2>3. ~UsableOn(slots["main"], files) /\ UsableOn(slots["bak"], files) => UsableOn(slots["bak"], new)
    BY <1>3, <2>1 DEF UsableOn
  <2>4. /\ Steady(slots, new)
        /\ UsableOn(slots["main"], new) <=> UsableOn(slots["main"], files)
        /\ ~UsableOn(slots["main"], files) => (UsableOn(slots["bak"], new) <=> UsableOn(slots["bak"], files))
    BY <1>4, <2>2, <2>3, SteadyKept
  <2>5. Passes(slots, files, slots, new)
    BY <1>4, <2>2, <2>3, PassesKept
  <2>6. QED
    BY <1>3, <2>1, <2>4, <2>5
<1>6. ASSUME NEW loaded, NEW left, writer' = writer,
             loaded = IF Readable # Absent THEN Readable ELSE ManifestFromChunks(files),
             left = files \ UnownedRawFiles(loaded, files), files' \in {files, left}
      PROVE  LifeInv' /\ Passes(slots, files, slots', files')
  <2>1. Steady(slots, new) /\ Passes(slots, files, slots, new)
    BY <1>2, <1>5, <1>6
  <2>2. QED
    BY <1>1, <1>2, <1>4, <1>6, <2>1 DEF LifeInv
<1>7. ASSUME NEW loaded, NEW left, NEW chunks, NEW state, RecoverWrites(loaded, left, chunks, state)
      PROVE  LifeInv' /\ Passes(slots, files, slots', files')
  <2>1. PICK d, w : /\ d = [loaded EXCEPT !.chunks = chunks, !.state = state]
                    /\ w = [pc |-> "create", op |-> "recover", adds |-> <<>>, had |-> FALSE, doc |-> d]
    OBVIOUS
  <2>2. /\ loaded = IF Readable # Absent THEN Readable ELSE ManifestFromChunks(files)
        /\ left = files \ UnownedRawFiles(loaded, files) /\ files' = left
        /\ state = (IF loaded.state = "recording" THEN "needsRecovery" ELSE loaded.state)
        /\ writer' = [writer EXCEPT !["guarded"] = w]
    BY <1>7, <2>1 DEF RecoverWrites
  <2>3. w.doc = d /\ w.adds = <<>> /\ (loaded \in Manifests => d.state = state)
    BY <2>1 DEF Manifests
  <2>4. loaded \in Manifests => Succeeds(w, loaded)
    BY <2>2, <2>3 DEF Succeeds, Onward
  <2>5. /\ Steady(slots, new) /\ Passes(slots, files, slots, new)
        /\ UsableOn(slots["main"], new) => loaded = slots["main"]
        /\ ~UsableOn(slots["main"], new) /\ UsableOn(slots["bak"], new) => loaded = slots["bak"]
    BY <1>2, <1>5, <2>2
  <2>6. Follows(w, slots, new)
    <3>1. \A s \in {"main", "bak"} : UsableOn(slots[s], new) => slots[s] \in Manifests
      BY FilesNow DEF UsableOn, Slots
    <3>2. QED
      BY <2>4, <2>5, <3>1 DEF Follows
  <2>7. \A u \in Writers : writer'[u] = w \/ writer'[u] = Idle
    BY <1>1, <2>2, FilesNow
  <2>8. QED
    BY <1>1, <1>2, <1>4, <2>5, <2>6, <2>7 DEF LifeInv
<1>8. QED
  BY <1>6, <1>7, RecoverShape

LEMMA LifeInit ==
    ASSUME Init
    PROVE  LifeInv
<1>1. PICK m \in Earlier \cup {Absent} :
        /\ slots = [NoSlots EXCEPT !["main"] = m]
        /\ files = IF m = Absent THEN {} ELSE FilesOf(m)
  BY DEF Init
<1>2. slots["main"] = m /\ slots["bak"] = Absent
  BY <1>1 DEF NoSlots, Slots
<1>3. Steady(slots, files)
  BY <1>1, <1>2 DEF Steady, Settled
<1>4. \A t \in Writers : writer[t] = Idle
  BY DEF Init
<1>5. QED
  BY <1>3, <1>4 DEF LifeInv, Follows

\* One step of the store, for a recording that was not aborted.
LEMMA LifeNext ==
    ASSUME StoreInv, SoundInv, HistoryInv, LifeInv, ~overlapped', [Next]_vars
    PROVE  /\ LifeInv'
           /\ ~dropped' /\ (slots' # slots \/ files' # files) => Passes(slots, files, slots', files')
<1>1. CASE UNCHANGED <<slots, files, writer, dropped>>
  BY <1>1 DEF LifeInv
<1>2. CASE dropped'
  BY <1>2 DEF LifeInv
<1>3. ASSUME Next, ~dropped'
      PROVE  /\ LifeInv'
             /\ slots' # slots \/ files' # files => Passes(slots, files, slots', files')
  <2>1. ~dropped
    BY <1>3 DEF Next, WriteStep, CreateChunk, FlushChunk, CreateManifestTmp, SyncManifestTmp, RemoveOldBackup,
       MoveManifestAside, PromoteManifest, FinishWrite, FailCall, GiveUp, Start, WriteTextChunk,
       WriteAudioChunk, SaveNotes, WriteTranscriptSegment, Finish, MarkNeedsRecovery, AbortUnfinished,
       AppendPrivacyEvent, SelectTranscriptRevision, BeginAttempt, CompleteTranscription, CompleteReview,
       CompleteCleanup, RecordFailure, RecordRecapReceipt, Recover, Crash, Kept
  <2>2. CASE \E t \in Writers : WriteStep(t)
    BY <2>1, <2>2, LifeWriteStep
  <2>3. CASE Recover
    BY <2>1, <2>3, LifeRecover
  <2>4. CASE Crash
    <3>1. UNCHANGED <<slots, files, dropped>> /\ \A t \in Writers : writer'[t] = Idle
      BY <2>4 DEF Crash
    <3>2. QED
      BY <3>1 DEF LifeInv, Follows
  <2>5. CASE \E a \in Attempts, p \in {"transcription", "review", "cleanup"} : BeginAttempt(a, p)
    <3>1. UNCHANGED <<slots, files, writer, dropped>>
      BY <2>5 DEF BeginAttempt, Kept
    <3>2. QED
      BY <1>1, <3>1
  <2>6. ~AbortUnfinished
    BY <1>3 DEF AbortUnfinished
  <2>7. QED
    BY <1>3, <2>2, <2>3, <2>4, <2>5, <2>6, LifeOperations DEF Next
<1>4. QED
  BY <1>1, <1>2, <1>3 DEF vars

\* While a holder of the guard finds the recording, it is not open again and
\* stays finished once it is, whatever kills, failing calls of writes and
\* recoveries leave in the three manifest names and among the chunk files, and
\* for any number of them.  As long as no recap receipt was written beside
\* another operation.
THEOREM LifeCycleIsOneWay == Spec => LifeCycle
<1> DEFINE Inv == StoreInv /\ SoundInv /\ overlapped \in BOOLEAN /\ (overlapped \/ (HistoryInv /\ LifeInv))
<1>1. Init => Inv
  BY InitFits, SoundInit, HistoryInit, LifeInit DEF Init
<1>2. Inv /\ [Next]_vars => Inv'
  BY NextFits, SoundNext, HistoryNext, LifeNext, OverlapStays
<1>3. ASSUME Inv, [Next]_vars
      PROVE  [~overlapped' /\ seen' # Absent /\ (slots' # slots \/ files' # files) =>
                  LET old == Readable  new == Readable' IN
                  old # Absent /\ new # Absent =>
                      /\ old.state # "recording" => new.state # "recording"
                      /\ old.state = "finished" => new.state = "finished"]_vars
  <2>1. SUFFICES ASSUME ~overlapped', seen' # Absent, slots' # slots \/ files' # files,
                        NEW old, old = Readable, NEW new, new = Readable', old # Absent, new # Absent
                 PROVE  /\ old.state # "recording" => new.state # "recording"
                        /\ old.state = "finished" => new.state = "finished"
    OBVIOUS
  <2>2. StoreInv'
    BY <1>3, NextFits
  <2>3. ~dropped'
    BY <2>1, <2>2 DEF StoreInv, SeenInv
  <2>4. HistoryInv /\ LifeInv
    BY <1>3, <2>1, OverlapStays
  <2>5. Passes(slots, files, slots', files')
    BY <1>3, <2>1, <2>3, <2>4, LifeNext
  <2>6. QED
    BY <2>1, <2>5, FoundReadable DEF Passes, Onward
<1>4. QED
  BY <1>1, <1>2, <1>3, PTL DEF Spec, LifeCycle

=============================================================================
