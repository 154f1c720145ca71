--------------------------- MODULE InstructAssets ---------------------------
(***************************************************************************)
(* The runner and the language model the user imports (                    *)
(* local_instruct_assets.rs): two files and one manifest that records the  *)
(* digest and the stamp (size and time) of each.  A file is replaced by    *)
(* renaming the old one aside, the manifest likewise.  Imports are served  *)
(* by the request thread and by a background job, and nothing serializes   *)
(* the two.                                                                *)
(***************************************************************************)
EXTENDS Naturals, FiniteSets

CONSTANTS
    Importers,          \* the threads that import: the request thread, a job
    MaxAssetImports, MaxAssetFaults     \* bounds

ASSUME InstructConstants ==
    MaxAssetImports \in Nat /\ MaxAssetFaults \in Nat /\ Importers # {}

AssetKinds == {"runner", "model"}
Gone == [digest |-> 0, stamp |-> 0]
NoRecords == [k \in AssetKinds |-> Gone]

VARIABLES
    asset, aside,       \* kind -> the file, and the one renamed aside
    manifest,           \* the manifest and its backup: "missing" or records
    importing,          \* what each importer does
    expects,            \* ghost: kind -> its last import succeeded, no other program wrote it
    halfway,            \* ghost: kinds whose replacement was cut or left half-way since
    together,           \* ghost: two imports ran at once
    shared,             \* ghost: kinds of which two imports ran at once
    assetImports, assetFaults

ghostVars == <<expects, halfway, together, shared>>
instructVars == <<asset, aside, manifest, importing, ghostVars, assetImports, assetFaults>>

Settled == [pc |-> "idle", kind |-> "runner", part |-> Gone, records |-> NoRecords,
            had |-> FALSE, staged |-> FALSE]
NoManifest == [k \in {} |-> Gone]
AssetFault == assetFaults < MaxAssetFaults /\ assetFaults' = assetFaults + 1
AtStep(w, pc) == importing[w].pc = pc
GoTo(w, pc) == importing' = [importing EXCEPT ![w].pc = pc]
EndImport(w) == importing' = [importing EXCEPT ![w] = Settled]

\* read_manifest: without a manifest nothing is recorded; its backup is not read.
Records == IF manifest.target = NoManifest THEN NoRecords ELSE manifest.target

\* Mutant of Verified: a recorded file is taken as it is.
VerifiedByPresence(k) == Records[k] # Gone /\ asset[k] # Gone

\* asset_state, load_runtime_config: the record fits the file's size and time.
Verified(k) ==
    /\ Records[k] # Gone /\ asset[k] # Gone
    /\ Records[k].stamp = asset[k].stamp

---------------------------------------------------------------------------
\* Copied beside the old one and hashed on the way.  The wrong digest, a
\* source that changed or another format removes the copy again.
CopyAsset(w, k, replace, good) ==
    /\ AtStep(w, "idle") /\ assetImports < MaxAssetImports
    /\ asset[k] # Gone => replace
    /\ assetImports' = assetImports + 1
    /\ LET copy == [digest |-> assetImports + 1, stamp |-> assetImports + 1]
           others == {v \in Importers : ~AtStep(v, "idle")} IN
       IF good
       THEN /\ importing' = [importing EXCEPT ![w] = [Settled EXCEPT !.pc = "read", !.kind = k, !.part = copy]]
            /\ together' = (together \/ others # {})
            /\ shared' = IF \E v \in others : importing[v].kind = k THEN shared \cup {k} ELSE shared
       ELSE UNCHANGED <<importing, together, shared>>
    /\ UNCHANGED <<asset, aside, manifest, expects, halfway, assetFaults>>

ReadManifest(w) ==
    /\ AtStep(w, "read")
    /\ importing' = [importing EXCEPT ![w].pc = "aside", ![w].records = Records,
                                      ![w].had = asset[importing[w].kind] # Gone]
    /\ UNCHANGED <<asset, aside, manifest, ghostVars, assetImports, assetFaults>>

\* A stale file aside is removed, then the old one is renamed to it, which
\* fails when another import has renamed it.
SetAssetAside(w) ==
    LET k == importing[w].kind IN
    /\ AtStep(w, "aside")
    /\ \/ /\ importing[w].had => asset[k] # Gone
          /\ IF importing[w].had
             THEN /\ asset' = [asset EXCEPT ![k] = Gone] /\ aside' = [aside EXCEPT ![k] = asset[k]]
             ELSE /\ aside' = [aside EXCEPT ![k] = Gone] /\ UNCHANGED asset
          /\ GoTo(w, "commit") /\ UNCHANGED assetFaults
       \/ /\ IF importing[w].had /\ asset[k] = Gone THEN UNCHANGED assetFaults ELSE AssetFault
          /\ EndImport(w)
          /\ \/ aside' = [aside EXCEPT ![k] = Gone]
             \/ UNCHANGED aside
          /\ UNCHANGED asset
    /\ UNCHANGED <<manifest, ghostVars, assetImports>>

\* The old file comes back, when one was set aside.
PutBack(w, k, otherwise) ==
    IF importing[w].had /\ aside[k] # Gone
    THEN asset' = [asset EXCEPT ![k] = aside[k]] /\ aside' = [aside EXCEPT ![k] = Gone]
    ELSE asset' = [asset EXCEPT ![k] = otherwise] /\ UNCHANGED aside

\* The copy takes the name, or the old file comes back.
CommitAsset(w) ==
    LET k == importing[w].kind IN
    /\ AtStep(w, "commit")
    /\ \/ /\ asset' = [asset EXCEPT ![k] = importing[w].part]
          /\ GoTo(w, "permit") /\ UNCHANGED <<aside, assetFaults>>
       \/ AssetFault /\ EndImport(w) /\ PutBack(w, k, asset[k])
    /\ UNCHANGED <<manifest, ghostVars, assetImports>>

\* set_asset_permissions: its failure, certain when another import renamed the
\* file away, leaves the new file with the old record.  Then the time of the
\* file that has the name by now is read and the record made.
Permit(w) ==
    LET k == importing[w].kind IN
    /\ AtStep(w, "permit")
    /\ \/ /\ importing' = [importing EXCEPT ![w].pc = "manifest-aside",
                ![w].records[k] = [digest |-> importing[w].part.digest, stamp |-> asset[k].stamp]]
          /\ UNCHANGED <<halfway, assetFaults>>
       \/ /\ IF asset[k] = Gone THEN UNCHANGED assetFaults ELSE AssetFault
          /\ EndImport(w) /\ halfway' = halfway \cup {k}
    /\ UNCHANGED <<asset, aside, manifest, expects, together, shared, assetImports>>

\* write_manifest: the staged file is written, the manifest renamed aside.
SetManifestAside(w) ==
    LET k == importing[w].kind IN
    /\ AtStep(w, "manifest-aside")
    /\ \/ /\ manifest' = IF manifest.target = NoManifest THEN [manifest EXCEPT !.backup = NoManifest]
                         ELSE [target |-> NoManifest, backup |-> manifest.target]
          /\ importing' = [importing EXCEPT ![w].pc = "manifest",
                                            ![w].staged = manifest.target # NoManifest]
          /\ UNCHANGED <<asset, aside, assetFaults>>
       \/ AssetFault /\ EndImport(w) /\ PutBack(w, k, Gone) /\ UNCHANGED manifest
    /\ UNCHANGED <<ghostVars, assetImports>>

\* The manifest renamed aside comes back, when there is one.
ManifestBack(w) ==
    manifest' = IF importing[w].staged /\ manifest.backup # NoManifest
                THEN [target |-> manifest.backup, backup |-> NoManifest] ELSE manifest

Imported(k) == expects' = [expects EXCEPT ![k] = TRUE] /\ halfway' = halfway \ {k}

\* Mutant of WriteManifest: the new file stays without its record.
WriteManifestOnly(w) ==
    LET k == importing[w].kind IN
    /\ AtStep(w, "manifest") /\ EndImport(w)
    /\ \/ /\ manifest' = [target |-> importing[w].records, backup |-> NoManifest]
          /\ aside' = [aside EXCEPT ![k] = Gone] /\ Imported(k)
          /\ UNCHANGED <<asset, assetFaults>>
       \/ AssetFault /\ UNCHANGED <<asset, aside, expects, halfway>> /\ ManifestBack(w)
    /\ UNCHANGED <<together, shared, assetImports>>

\* The staged one takes its place, or the old one comes back and with it the
\* old file.  At the end what was set aside is removed.
WriteManifest(w) ==
    LET k == importing[w].kind IN
    /\ AtStep(w, "manifest") /\ EndImport(w)
    /\ \/ /\ manifest' = [target |-> importing[w].records,
                          backup |-> IF importing[w].staged THEN NoManifest ELSE manifest.backup]
          /\ aside' = IF importing[w].had THEN [aside EXCEPT ![k] = Gone] ELSE aside
          /\ Imported(k) /\ UNCHANGED <<asset, assetFaults>>
       \/ AssetFault /\ PutBack(w, k, Gone) /\ UNCHANGED <<expects, halfway>> /\ ManifestBack(w)
    /\ UNCHANGED <<together, shared, assetImports>>

\* The process ends, perhaps in the middle of the replacement of a file, or of
\* the manifest, whose backup is not read again.
InstructCrash ==
    /\ AssetFault /\ importing' = [w \in Importers |-> Settled]
    /\ halfway' = halfway \cup
         {k \in AssetKinds : \/ manifest.target = NoManifest
                             \/ \E w \in Importers : ~AtStep(w, "idle") /\ importing[w].kind = k}
    /\ UNCHANGED <<asset, aside, manifest, expects, together, shared, assetImports>>

\* Another program writes a file that no import is at work on.
ChangeAsset(k) ==
    /\ \A w \in Importers : AtStep(w, "idle")
    /\ asset[k] # Gone /\ assetImports < MaxAssetImports /\ assetImports' = assetImports + 1
    /\ asset' = [asset EXCEPT ![k] = [digest |-> assetImports + 1, stamp |-> assetImports + 1]]
    /\ expects' = [expects EXCEPT ![k] = FALSE]
    /\ UNCHANGED <<aside, manifest, importing, halfway, together, shared, assetFaults>>

InstructInit ==
    /\ asset = NoRecords /\ aside = NoRecords
    /\ manifest = [target |-> NoManifest, backup |-> NoManifest]
    /\ importing = [w \in Importers |-> Settled]
    /\ expects = [k \in AssetKinds |-> FALSE] /\ halfway = {} /\ together = FALSE /\ shared = {}
    /\ assetImports = 0 /\ assetFaults = 0

InstructNext ==
    \/ \E w \in Importers, k \in AssetKinds, replace, good \in BOOLEAN : CopyAsset(w, k, replace, good)
    \/ \E w \in Importers :
        \/ ReadManifest(w) \/ SetAssetAside(w) \/ CommitAsset(w) \/ Permit(w)
        \/ SetManifestAside(w) \/ WriteManifest(w)
    \/ InstructCrash
    \/ \E k \in AssetKinds : ChangeAsset(k)

---------------------------------------------------------------------------
(* Properties.                                                             *)

\* A file that passes for verified, which is run without hashing it again,
\* has the digest of its record: through failed replacements that put the
\* old file back, crashes, changes from outside, and imports of the other kind
\* at the same time (load_runtime_config).  Two imports of one kind at once are
\* the exception: one records its digest with the time of the other's file.
RunsVerified ==
    \A k \in AssetKinds \ shared : Verified(k) => asset[k].digest = Records[k].digest

\* A kind whose import succeeded stays usable: an import of it that fails
\* puts the old file back with its record, and one of the other kind never
\* disturbs it (import_from_path).  Three things end that: permissions that
\* cannot be set, which leave the new file with the old record, a crash in
\* the middle of its own replacement or of the manifest's (halfway), and two
\* imports at once, of which one can undo the record of the other (together).
ImportedStaysUsable ==
    ~together /\ (\A w \in Importers : AtStep(w, "idle")) =>
        \A k \in AssetKinds \ halfway : expects[k] => Verified(k)
=============================================================================
