--------------------------- MODULE ManifestFile ---------------------------
(***************************************************************************)
(* How recording_store.rs replaces the manifest of one recording           *)
(* directory.  Three names hold manifests: manifest.json ("main"), its     *)
(* backup ("bak") and the file being staged ("tmp").  A writer goes        *)
(* through the calls of write_manifest one at a time, so that a failure, a *)
(* kill or a second writer can fall between any two of them.               *)
(***************************************************************************)
EXTENDS Naturals, Sequences

CONSTANTS Absent,   \* no file of that name
          Torn      \* a file whose write was not completed

Slots == {"main", "bak", "tmp"}

NoSlots == [s \in Slots |-> Absent]

---------------------------------------------------------------------------
(* The calls of write_manifest on the three names.  Each is the effect of  *)
(* a call that succeeds; a call that fails leaves the names as they are.   *)

CreateTmp(slots) == [slots EXCEPT !["tmp"] = Torn]

SyncTmp(slots, doc) == [slots EXCEPT !["tmp"] = doc]

RemoveBak(slots) == [slots EXCEPT !["bak"] = Absent]

\* Mutant of MoveAside: the live manifest is removed, not kept as backup.
DiscardMain(slots) == [slots EXCEPT !["main"] = Absent]

MoveAside(slots) ==
    IF slots["main"] = Absent THEN slots
    ELSE [slots EXCEPT !["bak"] = slots["main"], !["main"] = Absent]

Promote(slots) == [slots EXCEPT !["main"] = slots["tmp"], !["tmp"] = Absent]

\* The rollback of a failed promote: only a writer that moved a manifest
\* aside moves one back.
RestoreBak(slots, had) ==
    IF had /\ slots["bak"] # Absent
    THEN [slots EXCEPT !["main"] = slots["bak"], !["bak"] = Absent]
    ELSE slots
===========================================================================
