-------------------------- MODULE RecordingReader --------------------------
(***************************************************************************)
(* A reader of one recording beside the writers of RecordingStore.  The    *)
(* list, the pages, the transcript, search and export read without the     *)
(* guard: read_manifest_with_budget probes the three manifest names one    *)
(* after another, and a writer can rename them between two probes.         *)
(***************************************************************************)
EXTENDS RecordingStore

VARIABLE reader     \* the read in progress, or the last one

\* The name that is probed after s, if that one cannot be used.
NextName(s) == CASE s = "main" -> "bak" [] s = "bak" -> "tmp" [] s = "tmp" -> "idle"

NoRead == [pc |-> "idle", since |-> Absent, doc |-> Absent]

\* Mutant of FirstName: the backup is looked at before the manifest.
FirstNameBackup == "bak"

FirstName == "main"

BeginRead ==
    /\ up /\ reader.pc = "idle"
    /\ reader' = [pc |-> FirstName, since |-> seen, doc |-> Absent]
    /\ UNCHANGED vars

Probe ==
    /\ reader.pc # "idle"
    /\ reader' = IF Usable(reader.pc)
                 THEN [reader EXCEPT !.pc = "idle", !.doc = slots[reader.pc]]
                 ELSE [reader EXCEPT !.pc = NextName(reader.pc)]
    /\ UNCHANGED vars

\* A step of the store: a read in progress goes on, unless the process is
\* killed; a result that was returned is forgotten.
StoreStep ==
    /\ Next
    /\ reader' = IF up' /\ reader.pc # "idle" THEN reader ELSE NoRead

ReaderInit == Init /\ reader = NoRead

ReaderNext == BeginRead \/ Probe \/ StoreStep

ReaderSpec == ReaderInit /\ [][ReaderNext]_<<vars, reader>>

---------------------------------------------------------------------------
(* Properties.                                                             *)

\* A read without the guard may miss a recording that is being written (it is
\* then reported as missing), but what it does return is never older than what
\* was reported as stored before it began: a writer that moves the names under
\* it never hands it a manifest that lost chunks, revisions or receipts.  One
\* fault is tolerated, as for HistoryKept.
ReadsKeepUp ==
    /\ reader.doc # Absent /\ reader.since # Absent
    /\ faults <= 1 /\ ~rebuilt /\ ~overlapped /\ ~dropped
    => Extends(reader.doc, reader.since)

\* Refuted: a recording that was stored is found by every read.
ReadsFind ==
    reader.pc = "idle" /\ reader.since # Absent /\ ~dropped => reader.doc # Absent
===========================================================================
