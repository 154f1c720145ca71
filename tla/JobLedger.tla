------------------------------ MODULE JobLedger ------------------------------
(***************************************************************************)
(* What the durable job store promises to the rest of the core, as one     *)
(* atomic register: the set of jobs a restart would find.  A write         *)
(* replaces the set in one step, never loses a job whose submission was    *)
(* acknowledged, and never brings back a job whose erasure was reported.   *)
(* JobStoreFile implements it with files, renames and crashes.             *)
(***************************************************************************)
CONSTANT Job

VARIABLES
    stored,     \* the jobs a restart would load
    accepted,   \* jobs acknowledged to their submitter and still wanted
    erased      \* jobs whose erasure was reported complete

ledgerVars == <<stored, accepted, erased>>

LedgerInit ==
    /\ stored \in SUBSET Job
    /\ accepted = stored
    /\ erased = {}

(* A new snapshot takes effect atomically. *)
Write(S) ==
    /\ accepted \subseteq S
    /\ S \cap erased = {}
    /\ stored' = S
    /\ UNCHANGED <<accepted, erased>>

(* A submission is acknowledged only once the job is stored. *)
Accept(j) ==
    /\ j \in stored
    /\ accepted' = accepted \cup {j}
    /\ UNCHANGED <<stored, erased>>

(* The user dismisses a job, or the deletion of its recording begins. *)
Release(j) ==
    /\ accepted' = accepted \ {j}
    /\ UNCHANGED <<stored, erased>>

(* The erasure of a job is reported only once the job is not stored. *)
Erase(j) ==
    /\ j \notin stored
    /\ j \notin accepted
    /\ erased' = erased \cup {j}
    /\ UNCHANGED <<stored, accepted>>

LedgerNext ==
    \/ \E S \in SUBSET Job : Write(S)
    \/ \E j \in Job : Accept(j) \/ Release(j) \/ Erase(j)

LedgerSpec == LedgerInit /\ [][LedgerNext]_ledgerVars
==============================================================================
