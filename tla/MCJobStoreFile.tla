--------------------------- MODULE MCJobStoreFile ---------------------------
(* Model-checking instances of JobStoreFile. *)
EXTENDS JobStoreFile

CONSTANTS j1, j2, j3
==============================================================================
