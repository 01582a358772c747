----------------------------- MODULE MCMtDrive -----------------------------
(* A main thread and two workers; either layout is an initial state.         *)
EXTENDS MtDrive
=============================================================================
