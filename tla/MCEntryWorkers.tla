---------------------------- MODULE MCEntryWorkers ----------------------------
(* A small instance of EntryWorkers. *)
EXTENDS EntryWorkers
=============================================================================
