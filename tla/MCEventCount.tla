---------------------------- MODULE MCEventCount -----------------------------
(* Small instances of EventCount for TLC, one per platform branch. *)
EXTENDS EventCount
=============================================================================
