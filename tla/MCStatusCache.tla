---------------------------- MODULE MCStatusCache ----------------------------
(* Small instances of StatusCache for TLC. *)
EXTENDS StatusCache
=============================================================================
