--------------------------- MODULE MCTorInstance ---------------------------
(* Small instances of TorInstance for TLC. *)
EXTENDS TorInstance
=============================================================================
