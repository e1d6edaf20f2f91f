---------------------------- MODULE MCControlPort ----------------------------
(* Small instances of ControlPort for TLC. *)
EXTENDS ControlPort
=============================================================================
