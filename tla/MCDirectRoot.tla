---------------------------- MODULE MCDirectRoot ----------------------------
(* A small instance of DirectRoot for TLC. *)
EXTENDS DirectRoot
=============================================================================
