----------------------------- MODULE MCNetfilter -----------------------------
(* Netfilter is finite as it is: every flow, every order of events. *)
EXTENDS Netfilter
=============================================================================
