-------------------------------- MODULE Gate --------------------------------
(***************************************************************************)
(* What the tunnel promises the programs it admits, with nothing of how:   *)
(* there is a filter; a program is admitted only while the filter is up;   *)
(* and the filter comes down only when every admitted program has left.    *)
(* Tunnel implements it (TunnelGate): the filter is the nftables table,    *)
(* the admitted programs those that entered a standing tunnel.             *)
(***************************************************************************)
CONSTANT Procs

VARIABLES filter, admitted
vars == <<filter, admitted>>

Init == filter = FALSE /\ admitted = {}

Raise == ~filter /\ filter' = TRUE /\ UNCHANGED admitted

Lower == filter /\ admitted = {} /\ filter' = FALSE /\ UNCHANGED admitted

Admit(p) ==
  filter /\ p \notin admitted /\ admitted' = admitted \cup {p} /\ UNCHANGED filter

\* Programs leave one by one, or all that are killed at once.
Leave ==
  \E some \in SUBSET admitted : admitted' = admitted \ some /\ UNCHANGED filter

Next == Raise \/ Lower \/ Leave \/ \E p \in Procs : Admit(p)

Spec == Init /\ [][Next]_vars

\* No admitted program is ever without the filter.
Kept == admitted # {} => filter
=============================================================================
