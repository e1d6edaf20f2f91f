------------------------------ MODULE MCTunnel ------------------------------
(* Small instances of Tunnel, with the gate it implements, for TLC. *)
EXTENDS TunnelGate
=============================================================================
