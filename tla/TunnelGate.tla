----------------------------- MODULE TunnelGate -----------------------------
(* What the tunnel implements: the gate, and the life of tor. *)
EXTENDS Tunnel

Admitted == {p \in Procs : phase[p] = "inside" /\ p \notin late}

G == INSTANCE Gate WITH filter <- rules, admitted <- Admitted

\* Every step of the tunnel is a step of the gate: the nftables table is never
\* removed while a program that entered a standing tunnel is still inside, and
\* nobody is admitted without it (privileged.rs, down() and its comment).
GateSpec == G!Spec

Tor == INSTANCE TorLife

\* What the tunnel assumes of tor is what TorInstance keeps with pids, a pidfile
\* and a log file: the tunnel launches none before the last is dead, and takes
\* no line of an earlier one's log for its own (tor.rs, start() and stop()).
TorLifeSpec == Tor!LifeSpec
=============================================================================
