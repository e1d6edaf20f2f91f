------------------------------ MODULE Netfilter ------------------------------
(***************************************************************************)
(* The nftables table (src/nft.rs) at work: one flow of packets, the hooks *)
(* of the kernel it passes, and its connection-tracking entry, while the   *)
(* table is applied and removed under it. Hooks, routing, and conntrack    *)
(* (a flow is translated as its first packet was) are the kernel's.        *)
(***************************************************************************)
EXTENDS Naturals

VARIABLES
  rules,  \* `table ip tort` is installed
  flow,   \* the flow: who opened it, and to what
  track,  \* its conntrack entry: none, plain, or redirected to tor
  fate,   \* what became of its last packet
  seen    \* for that packet: the way it went, the table, the entry it met

vars == <<rules, flow, track, fate, seen>>

\* "tunnel" is the namespace behind tort0, "lan" another machine, "local" this
\* one. "gateway" is 10.66.0.1, "peer" the rest of its subnet (the namespace's
\* own address among it), "host" this machine's other addresses, "onion"
\* 10.192.0.0/10.
Sources == {"tunnel", "lan", "local"}
Dests   == {"gateway", "peer", "host", "onion", "internet"}
Protos  == {"tcp", "udp", "icmp"}
Ports   == {"domain", "TRANS_PORT", "DNS_PORT", "other"}
Flows   == [from : Sources, dst : Dests, proto : Protos, dport : Ports]

Nowhere == [way |-> "none", rules |-> FALSE, track |-> "none"]

Init ==
  /\ rules = FALSE /\ flow \in Flows /\ track = "none"
  /\ fate = "none" /\ seen = Nowhere

-----------------------------------------------------------------------------
(* The chains.                                                             *)

SubnetAddr(dst) == dst \in {"gateway", "peer"}

\* Mutant: the exclusion is a blanket one for 10.0.0.0/8.
PreroutingBlanket(iif, f) ==
  /\ iif = "tort0"
  /\ \/ f.proto = "udp" /\ f.dport = "domain"
     \/ f.proto = "tcp" /\ ~SubnetAddr(f.dst) /\ f.dst # "onion"

\* chain prerouting: is the flow redirected? To DNS_PORT for DNS over UDP,
\* whatever its destination; otherwise to TRANS_PORT for TCP beyond the subnet.
Prerouting(iif, f) ==
  /\ iif = "tort0"
  /\ \/ f.proto = "udp" /\ f.dport = "domain"
     \/ f.proto = "tcp" /\ ~SubnetAddr(f.dst)

\* Mutant: only what comes out of the namespace is dropped.
ForwardOneWay(iif, oif) == iif # "tort0"

\* Mutant: only what goes into it is.
ForwardOut(iif, oif) == oif # "tort0"

\* chain forward: does the packet pass?
Forward(iif, oif) == iif # "tort0" /\ oif # "tort0"

TorPort(proto, dport) ==
  \/ proto = "tcp" /\ dport = "TRANS_PORT"
  \/ proto = "udp" /\ dport = "DNS_PORT"

\* Mutant: tor's ports are open to whoever can route to them.
InputOpen(iif, proto, dport, established) ==
  iif = "tort0" => established \/ TorPort(proto, dport)

\* Mutant: the policy of the chain is drop.
InputClosed(iif, proto, dport, established) ==
  established \/ (iif = "tort0" /\ TorPort(proto, dport))

\* chain input: tor's ports for the namespace, and nothing else for it but what
\* is already established; everything but tor's ports for the others.
Input(iif, proto, dport, established) ==
  IF iif = "tort0" THEN established \/ TorPort(proto, dport)
                   ELSE ~TorPort(proto, dport)

-----------------------------------------------------------------------------
(* The kernel.                                                             *)

LocalAddr(dst) == dst \in {"gateway", "host"}

\* Where an address is routed.
OutIf(dst) == IF dst = "peer" THEN "tort0" ELSE "eth0"

InIf(from) == CASE from = "tunnel" -> "tort0" [] from = "lan" -> "eth0" [] OTHER -> "lo"

\* The entry the flow has by the time it is routed: the nat hook is asked of a
\* flow with none, and of no other.
Entry ==
  IF track # "none" THEN track
  ELSE IF rules /\ Prerouting(InIf(flow.from), flow) THEN "redirected" ELSE "plain"

\* The port a redirected flow is delivered at.
Port == IF Entry = "plain" THEN flow.dport
        ELSE IF flow.proto = "udp" THEN "DNS_PORT" ELSE "TRANS_PORT"

\* What is local to this machine needs no forwarding; what it sends itself meets
\* none of the table's chains until it arrives, over lo, at one of its own
\* addresses.
Delivered == Entry = "redirected" \/ LocalAddr(flow.dst)

Passes ==
  rules =>
    IF Delivered THEN Input(InIf(flow.from), flow.proto, Port, track # "none")
    ELSE flow.from = "local" \/ Forward(InIf(flow.from), OutIf(flow.dst))

\* A packet in the direction the flow was opened. A first packet that is dropped
\* leaves no entry.
Send ==
  /\ seen' = [way |-> "original", rules |-> rules, track |-> track]
  /\ IF Passes
       THEN /\ track' = Entry
            /\ fate' = IF ~Delivered THEN "out"
                       ELSE IF TorPort(flow.proto, Port) THEN "tor" ELSE "host"
       ELSE fate' = "dropped" /\ UNCHANGED track
  /\ UNCHANGED <<rules, flow>>

\* A packet back. From this machine it meets no chain; from elsewhere it is
\* forwarded to, or delivered at, whoever opened the flow.
Answer ==
  /\ track # "none"
  /\ seen' = [way |-> "reply", rules |-> rules, track |-> track]
  /\ LET iif == OutIf(flow.dst)
         oif == InIf(flow.from)
     IN fate' = IF \/ ~rules \/ Delivered
                   \/ flow.from = "local" /\ Input(iif, flow.proto, "other", TRUE)
                   \/ flow.from # "local" /\ Forward(iif, oif)
                  THEN "back" ELSE "dropped"
  /\ UNCHANGED <<rules, flow, track>>

\* An idle entry is forgotten.
Forget ==
  /\ track # "none" /\ track' = "none"
  /\ UNCHANGED <<rules, flow, fate, seen>>

\* nft::apply and nft::remove, each one transaction.
Apply == ~rules /\ rules' = TRUE /\ UNCHANGED <<flow, track, fate, seen>>

Remove == rules /\ rules' = FALSE /\ UNCHANGED <<flow, track, fate, seen>>

Next == Send \/ Answer \/ Forget \/ Apply \/ Remove

Spec == Init /\ [][Next]_vars

-----------------------------------------------------------------------------
(* Properties. `seen` says under which table and entry the packet went.     *)

\* Types; a flow is redirected only from the tunnel, and TCP only beyond its subnet;
\* nothing that has no ports is.
TypeOK ==
  /\ rules \in BOOLEAN /\ flow \in Flows
  /\ track \in {"none", "plain", "redirected"}
  /\ track = "redirected" =>
       /\ flow.from = "tunnel" /\ flow.proto # "icmp"
       /\ flow.proto = "tcp" => ~SubnetAddr(flow.dst)
  /\ fate \in {"none", "tor", "host", "out", "back", "dropped"}
  /\ seen \in [way : {"none", "original", "reply"}, rules : BOOLEAN,
               track : {"none", "plain", "redirected"}]

\* Under the table nothing from the namespace is forwarded, and it reaches tor
\* or nothing, but for a connection to this machine that was made before the
\* table went in.
Contained ==
  flow.from = "tunnel" /\ seen.way = "original" /\ seen.rules =>
    \/ fate \in {"tor", "dropped"}
    \/ fate = "host" /\ seen.track = "plain"

\* What tor can carry it gets: the table is no plain wall. DNS over UDP to any
\* server, and TCP to anything beyond the subnet, onion addresses too.
Carried ==
  /\ flow.from = "tunnel" /\ seen.way = "original"
  /\ seen.rules /\ seen.track = "none"
  /\ \/ flow.proto = "udp" /\ flow.dport = "domain"
     \/ flow.proto = "tcp" /\ ~SubnetAddr(flow.dst)
  => fate = "tor"

\* Nobody but the namespace reaches tor's ports, on whichever address.
TorIsNotAProxy ==
  flow.from # "tunnel" /\ seen.way = "original" /\ seen.rules => fate # "tor"

\* No packet from another machine is forwarded into the namespace, nor an answer
\* of its own to a connection of before the table.
NothingForwardedIn ==
  seen.rules =>
    /\ flow.from = "lan" /\ flow.dst = "peer" => fate = "dropped"
    /\ seen.way = "reply" /\ flow.from = "tunnel" /\ fate = "back" =>
         seen.track = "redirected" \/ LocalAddr(flow.dst)

\* Traffic that is neither the namespace's nor for tor's ports goes its way as
\* without the table.
OthersUntouched ==
  /\ flow.from # "tunnel" /\ flow.dst # "peer" /\ ~TorPort(flow.proto, flow.dport)
  => fate # "dropped"
=============================================================================
