--------------------------- MODULE NetfilterProof ---------------------------
(***************************************************************************)
(* Proofs about Netfilter: what the table does to every flow, whatever the *)
(* moments at which it is applied and removed and its entry is forgotten.  *)
(***************************************************************************)
EXTENDS Netfilter, TLAPS

\* What the chains made of the packet seen last, under the rules and the entry they
\* saw it with.
SeenIsJudged ==
  /\ Contained
  /\ Carried
  /\ TorIsNotAProxy
  /\ NothingForwardedIn
  /\ OthersUntouched

IInv == TypeOK /\ SeenIsJudged

-----------------------------------------------------------------------------
\* A flow that the nat hook has redirected comes from the namespace; TCP among
\* it goes beyond the subnet.
LEMMA EntryIsTyped ==
  ASSUME TypeOK
  PROVE  /\ Entry \in {"plain", "redirected"}
         /\ Entry = "redirected" =>
              /\ flow.from = "tunnel" /\ flow.proto # "icmp"
              /\ flow.proto = "tcp" => ~SubnetAddr(flow.dst)
  BY DEF TypeOK, Entry, Prerouting, InIf, Flows, Sources

\* Every step keeps the types.
LEMMA TypeStep == TypeOK /\ [Next]_vars => TypeOK'
<1> SUFFICES ASSUME TypeOK, [Next]_vars
             PROVE  TypeOK'
  OBVIOUS
<1>1. CASE Send
  BY <1>1, EntryIsTyped DEF Send, TypeOK
<1>2. CASE Answer
  BY <1>2 DEF Answer, TypeOK
<1>3. CASE Forget \/ Apply \/ Remove \/ UNCHANGED vars
  BY <1>3 DEF Forget, Apply, Remove, vars, TypeOK
<1> QED
  BY <1>1, <1>2, <1>3 DEF Next

-----------------------------------------------------------------------------
(* One packet out, one packet back.                                        *)

\* A packet out under the table: from the namespace it is delivered, to tor, or
\* to this machine under an entry of before; from elsewhere it never meets tor.
LEMMA SendIsJudged == TypeOK /\ Send => SeenIsJudged'
<1> SUFFICES ASSUME TypeOK, Send
             PROVE  SeenIsJudged'
  OBVIOUS
<1> USE DEF Send
<1>1. /\ seen'.way = "original" /\ seen'.rules = rules /\ seen'.track = track
      /\ flow' = flow /\ rules' = rules
  OBVIOUS
<1>2. flow.from \in Sources /\ flow.dst \in Dests /\ flow.proto \in Protos
      /\ flow.dport \in Ports
  BY DEF TypeOK, Flows
<1>3. Contained'
  <2> SUFFICES ASSUME flow.from = "tunnel", rules, Passes
               PROVE  fate' = "tor" \/ (fate' = "host" /\ track = "plain")
    BY <1>1 DEF Contained
  <2>1. Delivered /\ Input("tort0", flow.proto, Port, track # "none")
    BY DEF Passes, Forward, InIf
  <2>2. CASE track = "none"
    BY <2>1, <2>2 DEF Input
  <2>3. CASE track = "redirected"
    BY <1>2, <2>1, <2>3, EntryIsTyped DEF Port, Entry, TorPort, TypeOK, Protos, Prerouting
  <2> QED
    BY <2>1, <2>2, <2>3 DEF TypeOK
<1>4. Carried'
  <2> SUFFICES ASSUME flow.from = "tunnel", rules, track = "none",
                      \/ flow.proto = "udp" /\ flow.dport = "domain"
                      \/ flow.proto = "tcp" /\ ~SubnetAddr(flow.dst)
               PROVE  fate' = "tor"
    BY <1>1 DEF Carried, SubnetAddr
  <2>1. Entry = "redirected"
    BY DEF Entry, Prerouting, InIf
  <2>2. Delivered /\ TorPort(flow.proto, Port)
    BY <2>1 DEF Delivered, Port, TorPort
  <2> QED
    BY <2>2 DEF Passes, Input, InIf
<1>5. TorIsNotAProxy'
  <2> SUFFICES ASSUME flow.from # "tunnel", rules, Passes, Delivered,
                      TorPort(flow.proto, Port)
               PROVE  FALSE
    BY <1>1 DEF TorIsNotAProxy
  <2>1. InIf(flow.from) # "tort0"
    BY <1>2 DEF InIf, Sources
  <2> QED
    BY <2>1 DEF Passes, Input
<1>6. NothingForwardedIn'
  <2> SUFFICES ASSUME rules, flow.from = "lan", flow.dst = "peer"
               PROVE  ~Passes
    BY <1>1 DEF NothingForwardedIn
  <2>1. Entry = "plain"
    BY EntryIsTyped
  <2> QED
    BY <2>1 DEF Passes, Delivered, LocalAddr, Forward, OutIf, InIf
<1>7. OthersUntouched'
  <2> SUFFICES ASSUME flow.from # "tunnel", flow.dst # "peer",
                      ~TorPort(flow.proto, flow.dport)
               PROVE  Passes
    BY <1>1 DEF OthersUntouched, TorPort
  <2>1. InIf(flow.from) # "tort0" /\ OutIf(flow.dst) # "tort0"
    BY <1>2 DEF InIf, OutIf, Sources
  <2>2. Entry = "plain" /\ Port = flow.dport
    BY EntryIsTyped DEF Port
  <2> QED
    BY <2>1, <2>2 DEF Passes, Input, Forward
<1> QED
  BY <1>3, <1>4, <1>5, <1>6, <1>7 DEF SeenIsJudged

\* A packet back: forwarded neither out of the namespace nor into it.
LEMMA AnswerIsJudged == TypeOK /\ Answer => SeenIsJudged'
<1> SUFFICES ASSUME TypeOK, Answer
             PROVE  SeenIsJudged'
  OBVIOUS
<1>1. /\ seen'.way = "reply" /\ seen'.rules = rules /\ seen'.track = track
      /\ track # "none" /\ flow' = flow /\ rules' = rules /\ fate' \in {"back", "dropped"}
  BY DEF Answer
<1>2. flow.from \in Sources /\ flow.dst \in Dests
  BY DEF TypeOK, Flows
<1>3. Contained' /\ Carried' /\ TorIsNotAProxy'
  BY <1>1 DEF Contained, Carried, TorIsNotAProxy
<1>4. NothingForwardedIn'
  <2>1. rules /\ flow.from = "lan" /\ flow.dst = "peer" => fate' = "dropped"
    BY <1>1, EntryIsTyped DEF Answer, Delivered, LocalAddr, Forward, OutIf
  <2>2. rules /\ flow.from = "tunnel" /\ fate' = "back"
          => track = "redirected" \/ LocalAddr(flow.dst)
    BY <1>1 DEF Answer, Delivered, Entry, Forward, InIf
  <2> QED
    BY <1>1, <2>1, <2>2 DEF NothingForwardedIn, LocalAddr
<1>5. OthersUntouched'
  <2> SUFFICES ASSUME flow.from # "tunnel", flow.dst # "peer"
               PROVE  fate' = "back"
    BY <1>1 DEF OthersUntouched, TorPort
  <2>1. InIf(flow.from) # "tort0" /\ OutIf(flow.dst) # "tort0"
    BY <1>2 DEF InIf, OutIf, Sources
  <2> QED
    BY <2>1 DEF Answer, Input, Forward, TorPort
<1> QED
  BY <1>3, <1>4, <1>5 DEF SeenIsJudged

\* Between packets, what was seen stays as it was judged.
LEMMA OtherwiseJudged ==
  SeenIsJudged /\ (Forget \/ Apply \/ Remove \/ UNCHANGED vars) => SeenIsJudged'
  BY DEF SeenIsJudged, Contained, Carried, TorIsNotAProxy, NothingForwardedIn,
     OthersUntouched, Forget, Apply, Remove, vars, SubnetAddr, LocalAddr, TorPort

\* IInv is an invariant of the specification.
THEOREM Invariance == Spec => []IInv
<1>1. Init => IInv
  <2>1. Init => TypeOK
    <3>1. Nowhere \in [way : {"none", "original", "reply"}, rules : BOOLEAN,
                      track : {"none", "plain", "redirected"}]
      BY DEF Nowhere
    <3> SUFFICES ASSUME Init PROVE TypeOK
      OBVIOUS
    <3>2. rules \in BOOLEAN /\ track = "none"
      BY DEF Init
    <3> QED
      BY <3>1, <3>2 DEF Init, TypeOK
  <2>2. Init => SeenIsJudged
    BY DEF Init, Nowhere, SeenIsJudged, Contained, Carried, TorIsNotAProxy,
       NothingForwardedIn, OthersUntouched, SubnetAddr, LocalAddr, TorPort
  <2> QED
    BY <2>1, <2>2 DEF IInv
<1>2. IInv /\ [Next]_vars => IInv'
  BY TypeStep, SendIsJudged, AnswerIsJudged, OtherwiseJudged DEF IInv, Next
<1> QED
  BY <1>1, <1>2, PTL DEF Spec

\* Types are kept, and only the tunnel's flows are ever redirected.
THEOREM TypeCorrect == Spec => []TypeOK
  BY Invariance, PTL DEF IInv

\* Under the table the namespace reaches tor, or nothing new.
THEOREM NamespaceContained == Spec => []Contained
  BY Invariance, PTL DEF IInv, SeenIsJudged

\* What tor can carry, it gets.
THEOREM NamespaceCarried == Spec => []Carried
  BY Invariance, PTL DEF IInv, SeenIsJudged

\* Nobody but the namespace reaches tor's ports.
THEOREM TorIsClosed == Spec => []TorIsNotAProxy
  BY Invariance, PTL DEF IInv, SeenIsJudged

\* Nothing is forwarded into the namespace, nor back out of it.
THEOREM NoWayIn == Spec => []NothingForwardedIn
  BY Invariance, PTL DEF IInv, SeenIsJudged

\* The machine's other traffic goes its way.
THEOREM OthersGoTheirWay == Spec => []OthersUntouched
  BY Invariance, PTL DEF IInv, SeenIsJudged
=============================================================================
