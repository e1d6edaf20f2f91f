----------------------------- MODULE DaemonProof -----------------------------
(***************************************************************************)
(* Proofs about Daemon, for any set of clients and any number of deaths:   *)
(* the types, and that whoever started a program is answered by its end    *)
(* and by nothing before.                                                  *)
(***************************************************************************)
EXTENDS Daemon, TLAPS

Connected == {"mute", "sent", "gone"}

\* Whoever waits in the backlog, or is being served, has a connection; whoever is
\* asked about, or worked for, has said what it wants, and has leave for it.
Placed ==
  /\ backlog \in Seq(Clients)
  /\ \A i \in DOMAIN backlog : at[backlog[i]] \in Connected
  /\ cur = Nobody <=> pc \in {"dead", "accept"}
  /\ cur # Nobody => at[cur] \in Connected
  /\ pc \in {"ask", "prompt", "work"} => at[cur] # "mute"
  /\ pc = "work" /\ NeedsLeave(req[cur]) => cur \in granted

IInv == TypeOK /\ Placed /\ HeardAtTheEnd

-----------------------------------------------------------------------------
\* Closing a connection concerns its client alone.
LEMMA CloseIsLocal ==
  ASSUME TypeOK, NEW c \in Clients, NEW how \in {"told", "cut"}, Close(c, how)
  PROVE  /\ at' \in [Clients -> {"off", "mute", "sent", "gone", "told", "cut"}]
         /\ req' \in [Clients -> Requests \cup {NoReq}]
         /\ frozen' \subseteq Clients /\ granted' \subseteq Clients
         /\ \A d \in Clients \ {c} : /\ at'[d] = at[d] /\ req'[d] = req[d]
                                     /\ d \in granted' <=> d \in granted
<1>1. at' \in [Clients -> {"off", "mute", "sent", "gone", "told", "cut"}]
  BY DEF TypeOK, Close
<1>2. req' \in [Clients -> Requests \cup {NoReq}]
  BY DEF TypeOK, Close
<1>3. frozen' \subseteq Clients /\ granted' \subseteq Clients
  BY DEF TypeOK, Close
<1>4. \A d \in Clients \ {c} : at'[d] = at[d] /\ req'[d] = req[d]
  BY DEF TypeOK, Close
<1>5. \A d \in Clients \ {c} : d \in granted' <=> d \in granted
  BY DEF Close
<1> QED
  BY <1>1, <1>2, <1>3, <1>4, <1>5

\* Answering the client that is being served, and going back to the socket,
\* keeps the invariant, if what was done for it started no program.
LEMMA ServedKeeps ==
  ASSUME IInv, NEW how \in {"told", "cut"}, pc \in {"read", "ask", "prompt", "work"}, Served(how),
         backlog' = backlog, up' \in BOOLEAN, crashes' = crashes,
         prog' \in [Clients -> {"none", "running", "ended"}],
         \A d \in Clients : prog'[d] # "none" => prog[d] # "none"
  PROVE  IInv'
<1>1. cur \in Clients
  BY DEF IInv, TypeOK, Placed
<1>2. Close(cur, how) /\ pc' = "accept" /\ cur' = Nobody
  BY DEF Served
<1>3. /\ at' \in [Clients -> {"off", "mute", "sent", "gone", "told", "cut"}]
      /\ req' \in [Clients -> Requests \cup {NoReq}]
      /\ frozen' \subseteq Clients /\ granted' \subseteq Clients
      /\ \A d \in Clients \ {cur} : /\ at'[d] = at[d] /\ req'[d] = req[d]
                                    /\ d \in granted' <=> d \in granted
  BY <1>1, <1>2, CloseIsLocal DEF IInv
<1>4. TypeOK'
  BY <1>2, <1>3, ClientsAssumption DEF IInv, TypeOK
<1>5. Placed'
  BY <1>2, <1>3 DEF IInv, TypeOK, Placed
<1>6. HeardAtTheEnd'
  BY <1>2, <1>3, ClientsAssumption DEF IInv, HeardAtTheEnd
<1> QED
  BY <1>4, <1>5, <1>6 DEF IInv

-----------------------------------------------------------------------------
(* The steps of the accept loop.                                           *)

LEMMA AcceptKeeps == IInv /\ Accept => IInv'
<1> SUFFICES ASSUME IInv, Accept
             PROVE  IInv'
  OBVIOUS
<1> USE DEF IInv, Accept
<1>1. /\ backlog \in Seq(Clients) /\ backlog # <<>> /\ backlog' = Tail(backlog)
      /\ cur' = backlog[1] /\ cur' \in Clients /\ pc' = "read"
  BY DEF Placed
<1>2. \A i \in DOMAIN backlog' : i + 1 \in DOMAIN backlog /\ backlog'[i] = backlog[i + 1]
  BY <1>1
<1>3. UNCHANGED <<at, req, up, prog, frozen, granted, crashes>>
  BY DEF conn
<1>4. DOMAIN backlog' \subseteq Nat \ {0} /\ 1 \in DOMAIN backlog
  BY <1>1
<1>5. \A i \in DOMAIN backlog' : backlog'[i] \in Clients \ {cur'}
  <2> SUFFICES ASSUME NEW i \in DOMAIN backlog'
               PROVE  backlog'[i] \in Clients \ {cur'}
    OBVIOUS
  <2>1. i + 1 # 1
    BY <1>4
  <2> QED
    BY <1>1, <1>2, <1>4, <2>1 DEF TypeOK
<1>6. \A i, j \in DOMAIN backlog' : backlog'[i] = backlog'[j] => i = j
  <2> SUFFICES ASSUME NEW i \in DOMAIN backlog', NEW j \in DOMAIN backlog', backlog'[i] = backlog'[j]
               PROVE  i = j
    OBVIOUS
  <2>1. i + 1 = j + 1
    BY <1>2 DEF TypeOK
  <2> QED
    BY <1>4, <2>1
<1>7. TypeOK'
  BY <1>1, <1>3, <1>5, <1>6 DEF TypeOK
<1>8. Placed'
  BY <1>1, <1>2, <1>3, <1>4, ClientsAssumption DEF TypeOK, Placed
<1>9. HeardAtTheEnd'
  BY <1>1, <1>2, <1>3, <1>4 DEF HeardAtTheEnd
<1> QED
  BY <1>7, <1>8, <1>9

LEMMA ReadKeeps == IInv /\ Read => IInv'
<1> SUFFICES ASSUME IInv, Read
             PROVE  IInv'
  OBVIOUS
<1>1. cur \in Clients
  BY DEF IInv, TypeOK, Placed, Read
<1>2. CASE req[cur].whole
  <2>1. /\ UNCHANGED <<at, req, cur, frozen, granted, backlog, up, prog, crashes>>
        /\ pc' = IF NeedsLeave(req[cur]) THEN "ask" ELSE "work"
        /\ pc = "read" /\ at[cur] # "mute"
    BY <1>2 DEF Read, conn
  <2>2. TypeOK'
    BY <2>1 DEF IInv, TypeOK
  <2>3. Placed'
    BY <1>1, <2>1, ClientsAssumption DEF IInv, Placed, NeedsLeave
  <2>4. HeardAtTheEnd'
    BY <2>1 DEF IInv, HeardAtTheEnd
  <2> QED
    BY <2>2, <2>3, <2>4 DEF IInv
<1>3. CASE ~req[cur].whole
  BY <1>3, ServedKeeps DEF Read, IInv, TypeOK
<1> QED
  BY <1>2, <1>3

LEMMA LeaveKeeps == IInv /\ (Ask \/ PersonAnswers) => IInv'
<1> SUFFICES ASSUME IInv, Ask \/ PersonAnswers
             PROVE  IInv'
  OBVIOUS
<1>1. cur \in Clients /\ pc \in {"ask", "prompt"} /\ UNCHANGED <<backlog, up, prog, crashes>>
  BY DEF IInv, TypeOK, Placed, Ask, PersonAnswers
<1>2. CASE Served("told") \/ Served("cut")
  BY <1>1, <1>2, ServedKeeps DEF IInv, TypeOK
<1>3. CASE pc' = "work" /\ granted' = granted \cup {cur} /\ UNCHANGED <<conn, cur, frozen>>
  <2>1. TypeOK'
    BY <1>1, <1>3 DEF IInv, TypeOK, conn
  <2>2. Placed'
    BY <1>1, <1>3, ClientsAssumption DEF IInv, Placed, conn, NeedsLeave
  <2>3. HeardAtTheEnd'
    BY <1>1, <1>3 DEF IInv, HeardAtTheEnd, conn
  <2> QED
    BY <2>1, <2>2, <2>3 DEF IInv
<1>4. CASE pc' = "prompt" /\ UNCHANGED <<conn, cur, frozen, granted>>
  <2>1. TypeOK'
    BY <1>1, <1>4 DEF IInv, TypeOK, conn
  <2>2. Placed'
    BY <1>1, <1>4, ClientsAssumption DEF IInv, Placed, conn, NeedsLeave
  <2>3. HeardAtTheEnd'
    BY <1>1, <1>4 DEF IInv, HeardAtTheEnd, conn
  <2> QED
    BY <2>1, <2>2, <2>3 DEF IInv
<1> QED
  BY <1>2, <1>3, <1>4 DEF Ask, PersonAnswers

\* The operations that answer before they let go of the connection.
LEMMA OperationKeeps == IInv /\ (Up \/ Down \/ Look) => IInv'
<1> SUFFICES ASSUME IInv, Up \/ Down \/ Look
             PROVE  IInv'
  OBVIOUS
<1>1. up' \in BOOLEAN
  BY DEF Up, Down, Look, IInv, TypeOK
<1>2. prog \in [Clients -> {"none", "running", "ended"}]
  BY DEF IInv, TypeOK
<1>3. CASE Up \/ Look
  BY <1>1, <1>2, <1>3, ServedKeeps DEF Up, Look
<1>4. CASE Down
  <2>1. PICK gone \in SUBSET {c \in Clients : prog[c] = "running"} :
          prog' = [c \in Clients |-> IF c \in gone THEN "ended" ELSE prog[c]]
    BY <1>4 DEF Down
  <2>2. /\ prog' \in [Clients -> {"none", "running", "ended"}]
        /\ \A d \in Clients : prog'[d] # "none" => prog[d] # "none"
    BY <1>2, <2>1
  <2> QED
    BY <1>1, <1>4, <2>2, ServedKeeps DEF Down
<1> QED
  BY <1>3, <1>4

\* `run` hands its connection over, leave given.
LEMMA RunKeeps == IInv /\ Run => IInv'
<1> SUFFICES ASSUME IInv, Run
             PROVE  IInv'
  OBVIOUS
<1>1. cur \in Clients /\ pc = "work" /\ UNCHANGED <<backlog, up, crashes>>
  BY DEF IInv, TypeOK, Placed, Run
<1>2. CASE Served("told") /\ UNCHANGED prog
  BY <1>1, <1>2, ServedKeeps DEF IInv, TypeOK
<1>3. CASE /\ prog' = [prog EXCEPT ![cur] = "running"] /\ pc' = "accept" /\ cur' = Nobody
           /\ UNCHANGED <<conn, frozen, granted>>
  <2>1. TypeOK'
    BY <1>1, <1>3, ClientsAssumption DEF IInv, TypeOK, conn
  <2>2. Placed'
    BY <1>1, <1>3 DEF IInv, Placed, conn
  <2>3. HeardAtTheEnd'
    <3>1. at[cur] \in {"sent", "gone"}
      BY <1>1, ClientsAssumption DEF IInv, Placed, Connected
    <3>2. req[cur].op = "run" /\ cur \in granted
      BY <1>1, ClientsAssumption DEF IInv, Placed, Run, NeedsLeave
    <3>3. \A i \in DOMAIN backlog : backlog[i] # cur
      BY DEF IInv, TypeOK
    <3>4. \A c \in Clients : c # cur => prog'[c] = prog[c]
      BY <1>3 DEF IInv, TypeOK
    <3> QED
      BY <1>1, <1>3, <3>1, <3>2, <3>3, <3>4, ClientsAssumption DEF IInv, HeardAtTheEnd, conn
  <2> QED
    BY <2>1, <2>2, <2>3 DEF IInv
<1> QED
  BY <1>2, <1>3 DEF Run

-----------------------------------------------------------------------------
(* The steps of the clients, of their programs and of the daemon's life.   *)

LEMMA ConnectKeeps == ASSUME IInv, NEW c \in Clients, Connect(c) PROVE IInv'
<1> USE DEF IInv, Connect
<1>1. c # cur /\ \A i \in DOMAIN backlog : backlog[i] # c
  BY ClientsAssumption DEF TypeOK, Placed, Connected
<1>2. backlog' = Append(backlog, c) /\ backlog \in Seq(Clients)
  BY DEF Placed
<1>3. /\ \A i \in DOMAIN backlog' : \/ i \in DOMAIN backlog /\ backlog'[i] = backlog[i]
                                    \/ i = Len(backlog) + 1 /\ backlog'[i] = c
      /\ backlog' \in Seq(Clients)
  BY <1>2
<1>4. \A i, j \in DOMAIN backlog' : backlog'[i] = backlog'[j] => i = j
  BY <1>1, <1>3 DEF TypeOK
<1>5. at' = [at EXCEPT ![c] = "mute"] /\ UNCHANGED <<pc, cur, req, up, prog, frozen, granted, crashes>>
  BY DEF loop
<1>6. TypeOK'
  BY <1>1, <1>3, <1>4, <1>5 DEF TypeOK
<1>7. Placed'
  BY <1>1, <1>3, <1>5 DEF TypeOK, Placed, Connected
<1>8. HeardAtTheEnd'
  BY <1>1, <1>3, <1>5 DEF TypeOK, HeardAtTheEnd
<1> QED
  BY <1>6, <1>7, <1>8

LEMMA ClientKeeps ==
  ASSUME IInv, NEW c \in Clients, Send(c) \/ Die(c) \/ Freeze(c) \/ Thaw(c)  PROVE IInv'
<1> USE DEF IInv
<1>1. UNCHANGED <<backlog, pc, cur, up, prog, granted, crashes>>
  BY DEF Send, Die, Freeze, Thaw, loop
<1>2. CASE Send(c)
  <2>1. PICK r \in Requests : req' = [req EXCEPT ![c] = r]
    BY <1>2 DEF Send
  <2>2. at[c] = "mute" /\ at' = [at EXCEPT ![c] = "sent"] /\ frozen' = frozen
    BY <1>2 DEF Send
  <2>3. TypeOK'
    BY <1>1, <2>1, <2>2 DEF TypeOK
  <2>4. Placed'
    <3>1. pc = "work" => cur # c
      BY <2>2 DEF Placed
    <3>2. pc = "work" => req'[cur] = req[cur]
      BY <2>1, <3>1 DEF TypeOK
    <3>3. \A d \in Clients : at'[d] = at[d] \/ at'[d] = "sent"
      BY <2>2 DEF TypeOK
    <3> QED
      BY <1>1, <3>2, <3>3 DEF TypeOK, Placed, Connected
  <2>5. HeardAtTheEnd'
    BY <1>1, <2>1, <2>2 DEF TypeOK, HeardAtTheEnd
  <2> QED
    BY <2>3, <2>4, <2>5
<1>3. CASE Die(c)
  <2>1. at[c] \in {"mute", "sent"} /\ at' = [at EXCEPT ![c] = "gone"] /\ UNCHANGED <<req, frozen>>
    BY <1>3 DEF Die
  <2>2. TypeOK'
    BY <1>1, <2>1 DEF TypeOK
  <2>3. \A d \in Clients : at'[d] = at[d] \/ at'[d] = "gone"
    BY <2>1 DEF TypeOK
  <2>4. Placed'
    BY <1>1, <2>1, <2>3 DEF TypeOK, Placed, Connected
  <2>5. HeardAtTheEnd'
    BY <1>1, <2>1, <2>3 DEF TypeOK, HeardAtTheEnd
  <2> QED
    BY <2>2, <2>4, <2>5
<1>4. CASE Freeze(c) \/ Thaw(c)
  <2>1. UNCHANGED <<at, req>> /\ frozen' \subseteq Clients
    BY <1>4 DEF Freeze, Thaw, conn, TypeOK
  <2> QED
    BY <1>1, <2>1 DEF TypeOK, Placed, HeardAtTheEnd
<1> QED
  BY <1>2, <1>3, <1>4

LEMMA ProgramEndsKeeps == ASSUME IInv, NEW c \in Clients, ProgramEnds(c) PROVE IInv'
<1> USE DEF IInv, ProgramEnds
<1>1. /\ prog[c] = "running" /\ prog' = [prog EXCEPT ![c] = "ended"]
      /\ UNCHANGED <<at, req, backlog, pc, cur, up, frozen, granted, crashes>>
  BY DEF conn, loop
<1>2. TypeOK'
  BY <1>1 DEF TypeOK
<1>3. Placed'
  BY <1>1 DEF Placed
<1>4. \A d \in Clients : prog'[d] # "none" => prog[d] # "none"
  BY <1>1 DEF TypeOK
<1>5. HeardAtTheEnd'
  BY <1>1, <1>4 DEF HeardAtTheEnd
<1> QED
  BY <1>2, <1>3, <1>5

\* The waiter answers a client that nobody else is dealing with.
LEMMA ReportKeeps == ASSUME IInv, NEW c \in Clients, Report(c) PROVE IInv'
<1> USE DEF IInv, Report
<1>1. /\ prog[c] = "ended" /\ prog' = [prog EXCEPT ![c] = "none"] /\ Close(c, "told")
      /\ UNCHANGED <<backlog, pc, cur, up, crashes>>
  BY DEF loop
<1>2. c # cur /\ \A i \in DOMAIN backlog : backlog[i] # c
  BY <1>1 DEF HeardAtTheEnd
<1>3. /\ at' \in [Clients -> {"off", "mute", "sent", "gone", "told", "cut"}]
      /\ req' \in [Clients -> Requests \cup {NoReq}]
      /\ frozen' \subseteq Clients /\ granted' \subseteq Clients
      /\ \A d \in Clients \ {c} : /\ at'[d] = at[d] /\ req'[d] = req[d]
                                  /\ d \in granted' <=> d \in granted
  BY <1>1, CloseIsLocal
<1>4. TypeOK'
  <2>1. prog' \in [Clients -> {"none", "running", "ended"}]
    BY <1>1 DEF TypeOK
  <2> HIDE DEF Report
  <2> QED
    BY <1>1, <1>3, <2>1 DEF TypeOK
<1>5. Placed'
  <2>1. /\ \A i \in DOMAIN backlog : at'[backlog[i]] = at[backlog[i]]
        /\ cur # Nobody => at'[cur] = at[cur] /\ req'[cur] = req[cur]
                           /\ (cur \in granted' <=> cur \in granted)
    BY <1>2, <1>3 DEF TypeOK
  <2> QED
    BY <1>1, <2>1 DEF Placed, NeedsLeave
<1>6. HeardAtTheEnd'
  <2>1. \A d \in Clients : prog'[d] # "none" => d # c /\ prog[d] # "none"
    BY <1>1 DEF TypeOK
  <2> QED
    BY <1>1, <1>3, <2>1 DEF HeardAtTheEnd
<1> QED
  BY <1>4, <1>5, <1>6

LEMMA LifeKeeps == IInv /\ (Crash \/ Restart) => IInv'
<1> SUFFICES ASSUME IInv, Crash \/ Restart
             PROVE  IInv'
  OBVIOUS
<1> USE DEF IInv
<1>1. CASE Crash
  <2>1. at' \in [Clients -> {"off", "mute", "sent", "gone", "told", "cut"}]
    BY <1>1 DEF Crash, TypeOK
  <2>2. /\ backlog' = <<>> /\ pc' = "dead" /\ cur' = Nobody
        /\ req' = [c \in Clients |-> NoReq] /\ prog' = [c \in Clients |-> "none"]
        /\ frozen' = {} /\ granted' = {}
    BY <1>1 DEF Crash
  <2>4. up' \in BOOLEAN
    BY <1>1 DEF Crash, TypeOK
  <2>5. crashes' \in Nat
    BY <1>1 DEF Crash, TypeOK
  <2>3. TypeOK'
    BY <2>1, <2>2, <2>4, <2>5 DEF TypeOK
  <2> QED
    BY <2>2, <2>3 DEF Placed, HeardAtTheEnd
<1>2. CASE Restart
  BY <1>2, ClientsAssumption DEF Restart, conn, TypeOK, Placed, HeardAtTheEnd
<1> QED
  BY <1>1, <1>2

-----------------------------------------------------------------------------
\* The strengthening is an invariant.
THEOREM Invariance == Spec => []IInv
<1>1. Init => IInv
  BY ClientsAssumption DEF Init, IInv, TypeOK, Placed, HeardAtTheEnd
<1>2. IInv /\ [Next]_vars => IInv'
  <2> SUFFICES ASSUME IInv, [Next]_vars
               PROVE  IInv'
    OBVIOUS
  <2>1. CASE UNCHANGED vars
    BY <2>1 DEF vars, conn, loop, IInv, TypeOK, Placed, HeardAtTheEnd
  <2>2. CASE Serve
    BY <2>2, AcceptKeeps, ReadKeeps, LeaveKeeps, OperationKeeps, RunKeeps, LifeKeeps DEF Serve
  <2>3. CASE Outside
    BY <2>3, LeaveKeeps, LifeKeeps, ConnectKeeps, ClientKeeps, ProgramEndsKeeps DEF Outside
  <2>4. ASSUME NEW c \in Clients, Report(c)  PROVE IInv'
    BY <2>4, ReportKeeps
  <2> QED
    BY <2>1, <2>2, <2>3, <2>4 DEF Next
<1> QED
  BY <1>1, <1>2, PTL DEF Spec

\* The types hold, and no connection waits in two places.
THEOREM TypeCorrect == Spec => []TypeOK
  BY Invariance, PTL DEF IInv

\* Whatever the clients, the people and the programs do, and whenever the daemon
\* dies, whoever started a program has leave for it, and is answered by its end
\* alone.
THEOREM RunIsHeardAtTheEnd == Spec => []HeardAtTheEnd
  BY Invariance, PTL DEF IInv
=============================================================================
