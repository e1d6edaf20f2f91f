-------------------------- MODULE TorInstanceProof --------------------------
(***************************************************************************)
(* Proofs about TorInstance, for any set of process ids: what stop()       *)
(* leaves, whom it hurts, and that start() and stop() implement the life   *)
(* of tor that Tunnel takes for granted.                                   *)
(***************************************************************************)
EXTENDS TorInstance, TLAPS

\* There is one tor of tort's at most, a dying one included.
OneTor == \A p, q \in Ours : p = q

\* A tor that boots writes to the log there is, which has not said of this tor that it
\* is done.
LogIsItsOwn ==
  /\ \A p \in Pids : proc[p] = "boot" => logger = p /\ log # "done"
  /\ pc = "launch" => log # "done"

\* Where the log is removed, a tor launched or the pidfile removed, the last tor is
\* dead or dying; where SIGKILL is sent, a tor still alive has it to come.
StoppedFirst ==
  /\ pc \in {"clear", "launch", "unpid"} => Alive = {}
  /\ pc = "kill" => Alive \subseteq list

\* stop() sees one tor at most. Once it has looked, no pid becomes tort's tor until it
\* returns, and one that it signalled as an heir is not tort's.
OnlyTheSeen ==
  /\ \A p, q \in seen : p = q
  /\ pc \in {"term", "poll", "kill", "unpid"} => Ours \subseteq seen /\ hurt \cap Ours = {}

\* Whom it is about to signal: at first those it saw and the bearer of the pidfile's
\* pid, at last those it saw that had not changed hands at the first signal.
Listed ==
  /\ pc = "term" => list \subseteq seen \cup {stale} /\ slain = {}
  /\ pc = "kill" => list \subseteq seen \ hurt

IInv ==
  /\ TypeOK
  /\ OneTor
  /\ LogIsItsOwn
  /\ StoppedFirst
  /\ OnlyTheSeen
  /\ Listed
  /\ NoTorLeft
  /\ OnlyAnHeirIsHurt

-----------------------------------------------------------------------------
\* Every step keeps the types.
LEMMA TypeStep == TypeOK /\ [Next]_vars => TypeOK'
<1> SUFFICES ASSUME TypeOK, [Next]_vars
             PROVE  TypeOK'
  OBVIOUS
<1> USE DEF TypeOK, Kinds, files, memory, past
<1>1. CASE BeginStart \/ BeginStop \/ OperatorDies
  BY <1>1 DEF BeginStart, BeginStop, OperatorDies
<1>2. CASE ClearLog \/ CheckTor \/ WaitBootstrap
  BY <1>2 DEF ClearLog, Left, CheckTor, WaitBootstrap, Fail
<1>3. CASE Launch
  BY <1>3 DEF Launch, Fail
<1>4. CASE Look
  BY <1>4 DEF Look, Ours
<1>5. CASE Term \/ Poll \/ RemovePidfile
  BY <1>5 DEF Term, Poll, RemovePidfile, Bystanders, Ours
<1>6. CASE Kill
  BY <1>6 DEF Kill, Alive, Bystanders
<1>7. ASSUME NEW p \in Pids, TorBoots(p) \/ TorErrs(p)  PROVE TypeOK'
  BY <1>7 DEF TorBoots, TorErrs, Becomes
<1>8. ASSUME NEW p \in Pids, TorEnds(p)  PROVE TypeOK'
  BY <1>8 DEF TorEnds, Becomes, Ours
<1>9. ASSUME NEW p \in Pids, OtherStarts(p) \/ OtherEnds(p)  PROVE TypeOK'
  BY <1>9 DEF OtherStarts, OtherEnds, Becomes
<1>10. CASE UNCHANGED vars
  BY <1>10 DEF vars
<1> QED
  BY <1>1, <1>2, <1>3, <1>4, <1>5, <1>6, <1>7, <1>8, <1>9, <1>10
  DEF Next, Operate, Outside

\* A tor is launched beside none, and under a log that has not said done of it.
LEMMA TorStep ==
  TypeOK /\ OneTor /\ LogIsItsOwn /\ StoppedFirst /\ [Next]_vars
    => OneTor' /\ LogIsItsOwn' /\ StoppedFirst'
<1> SUFFICES ASSUME TypeOK, OneTor, LogIsItsOwn, StoppedFirst, [Next]_vars
             PROVE  OneTor' /\ LogIsItsOwn' /\ StoppedFirst'
  OBVIOUS
<1> USE DEF TypeOK, Kinds, OneTor, LogIsItsOwn, StoppedFirst, Ours, Alive, files,
     memory, past
<1>1. CASE BeginStart \/ BeginStop \/ OperatorDies
  BY <1>1 DEF BeginStart, BeginStop, OperatorDies
<1>2. CASE ClearLog \/ CheckTor \/ WaitBootstrap
  BY <1>2 DEF ClearLog, Left, CheckTor, WaitBootstrap, Fail
<1>3. CASE Launch
  BY <1>3 DEF Launch, Fail
<1>4. CASE Look
  BY <1>4 DEF Look
<1>5. CASE Term \/ Poll \/ RemovePidfile
  BY <1>5 DEF Term, Poll, RemovePidfile
<1>6. CASE Kill
  BY <1>6 DEF Kill
<1>7. ASSUME NEW p \in Pids, TorBoots(p) \/ TorErrs(p)
      PROVE  OneTor' /\ LogIsItsOwn' /\ StoppedFirst'
  BY <1>7 DEF TorBoots, TorErrs, Becomes
<1>8. ASSUME NEW p \in Pids, TorEnds(p)
      PROVE  OneTor' /\ LogIsItsOwn' /\ StoppedFirst'
  BY <1>8 DEF TorEnds, Becomes
<1>9. ASSUME NEW p \in Pids, OtherStarts(p) \/ OtherEnds(p)
      PROVE  OneTor' /\ LogIsItsOwn' /\ StoppedFirst'
  BY <1>9 DEF OtherStarts, OtherEnds, Becomes
<1>10. CASE UNCHANGED vars
  BY <1>10 DEF vars
<1> QED
  BY <1>1, <1>2, <1>3, <1>4, <1>5, <1>6, <1>7, <1>8, <1>9, <1>10
  DEF Next, Operate, Outside

\* A stop() that ends has left no tor alive.
LEMMA StopStep ==
  TypeOK /\ StoppedFirst /\ NoTorLeft /\ [Next]_vars => NoTorLeft'
<1> SUFFICES ASSUME TypeOK, StoppedFirst, NoTorLeft, [Next]_vars
             PROVE  NoTorLeft'
  OBVIOUS
<1> USE DEF TypeOK, Kinds, StoppedFirst, NoTorLeft, Alive, files, memory, past
<1>1. CASE BeginStart \/ BeginStop \/ OperatorDies
  BY <1>1 DEF BeginStart, BeginStop, OperatorDies
<1>2. CASE ClearLog \/ CheckTor \/ WaitBootstrap
  BY <1>2 DEF ClearLog, Left, CheckTor, WaitBootstrap, Fail
<1>3. CASE Launch
  BY <1>3 DEF Launch, Fail
<1>4. CASE Look \/ Term \/ Poll \/ RemovePidfile
  BY <1>4 DEF Look, Term, Poll, RemovePidfile
<1>5. CASE Kill
  BY <1>5 DEF Kill
<1>6. ASSUME NEW p \in Pids, TorBoots(p) \/ TorErrs(p)  PROVE NoTorLeft'
  BY <1>6 DEF TorBoots, TorErrs, Becomes
<1>7. ASSUME NEW p \in Pids, TorEnds(p)  PROVE NoTorLeft'
  BY <1>7 DEF TorEnds, Becomes
<1>8. ASSUME NEW p \in Pids, OtherStarts(p) \/ OtherEnds(p)  PROVE NoTorLeft'
  BY <1>8 DEF OtherStarts, OtherEnds, Becomes
<1>9. CASE UNCHANGED vars
  BY <1>9 DEF vars
<1> QED
  BY <1>1, <1>2, <1>3, <1>4, <1>5, <1>6, <1>7, <1>8, <1>9 DEF Next, Operate, Outside

\* Of a pid that nobody launches a tor under, what it was says what it may be.
LEMMA PidsStep ==
  ASSUME TypeOK, [Next]_vars, pc \in {"term", "poll", "kill", "unpid"}
  PROVE  Ours' \subseteq Ours
<1> USE DEF TypeOK, Kinds, Ours, files, memory, past
<1>1. CASE BeginStart \/ BeginStop \/ OperatorDies \/ ClearLog \/ CheckTor
           \/ WaitBootstrap \/ Launch \/ Look \/ UNCHANGED vars
  BY <1>1 DEF BeginStart, BeginStop, OperatorDies, ClearLog, CheckTor, WaitBootstrap,
     Launch, Look, vars
<1>2. CASE Term \/ Poll \/ RemovePidfile
  BY <1>2 DEF Term, Poll, RemovePidfile
<1>3. CASE Kill
  BY <1>3 DEF Kill, Alive
<1>4. ASSUME NEW p \in Pids, TorBoots(p) \/ TorErrs(p)  PROVE Ours' \subseteq Ours
  BY <1>4 DEF TorBoots, TorErrs, Becomes
<1>5. ASSUME NEW p \in Pids, TorEnds(p)  PROVE Ours' \subseteq Ours
  BY <1>5 DEF TorEnds, Becomes
<1>6. ASSUME NEW p \in Pids, OtherStarts(p) \/ OtherEnds(p)  PROVE Ours' \subseteq Ours
  BY <1>6 DEF OtherStarts, OtherEnds, Becomes
<1> QED
  BY <1>1, <1>2, <1>3, <1>4, <1>5, <1>6 DEF Next, Operate, Outside

\* A stop() signals those it saw and the bearer of the pidfile's pid; who was an heir at
\* the first signal is not scanned again.
LEMMA HurtStep ==
  TypeOK /\ OneTor /\ OnlyTheSeen /\ Listed /\ OnlyAnHeirIsHurt /\ [Next]_vars
    => OnlyTheSeen' /\ Listed' /\ OnlyAnHeirIsHurt'
<1> SUFFICES ASSUME TypeOK, OneTor, OnlyTheSeen, Listed, OnlyAnHeirIsHurt, [Next]_vars
             PROVE  OnlyTheSeen' /\ Listed' /\ OnlyAnHeirIsHurt'
  OBVIOUS
<1> USE DEF files, memory, past
<1>1. CASE BeginStart \/ BeginStop \/ OperatorDies \/ RemovePidfile
  BY <1>1 DEF BeginStart, BeginStop, OperatorDies, RemovePidfile, TypeOK, OnlyTheSeen,
     Listed, OnlyAnHeirIsHurt
<1>2. CASE ClearLog \/ CheckTor \/ WaitBootstrap
  BY <1>2 DEF ClearLog, Left, CheckTor, WaitBootstrap, Fail, OnlyTheSeen, Listed,
     OnlyAnHeirIsHurt
<1>3. CASE Launch
  BY <1>3 DEF Launch, Fail, OnlyTheSeen, Listed, OnlyAnHeirIsHurt
<1>4. CASE Look
  <2>1. Ours' = Ours
    BY <1>4 DEF Look, Ours
  <2> QED
    BY <1>4, <2>1 DEF Look, OneTor, OnlyTheSeen, Listed, OnlyAnHeirIsHurt
<1>5. CASE Term
  <2>1. PICK p \in list : list' = list \ {p} /\ hurt' = hurt \cup Bystanders(p)
    BY <1>5 DEF Term
  <2>2. Ours' = Ours /\ Bystanders(p) \cap Ours = {} /\ Bystanders(p) \subseteq {p}
    BY <1>5 DEF Term, Ours, Bystanders
  <2>3. p = stale \/ p \in seen
    BY <1>5, <2>1 DEF Term, Listed
  <2>4. OnlyTheSeen' /\ Listed'
    BY <1>5, <2>1, <2>2 DEF Term, OnlyTheSeen, Listed
  <2>5. slain = {} /\ slain' = {} /\ seen' = seen /\ stale' = stale
    BY <1>5 DEF Term, Listed
  <2>6. \A q \in hurt' : q = stale \/ seen = {q}
    BY <2>1, <2>2, <2>3 DEF OnlyTheSeen, OnlyAnHeirIsHurt
  <2> QED
    BY <2>4, <2>5, <2>6 DEF OnlyAnHeirIsHurt
<1>6. CASE Poll
  <2>1. Ours' = Ours
    BY <1>6 DEF Poll, Ours
  <2>2. Ours \subseteq seen \ hurt
    BY <1>6 DEF Poll, OnlyTheSeen
  <2> QED
    BY <1>6, <2>1, <2>2 DEF Poll, OnlyTheSeen, Listed, OnlyAnHeirIsHurt
<1>7. CASE Kill
  <2>1. PICK p \in list : list' = list \ {p} /\ slain' = slain \cup Bystanders(p)
    BY <1>7 DEF Kill
  <2>2. Ours' \subseteq Ours /\ Bystanders(p) \subseteq {p}
    BY <1>7, PidsStep DEF Kill, Bystanders
  <2>3. p \in seen \ hurt
    BY <1>7, <2>1 DEF Kill, Listed
  <2>4. OnlyTheSeen' /\ Listed'
    BY <1>7, <2>1, <2>2 DEF Kill, OnlyTheSeen, Listed
  <2>5. seen' = seen /\ stale' = stale /\ hurt' = hurt
    BY <1>7 DEF Kill
  <2>6. \A q \in slain' : q = stale \/ seen = {q}
    BY <2>1, <2>2, <2>3 DEF OnlyTheSeen, OnlyAnHeirIsHurt
  <2> QED
    BY <2>1, <2>2, <2>3, <2>4, <2>5, <2>6 DEF OnlyAnHeirIsHurt
<1>8. ASSUME NEW p \in Pids,
             \/ TorBoots(p) \/ TorErrs(p) \/ TorEnds(p)
             \/ OtherStarts(p) \/ OtherEnds(p)
      PROVE  OnlyTheSeen' /\ Listed' /\ OnlyAnHeirIsHurt'
  <2>1. UNCHANGED <<pc, list, seen, stale, hurt, slain>>
    BY <1>8 DEF TorBoots, TorErrs, TorEnds, OtherStarts, OtherEnds
  <2>2. pc \in {"term", "poll", "kill", "unpid"} => Ours' \subseteq Ours
    BY PidsStep
  <2> QED
    BY <2>1, <2>2 DEF OnlyTheSeen, Listed, OnlyAnHeirIsHurt
<1>9. CASE UNCHANGED vars
  BY <1>9 DEF vars, Ours, OnlyTheSeen, Listed, OnlyAnHeirIsHurt
<1> QED
  BY <1>1, <1>2, <1>3, <1>4, <1>5, <1>6, <1>7, <1>8, <1>9 DEF Next, Operate, Outside

\* IInv is an invariant of the specification.
THEOREM Invariance == Spec => []IInv
<1>1. Init => IInv
  BY DEF Init, IInv, TypeOK, Kinds, OneTor, LogIsItsOwn, StoppedFirst, OnlyTheSeen,
     Listed, NoTorLeft, OnlyAnHeirIsHurt, Ours, Alive
<1>2. IInv /\ [Next]_vars => IInv'
  BY TypeStep, TorStep, StopStep, HurtStep DEF IInv
<1> QED
  BY <1>1, <1>2, PTL DEF Spec

\* Types are kept, whatever pids become.
THEOREM TypeCorrect == Spec => []TypeOK
  BY Invariance, PTL DEF IInv

\* A stop() that has come to its end has left no tor of tort's that is not dying.
THEOREM StopIsStop == Spec => []NoTorLeft
  BY Invariance, PTL DEF IInv

\* Of those that are not tort's tor, stop() signals the bearer of the pidfile's pid and
\* the heir of the tor it saw, and nobody else; none of them twice.
THEOREM OnlyHeirsAreHurt == Spec => []OnlyAnHeirIsHurt
  BY Invariance, PTL DEF IInv

-----------------------------------------------------------------------------
(* The life of tor.                                                        *)

\* What the tunnel sees of tor is the state of whichever process is tort's.
LEMMA TheOne ==
  ASSUME TypeOK, OneTor, NEW p \in Ours
  PROVE  TheTor = proc[p] /\ \A q \in Pids : q # p => proc[q] \in {"free", "other"}
  BY DEF TypeOK, Kinds, OneTor, Ours, TheTor

\* And when no process is, it sees none.
LEMMA TheNone == ASSUME Ours = {} PROVE TheTor = "none"
  BY DEF Ours, TheTor

\* Every step of operator, tor and others is one of the life of tor, or unseen.
LEMMA LifeStep ==
  IInv /\ IInv' /\ [Next]_vars => [Life!LifeNext]_(Life!life)
<1> SUFFICES ASSUME IInv, IInv', [Next]_vars
             PROVE  [Life!LifeNext]_(Life!life)
  OBVIOUS
<1> USE DEF Life!LifeNext, Life!life, files, memory, past
<1>1. CASE BeginStart \/ BeginStop \/ OperatorDies \/ CheckTor \/ WaitBootstrap \/ Look
           \/ Term \/ Poll \/ RemovePidfile \/ UNCHANGED vars
  <2>1. UNCHANGED <<proc, log>>
    BY <1>1 DEF BeginStart, BeginStop, OperatorDies, CheckTor, WaitBootstrap, Look,
       Term, Poll, RemovePidfile, vars
  <2> QED
    BY <2>1 DEF TheTor
<1>2. CASE ClearLog
  <2>1. TheTor \in {"none", "killed"} /\ UNCHANGED proc
    BY <1>2 DEF ClearLog, IInv, StoppedFirst, Alive, TheTor
  <2>2. UNCHANGED TheTor
    BY <2>1 DEF TheTor
  <2> QED
    BY <1>2, <2>1, <2>2 DEF ClearLog, Left, Life!ClearLog, Life!Left
<1>3. CASE Launch
  <2>1. CASE UNCHANGED <<proc, log>>
    BY <2>1 DEF TheTor
  <2>2. CASE Ours = {} /\ \E p \in Pids : proc' = [proc EXCEPT ![p] = "boot"]
    <3>1. TheTor = "none"
      BY <2>2, TheNone
    <3>2. PICK p \in Pids : p \in Ours' /\ proc'[p] = "boot"
      BY <2>2 DEF IInv, TypeOK, Ours
    <3>3. TheTor' = "boot"
      BY <3>2 DEF IInv, TypeOK, Kinds, OneTor, Ours, TheTor
    <3>4. log' = log /\ log # "done"
      BY <1>3 DEF Launch, IInv, LogIsItsOwn
    <3> QED
      BY <3>1, <3>3, <3>4 DEF Life!Launch, Life!Left
  <2> QED
    BY <1>3, <2>1, <2>2 DEF Launch
<1>4. CASE Kill
  <2>1. CASE UNCHANGED proc
    BY <1>4, <2>1 DEF Kill, TheTor
  <2>2. ASSUME NEW p \in Alive, proc' = [proc EXCEPT ![p] = "killed"]
        PROVE  Life!Killed
    <3>1. p \in Ours /\ proc[p] \in {"boot", "ready"}
      BY DEF Alive, Ours
    <3>2. TheTor = proc[p] /\ \A q \in Pids : q # p => proc[q] \in {"free", "other"}
      BY <3>1, TheOne DEF IInv
    <3>3. TheTor' = "killed"
      BY <2>2, <3>1, <3>2 DEF Alive, TheTor, IInv, TypeOK
    <3> QED
      BY <1>4, <3>1, <3>2, <3>3 DEF Kill, Life!Killed
  <2> QED
    BY <1>4, <2>1, <2>2 DEF Kill
<1>5. ASSUME NEW p \in Pids, TorBoots(p)  PROVE [Life!LifeNext]_(Life!life)
  <2>1. TheTor = "boot" /\ log' = "done"
    <3>1. proc[p] = "boot" /\ logger = p
      BY <1>5 DEF TorBoots, IInv, LogIsItsOwn
    <3>2. TheTor = "boot"
      BY <3>1, TheOne DEF IInv, Ours
    <3> QED
      BY <1>5, <3>1, <3>2 DEF TorBoots
  <2>2. p \in Ours' /\ proc'[p] = "ready"
    BY <1>5 DEF TorBoots, Becomes, Ours, IInv, TypeOK
  <2>3. TheTor' = "ready"
    BY <2>2 DEF IInv, TypeOK, Kinds, OneTor, Ours, TheTor
  <2> QED
    BY <2>1, <2>3 DEF Life!Boots
<1>6. ASSUME NEW p \in Pids, TorErrs(p)  PROVE [Life!LifeNext]_(Life!life)
  <2>1. TheTor = "boot" /\ log' = (IF log # "old" THEN "err" ELSE log) /\ proc' = proc
    <3>1. proc[p] = "boot" /\ logger = p
      BY <1>6 DEF TorErrs, IInv, LogIsItsOwn
    <3>2. TheTor = "boot"
      BY <3>1, TheOne DEF IInv, Ours
    <3> QED
      BY <1>6, <3>1, <3>2 DEF TorErrs
  <2>2. TheTor' = TheTor
    BY <2>1 DEF TheTor
  <2> QED
    BY <2>1, <2>2 DEF Life!Errs
<1>7. ASSUME NEW p \in Pids, TorEnds(p)  PROVE [Life!LifeNext]_(Life!life)
  <2>1. \A q \in Pids : q # p => proc[q] \in {"free", "other"}
    BY <1>7, TheOne DEF TorEnds, IInv
  <2>2. Ours' = {}
    BY <1>7, <2>1 DEF TorEnds, Becomes, Ours, IInv, TypeOK
  <2>3. TheTor' = "none"
    BY <2>2 DEF Ours, TheTor
  <2> QED
    BY <1>7, <2>3 DEF TorEnds, Life!Ends
<1>8. ASSUME NEW p \in Pids, OtherStarts(p) \/ OtherEnds(p)
      PROVE  [Life!LifeNext]_(Life!life)
  <2>1. \A q \in Pids, k \in {"boot", "ready", "killed"} : proc'[q] = k <=> proc[q] = k
    BY <1>8 DEF OtherStarts, OtherEnds, Becomes, IInv, TypeOK
  <2>2. UNCHANGED TheTor
    BY <2>1 DEF TheTor
  <2> QED
    BY <1>8, <2>2 DEF OtherStarts, OtherEnds
<1> QED
  BY <1>1, <1>2, <1>3, <1>4, <1>5, <1>6, <1>7, <1>8 DEF Next, Operate, Outside

\* start() and stop() keep the life of tor that the tunnel takes for granted.
THEOREM LifeImplemented == Spec => LifeSpec
<1>1. Init => Life!LifeInit
  BY DEF Init, Life!LifeInit, TheTor
<1> QED
  BY <1>1, LifeStep, Invariance, PTL DEF Spec, LifeSpec, Life!LifeSpec
=============================================================================
