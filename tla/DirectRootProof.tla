--------------------------- MODULE DirectRootProof ---------------------------
(***************************************************************************)
(* Proofs about DirectRoot, for any number of operators: the types, what   *)
(* an undisturbed `tort down` takes away and what it leaves, and that an   *)
(* `up` that fails undoes its own, whoever else is at work.                *)
(***************************************************************************)
EXTENDS DirectRoot, TLAPS

Results == {"none", "refused", "up", "failed", "left", "down", "notDown"}

DownLabels == {"pids", "remove", "stop", "destroy", "after"}

\* What an undisturbed operator on its way down has cleared so far, and at its end; a
\* link on the host stays as it found it.
Downward(o) ==
  /\ \A r \in Operators \ {o} : pc[r] = "idle"
  /\ pc[o] \in DownLabels \cup {"idle"}
  /\ pc[o] # "idle" => op[o] # "up" /\ ~err[o] /\ (veth = "host" <=> spare[o])
  /\ pc[o] \in {"stop", "destroy", "after"} => ~rules
  /\ pc[o] \in {"destroy", "after"} => tor = "none"
  /\ pc[o] = "after" => ~Named
  /\ pc[o] = "idle" /\ said[o] \in {"down", "notDown"}
       => said[o] = "down" /\ Absent /\ veth = (IF spare[o] THEN "host" ELSE "none")

\* From the move of its link on, an `up` has none on the host; ...
Moved == {"conf", "orphan", "clear", "launch", "check", "wait", "apply", "verify",
          "failStop", "failDestroy"}

LinkInside(o) ==
  pc[o] \in Moved \/ (pc[o] \in DownLabels /\ op[o] = "up")
    => ~(veth = "host" /\ puller = o)

\* ... and what it has undone is not there again.
Undone(o) ==
  clean[o] =>
    /\ pc[o] # "idle" => op[o] = "up"
    /\ pc[o] = "rbLink" => ns # o
    /\ pc[o] = "after" => ns # o /\ puller # o
    /\ pc[o] = "idle" /\ said[o] = "failed" => ns # o /\ puller # o

Own(o) == LinkInside(o) /\ Undone(o)

IInv ==
  /\ TypeOK
  /\ \A o \in Operators : lone[o] => Downward(o)
  /\ \A o \in Operators : Own(o)

-----------------------------------------------------------------------------
(* Types.                                                                  *)

\* What an operator's step does to the operator's own variables is typed.
TaskOK ==
  /\ pc \in [Operators -> Labels] /\ err \in [Operators -> BOOLEAN]
  /\ op \in [Operators -> {"none", "up", "down", "cleanup"}]
  /\ lone \in [Operators -> BOOLEAN] /\ spare \in [Operators -> BOOLEAN]
  /\ clean \in [Operators -> BOOLEAN] /\ said \in [Operators -> Results]

KernelOK ==
  /\ ns \in Operators \cup {Nobody} /\ veth \in {"none", "host", "in"}
  /\ puller \in Operators \cup {Nobody} /\ rules \in BOOLEAN /\ linked \in BOOLEAN
  /\ tor \in {"none", "boot", "ready", "killed"} /\ log \in {"clear", "done", "err"}
  /\ veth = "in" => Named
  /\ veth = "none" <=> puller = Nobody

LEMMA GotoTypes ==
  ASSUME TaskOK, NEW o \in Operators, NEW l \in Labels, Goto(o, l)
  PROVE  pc' \in [Operators -> Labels]
  BY DEF TaskOK, Goto

LEMMA EndTypes ==
  ASSUME TaskOK, NEW o \in Operators, NEW r \in Results, End(o, r)
  PROVE  /\ pc' \in [Operators -> Labels] /\ said' \in [Operators -> Results]
         /\ op' \in [Operators -> {"none", "up", "down", "cleanup"}]
         /\ err' \in [Operators -> BOOLEAN]
<1>1. "idle" \in Labels
  BY DEF Labels
<1> QED
  BY <1>1 DEF TaskOK, End, Goto

\* A step of o in the middle: its label is one, and of the rest it may record an
\* error, and that a command has failed it.
LEMMA MiddleTypes ==
  ASSUME TaskOK, NEW o \in Operators, NEW l \in Labels, Goto(o, l), UNCHANGED <<op, said>>,
         UNCHANGED err \/ err' = [err EXCEPT ![o] = TRUE], UNCHANGED past \/ Missed(o)
  PROVE  TaskOK'
<1>1. /\ lone' \in [Operators -> BOOLEAN] /\ spare' \in [Operators -> BOOLEAN]
      /\ clean' \in [Operators -> BOOLEAN]
  BY DEF TaskOK, Missed, past
<1>2. err' \in [Operators -> BOOLEAN]
  BY DEF TaskOK
<1> QED
  BY <1>1, <1>2, GotoTypes DEF TaskOK

LEMMA LastTypes ==
  ASSUME TaskOK, NEW o \in Operators, NEW r \in Results, End(o, r), UNCHANGED past \/ Missed(o)
  PROVE  TaskOK'
<1>1. /\ lone' \in [Operators -> BOOLEAN] /\ spare' \in [Operators -> BOOLEAN]
      /\ clean' \in [Operators -> BOOLEAN]
  BY DEF TaskOK, Missed, past
<1> QED
  BY <1>1, EndTypes DEF TaskOK

LEMMA BeginTypes ==
  ASSUME TaskOK, NEW o \in Operators, NEW r \in {"up", "down", "cleanup"}, NEW l \in Labels,
         Begin(o, r, l)
  PROVE  TaskOK'
<1>1. pc' \in [Operators -> Labels]
  BY GotoTypes DEF Begin
<1>2. /\ lone' \in [Operators -> BOOLEAN] /\ spare' \in [Operators -> BOOLEAN]
      /\ clean' \in [Operators -> BOOLEAN]
  BY DEF TaskOK, Begin
<1>3. /\ op' \in [Operators -> {"none", "up", "down", "cleanup"}]
      /\ said' \in [Operators -> Results]
  BY DEF TaskOK, Begin, Results
<1>4. err' \in [Operators -> BOOLEAN]
  BY DEF TaskOK, Begin
<1> QED
  BY <1>1, <1>2, <1>3, <1>4 DEF TaskOK

\* The kernel's objects change only in these ways.
LEMMA KernelStep == KernelOK /\ [Next]_vars => KernelOK'
<1> SUFFICES ASSUME KernelOK, [Next]_vars
             PROVE  KernelOK'
  OBVIOUS
<1> USE OperatorsAssumption DEF KernelOK, Named, kernel, net, link, process
<1>1. CASE UNCHANGED kernel
  BY <1>1
<1>2. CASE TorBoots \/ TorErrs \/ TorDies
  BY <1>2 DEF TorBoots, TorErrs, TorDies
<1>3. ASSUME NEW o \in Operators,
             AddNs(o) \/ AddVeth(o) \/ MoveVeth(o) \/ RollbackNs(o) \/ RollbackLink(o)
               \/ FailDestroy(o)
      PROVE  KernelOK'
  BY <1>3 DEF AddNs, AddVeth, MoveVeth, RollbackNs, RollbackLink, FailDestroy, DeleteNs
<1>4. ASSUME NEW o \in Operators,
             ClearOrphan(o) \/ ClearLog(o) \/ Launch(o) \/ FailStop(o) \/ DownStopTor(o)
      PROVE  KernelOK'
  BY <1>4 DEF ClearOrphan, ClearLog, Launch, FailStop, DownStopTor, StopTor
<1>5. ASSUME NEW o \in Operators, ApplyRules(o) \/ RemoveRules(o) \/ DestroyNs(o)
      PROVE  KernelOK'
  BY <1>5 DEF ApplyRules, RemoveRules, DestroyNs, Step, DeleteNs
<1>6. ASSUME NEW o \in Operators,
             Exists(o) \/ Configure(o) \/ CheckTor(o) \/ WaitBootstrap(o) \/ Verify(o)
               \/ StopProcesses(o) \/ After(o) \/ Interrupt(o)
               \/ BeginUp(o) \/ BeginDown(o) \/ BeginCleanup(o)
      PROVE  UNCHANGED kernel
  BY <1>6 DEF Exists, Configure, CheckTor, WaitBootstrap, Verify, StopProcesses, After,
     Interrupt, BeginUp, BeginDown, BeginCleanup, Begin
<1>7. UNCHANGED vars => UNCHANGED kernel
  BY DEF vars
<1> QED
  BY <1>1, <1>2, <1>3, <1>4, <1>5, <1>6, <1>7 DEF Next, Work, UpStep, DownStep

\* What an operator does on its own behalf, whichever command it runs: it goes on
\* to the next, or ends.
LEMMA WorkShape ==
  ASSUME NEW o \in Operators, Work(o)
  PROVE  /\ pc[o] # "idle"
         /\ UNCHANGED past \/ Missed(o)
         /\ \/ /\ \E l \in Labels \ {"idle"} : Goto(o, l)
               /\ UNCHANGED <<op, said>>
               /\ UNCHANGED err \/ err' = [err EXCEPT ![o] = TRUE]
            \/ \E r \in Results : End(o, r)
<1> USE DEF task, Labels, Results
<1>1. CASE Exists(o)
  BY <1>1 DEF Exists, Done
<1>2. CASE AddNs(o) \/ AddVeth(o) \/ MoveVeth(o) \/ Configure(o)
  BY <1>2 DEF AddNs, AddVeth, MoveVeth, Configure, Done
<1>3. CASE RollbackNs(o) \/ RollbackLink(o) \/ FailDestroy(o)
  BY <1>3 DEF RollbackNs, RollbackLink, FailDestroy
<1>4. CASE ClearOrphan(o) \/ FailStop(o) \/ DownStopTor(o)
  BY <1>4 DEF ClearOrphan, FailStop, DownStopTor, StopTor
<1>5. CASE ClearLog(o) \/ Launch(o) \/ CheckTor(o) \/ WaitBootstrap(o) \/ ApplyRules(o)
  BY <1>5 DEF ClearLog, Launch, CheckTor, WaitBootstrap, ApplyRules, Done
<1>6. CASE Verify(o)
  BY <1>6 DEF Verify, Done
<1>7. CASE StopProcesses(o)
  BY <1>7 DEF StopProcesses, Done
<1>8. CASE RemoveRules(o) \/ DestroyNs(o)
  BY <1>8 DEF RemoveRules, DestroyNs, Step
<1>9. CASE After(o)
  BY <1>9 DEF After
<1> QED
  BY <1>1, <1>2, <1>3, <1>4, <1>5, <1>6, <1>7, <1>8, <1>9 DEF Work, UpStep, DownStep

LEMMA TaskStep == TaskOK /\ [Next]_vars => TaskOK'
<1> SUFFICES ASSUME TaskOK, [Next]_vars
             PROVE  TaskOK'
  OBVIOUS
<1>1. CASE UNCHANGED <<pc, task, said, past>>
  BY <1>1 DEF TaskOK, task, past
<1>2. ASSUME NEW o \in Operators, Work(o)  PROVE TaskOK'
  BY <1>2, WorkShape, MiddleTypes, LastTypes
<1>3. ASSUME NEW o \in Operators, BeginUp(o) \/ BeginDown(o) \/ BeginCleanup(o)
      PROVE  TaskOK'
  <2>1. "exists" \in Labels /\ "pids" \in Labels
    BY DEF Labels
  <2> QED
    BY <1>3, <2>1, BeginTypes DEF BeginUp, BeginDown, BeginCleanup
<1>4. ASSUME NEW o \in Operators, Interrupt(o)  PROVE TaskOK'
  <2>1. "none" \in Results
    BY DEF Results
  <2> QED
    BY <1>4, <2>1, LastTypes DEF Interrupt
<1>5. UNCHANGED vars \/ TorBoots \/ TorErrs \/ TorDies => UNCHANGED <<pc, task, said, past>>
  BY DEF vars, task, TorBoots, TorErrs, TorDies
<1> QED
  BY <1>1, <1>2, <1>3, <1>4, <1>5 DEF Next

LEMMA TypeStep == TypeOK /\ [Next]_vars => TypeOK'
<1>1. TypeOK => TaskOK /\ KernelOK
  BY DEF TypeOK, TaskOK, KernelOK, Results
<1>2. TaskOK' /\ KernelOK' => TypeOK'
  BY DEF TypeOK, TaskOK, KernelOK, Results
<1> QED
  BY <1>1, <1>2, TaskStep, KernelStep

-----------------------------------------------------------------------------
(* One operator at a time.                                                 *)

\* A step of down() by an operator that was undisturbed and still is.
LEMMA DownKnown ==
  ASSUME TypeOK, NEW o \in Operators, Downward(o), lone'[o], DownStep(o)
  PROVE  Downward(o)'
<1> USE DEF TypeOK, task, kernel, net, link, process, past, DownLabels, Missed, Goto
<1>1. CASE StopProcesses(o)
  BY <1>1 DEF StopProcesses, Done, Downward
<1>2. CASE RemoveRules(o)
  BY <1>2 DEF RemoveRules, Step, Downward
<1>3. CASE DownStopTor(o)
  BY <1>3 DEF DownStopTor, StopTor, Downward
<1>4. CASE DestroyNs(o)
  <2>1. /\ pc[o] = "destroy" /\ pc' = [pc EXCEPT ![o] = "after"] /\ DeleteNs
        /\ UNCHANGED <<rules, tor, op, err, said, spare>>
    BY <1>4 DEF DestroyNs, Step
  <2>2. ~Named' /\ (veth' = "host" <=> veth = "host")
    BY <2>1 DEF DeleteNs, Named
  <2> QED
    BY <2>1, <2>2 DEF Downward
<1>5. CASE After(o)
  <2>1. /\ pc[o] = "after" /\ ~err[o] /\ op[o] # "up" /\ Absent
        /\ veth = (IF spare[o] THEN "host" ELSE "none")
    BY <1>5 DEF After, Downward, Absent
  <2>2. UNCHANGED <<ns, veth, rules, tor, spare>>
    BY <1>5 DEF After
  <2>3. pc' = [pc EXCEPT ![o] = "idle"] /\ said' = [said EXCEPT ![o] = "down"]
    BY <1>5, <2>1 DEF After, End
  <2>4. Absent'
    BY <2>1, <2>2 DEF Absent, Named
  <2> QED
    BY <2>1, <2>2, <2>3, <2>4 DEF Downward
<1> QED
  BY <1>1, <1>2, <1>3, <1>4, <1>5 DEF DownStep

\* The commands of up() are none of down()'s.
LEMMA UpLabels ==
  ASSUME NEW o \in Operators, UpStep(o)
  PROVE  pc[o] \notin DownLabels \cup {"idle"}
<1> USE DEF DownLabels
<1>1. CASE Exists(o) \/ AddNs(o) \/ AddVeth(o) \/ MoveVeth(o) \/ Configure(o)
  BY <1>1 DEF Exists, AddNs, AddVeth, MoveVeth, Configure, Done
<1>2. CASE RollbackNs(o) \/ RollbackLink(o) \/ ClearOrphan(o) \/ ClearLog(o) \/ Launch(o)
  BY <1>2 DEF RollbackNs, RollbackLink, ClearOrphan, ClearLog, Launch, Done
<1>3. CASE CheckTor(o) \/ WaitBootstrap(o) \/ ApplyRules(o) \/ FailStop(o)
           \/ FailDestroy(o) \/ Verify(o)
  BY <1>3 DEF CheckTor, WaitBootstrap, ApplyRules, FailStop, FailDestroy, Verify, Done
<1> QED
  BY <1>1, <1>2, <1>3 DEF UpStep

\* An operator that begins, and is undisturbed, has nobody beside it.
LEMMA BeginKnown ==
  ASSUME TypeOK, NEW o \in Operators, NEW q \in Operators, lone'[o],
         BeginUp(q) \/ BeginDown(q) \/ BeginCleanup(q)
  PROVE  Downward(o)'
<1>1. PICK r \in {"down", "cleanup"} : Begin(q, r, "pids")
  <2>1. ~BeginUp(q)
    BY DEF BeginUp, Begin
  <2> QED
    BY <2>1 DEF BeginDown, BeginCleanup
<1>2. /\ o = q /\ o \in Watched /\ \A p \in Operators \ {o} : pc[p] = "idle"
      /\ spare'[o] = (veth = "host") /\ UNCHANGED veth
  BY <1>1 DEF Begin, kernel, net, link
<1>3. /\ pc'[o] = "pids" /\ \A p \in Operators \ {o} : pc'[p] = pc[p]
      /\ op'[o] = r /\ ~err'[o]
  BY <1>1, <1>2 DEF Begin, Goto, TypeOK
<1> QED
  BY <1>2, <1>3 DEF Downward, DownLabels

\* Nobody else is at work beside an undisturbed operator.
LEMMA LoneStep ==
  TypeOK /\ (\A o \in Operators : lone[o] => Downward(o)) /\ [Next]_vars
    => \A o \in Operators : lone'[o] => Downward(o)'
<1> SUFFICES ASSUME TypeOK, \A o \in Operators : lone[o] => Downward(o), [Next]_vars,
                    NEW o \in Operators, lone'[o]
             PROVE  Downward(o)'
  OBVIOUS
<1>1. CASE UNCHANGED vars
  <2>1. UNCHANGED <<ns, veth, rules, tor, pc, op, err, said, lone, spare>>
    BY <1>1 DEF vars, kernel, net, link, process, task, past
  <2> QED
    BY <2>1 DEF Downward, Absent, Named
<1>2. CASE TorBoots \/ TorErrs \/ TorDies
  <2>1. /\ UNCHANGED <<ns, veth, rules, pc, op, err, said, lone, spare>>
        /\ tor = "none" => tor' = "none"
    BY <1>2 DEF TorBoots, TorErrs, TorDies, net, link, task, past
  <2> QED
    BY <2>1 DEF Downward, Absent, Named
<1>3. ASSUME NEW q \in Operators, BeginUp(q) \/ BeginDown(q) \/ BeginCleanup(q)
      PROVE  Downward(o)'
  BY <1>3, BeginKnown
<1>4. ASSUME NEW q \in Operators, Work(q)
      PROVE  Downward(o)'
  <2>1. pc[q] # "idle" /\ lone[o]
    BY <1>4, WorkShape DEF Missed, TypeOK, past
  <2>2. q = o /\ Downward(o)
    BY <2>1 DEF Downward
  <2>3. DownStep(o)
    BY <1>4, <2>2, UpLabels DEF Work, Downward
  <2> QED
    BY <2>2, <2>3, DownKnown
<1>5. ASSUME NEW q \in Operators, Interrupt(q)
      PROVE  Downward(o)'
  <2>1. pc[q] # "idle" /\ lone[o] /\ q # o
    BY <1>5 DEF Interrupt, Missed, TypeOK
  <2> QED
    BY <2>1 DEF Downward
<1> QED
  BY <1>1, <1>2, <1>3, <1>4, <1>5 DEF Next

-----------------------------------------------------------------------------
(* An operator's own, among the others.                                    *)

\* What others do makes nothing the operator's own, and brings no link of its back
\* to the host.
LEMMA OthersNet ==
  ASSUME TypeOK, NEW o \in Operators, NEW q \in Operators \ {o}, Work(q)
  PROVE  /\ ns' = o => ns = o
         /\ puller' = o => puller = o
         /\ veth' = "host" /\ puller' = o => veth = "host"
<1> USE OperatorsAssumption DEF TypeOK, Named, kernel, net, link, process
<1>1. CASE AddNs(q) \/ AddVeth(q) \/ MoveVeth(q)
  BY <1>1 DEF AddNs, AddVeth, MoveVeth
<1>2. CASE RollbackNs(q) \/ RollbackLink(q) \/ FailDestroy(q) \/ DestroyNs(q)
  BY <1>2 DEF RollbackNs, RollbackLink, FailDestroy, DestroyNs, Step, DeleteNs
<1>3. CASE UNCHANGED <<ns, veth, puller>>
  BY <1>3
<1>4. Exists(q) \/ Configure(q) \/ ClearOrphan(q) \/ ClearLog(q) \/ Launch(q) \/ CheckTor(q)
        => UNCHANGED <<ns, veth, puller>>
  BY DEF Exists, Configure, ClearOrphan, ClearLog, Launch, CheckTor
<1>5. WaitBootstrap(q) \/ ApplyRules(q) \/ FailStop(q) \/ Verify(q)
        => UNCHANGED <<ns, veth, puller>>
  BY DEF WaitBootstrap, ApplyRules, FailStop, Verify
<1>6. StopProcesses(q) \/ RemoveRules(q) \/ DownStopTor(q) \/ After(q)
        => UNCHANGED <<ns, veth, puller>>
  BY DEF StopProcesses, RemoveRules, DownStopTor, After
<1> QED
  BY <1>1, <1>2, <1>3, <1>4, <1>5, <1>6 DEF Work, UpStep, DownStep

\* Where the operator stands and what it said is nobody else's doing.
LEMMA OthersTask ==
  ASSUME TypeOK, NEW o \in Operators, NEW q \in Operators \ {o}, Work(q)
  PROVE  pc'[o] = pc[o] /\ op'[o] = op[o] /\ said'[o] = said[o] /\ clean'[o] = clean[o]
<1>1. UNCHANGED past \/ Missed(q)
  BY WorkShape
<1>2. clean'[o] = clean[o]
  BY <1>1 DEF Missed, past, TypeOK
<1>3. \/ /\ \E l \in Labels \ {"idle"} : Goto(q, l)
         /\ UNCHANGED <<op, said>>
      \/ \E r \in Results : End(q, r)
  BY WorkShape
<1> QED
  BY <1>2, <1>3 DEF Goto, End, TypeOK

\* A name that is deleted is nobody's, and a link that was inside goes with it.
LEMMA Deletion ==
  ASSUME TypeOK, NEW o \in Operators, DeleteNs, ~(veth = "host" /\ puller = o)
  PROVE  ns' # o /\ puller' # o /\ ~(veth' = "host" /\ puller' = o)
  BY OperatorsAssumption DEF TypeOK, DeleteNs, link

\* The operator's own steps: while it makes its namespace, or takes it back, ...
LEMMA OwnCreate ==
  ASSUME TypeOK, NEW o \in Operators, Own(o),
         Exists(o) \/ AddNs(o) \/ AddVeth(o) \/ MoveVeth(o) \/ Configure(o)
           \/ RollbackNs(o) \/ RollbackLink(o)
  PROVE  Own(o)'
<1> USE OperatorsAssumption
        DEF TypeOK, Own, LinkInside, Undone, Moved, DownLabels, task, kernel, net, link,
        past, Goto
<1>1. CASE Exists(o)
  BY <1>1 DEF Exists, Done, End
<1>2. CASE AddNs(o) \/ AddVeth(o)
  BY <1>2 DEF AddNs, AddVeth, Done
<1>3. CASE MoveVeth(o) \/ Configure(o)
  BY <1>3 DEF MoveVeth, Configure, Done
<1>4. CASE RollbackNs(o)
  BY <1>4 DEF RollbackNs, DeleteNs, Missed
<1>5. CASE RollbackLink(o)
  BY <1>5 DEF RollbackLink, End, Missed
<1> QED
  BY <1>1, <1>2, <1>3, <1>4, <1>5

\* ... while it starts tor and applies the rules, or gives them up, ...
LEMMA OwnBoot ==
  ASSUME TypeOK, NEW o \in Operators, Own(o),
         ClearOrphan(o) \/ ClearLog(o) \/ Launch(o) \/ CheckTor(o) \/ WaitBootstrap(o)
           \/ ApplyRules(o) \/ FailStop(o) \/ FailDestroy(o) \/ Verify(o)
  PROVE  Own(o)'
<1> USE DEF TypeOK, Own, LinkInside, Undone, Moved, DownLabels, task, kernel, net, link,
        past, Goto
<1>1. CASE ClearOrphan(o) \/ FailStop(o)
  BY <1>1 DEF ClearOrphan, FailStop, StopTor, Missed
<1>2. CASE ClearLog(o) \/ Launch(o) \/ CheckTor(o) \/ WaitBootstrap(o) \/ ApplyRules(o)
  BY <1>2 DEF ClearLog, Launch, CheckTor, WaitBootstrap, ApplyRules, Done
<1>3. CASE FailDestroy(o)
  <2>1. ~(veth = "host" /\ puller = o) /\ End(o, "failed")
    BY <1>3 DEF FailDestroy
  <2>2. CASE DeleteNs
    BY <2>1, <2>2, Deletion DEF End
  <2>3. CASE UNCHANGED <<ns, link>> /\ Missed(o)
    BY <2>1, <2>3 DEF End, Missed
  <2> QED
    BY <1>3, <2>2, <2>3 DEF FailDestroy
<1>4. CASE Verify(o)
  <2>1. UNCHANGED <<ns, veth, puller>> /\ UNCHANGED clean /\ pc[o] = "verify"
    BY <1>4 DEF Verify, Done
  <2>2. CASE Done(o, "verify", "pids")
    BY <2>1, <2>2 DEF Done
  <2>3. CASE End(o, "left") \/ End(o, "up")
    BY <2>1, <2>3 DEF End
  <2> QED
    BY <1>4, <2>2, <2>3 DEF Verify
<1> QED
  BY <1>1, <1>2, <1>3, <1>4

\* ... and while it brings the tunnel down, its own that it could not verify or not.
LEMMA OwnDown ==
  ASSUME TypeOK, NEW o \in Operators, Own(o), DownStep(o)
  PROVE  Own(o)'
<1> USE DEF TypeOK, Own, LinkInside, Undone, Moved, DownLabels, task, kernel, net, link,
        past, Goto
<1>1. CASE StopProcesses(o)
  BY <1>1 DEF StopProcesses, Done, Missed
<1>2. CASE RemoveRules(o) \/ DownStopTor(o)
  BY <1>2 DEF RemoveRules, Step, DownStopTor, StopTor, Missed
<1>3. CASE DestroyNs(o)
  <2>1. /\ pc[o] = "destroy" /\ pc' = [pc EXCEPT ![o] = "after"] /\ UNCHANGED <<op, said>>
        /\ (DeleteNs /\ UNCHANGED past) \/ (UNCHANGED <<ns, link>> /\ Missed(o))
    BY <1>3 DEF DestroyNs, Step
  <2>2. CASE DeleteNs /\ UNCHANGED past /\ op[o] = "up"
    BY <2>1, <2>2, Deletion
  <2>3. CASE ~clean'[o] /\ (op[o] = "up" => ~(veth' = "host" /\ puller' = o))
    BY <2>1, <2>3
  <2>4. CASE UNCHANGED <<ns, link>> /\ Missed(o)
    BY <2>1, <2>3, <2>4 DEF Missed
  <2>5. CASE DeleteNs /\ UNCHANGED past /\ op[o] # "up"
    BY <2>1, <2>3, <2>5
  <2> QED
    BY <2>1, <2>2, <2>4, <2>5
<1>4. CASE After(o)
  BY <1>4 DEF After, End
<1> QED
  BY <1>1, <1>2, <1>3, <1>4 DEF DownStep

\* An operator's own stays as it is, whoever takes the next step.
LEMMA OwnStep ==
  TypeOK /\ (\A o \in Operators : Own(o)) /\ [Next]_vars => \A o \in Operators : Own(o)'
<1> SUFFICES ASSUME TypeOK, \A p \in Operators : Own(p), [Next]_vars, NEW o \in Operators
             PROVE  Own(o)'
  OBVIOUS
<1>1. CASE UNCHANGED vars \/ TorBoots \/ TorErrs \/ TorDies
  <2>1. UNCHANGED <<ns, veth, puller, pc, op, said, clean>>
    BY <1>1 DEF vars, kernel, net, link, process, task, past, TorBoots, TorErrs, TorDies
  <2> QED
    BY <2>1 DEF Own, LinkInside, Undone
<1>2. ASSUME NEW q \in Operators, BeginUp(q) \/ BeginDown(q) \/ BeginCleanup(q)
      PROVE  Own(o)'
  <2>1. PICK r, l : /\ Begin(q, r, l)
                    /\ (r = "up" /\ l = "exists") \/ (r # "up" /\ l = "pids")
    BY <1>2 DEF BeginUp, BeginDown, BeginCleanup
  <2>2. UNCHANGED <<ns, veth, puller>>
    BY <2>1 DEF Begin, kernel, net, link
  <2>3. CASE q = o
    BY <2>1, <2>2, <2>3 DEF Begin, Goto, TypeOK, Own, LinkInside, Undone, Moved, DownLabels
  <2>4. CASE q # o
    BY <2>1, <2>2, <2>4 DEF Begin, Goto, TypeOK, Own, LinkInside, Undone
  <2> QED
    BY <2>3, <2>4
<1>3. ASSUME NEW q \in Operators \ {o}, Work(q)
      PROVE  Own(o)'
  BY <1>3, OthersNet, OthersTask DEF Own, LinkInside, Undone
<1>4. ASSUME Work(o)
      PROVE  Own(o)'
  BY <1>4, OwnCreate, OwnBoot, OwnDown DEF Work, UpStep
<1>5. ASSUME NEW q \in Operators, Interrupt(q)
      PROVE  Own(o)'
  <2>1. UNCHANGED <<ns, veth, puller>> /\ End(q, "none") /\ (clean'[o] => clean[o])
    BY <1>5 DEF Interrupt, Missed, TypeOK, kernel, net, link
  <2>2. CASE q = o
    BY <2>1, <2>2 DEF End, Goto, TypeOK, Own, LinkInside, Undone, Moved, DownLabels
  <2>3. CASE q # o
    BY <2>1, <2>3 DEF End, Goto, TypeOK, Own, LinkInside, Undone
  <2> QED
    BY <2>2, <2>3
<1> QED
  BY <1>1, <1>2, <1>3, <1>4, <1>5 DEF Next

-----------------------------------------------------------------------------
\* The strengthening is an invariant.
THEOREM Invariance == Spec => []IInv
<1>1. Init => IInv
  <2> SUFFICES ASSUME Init
               PROVE  IInv
    OBVIOUS
  <2>1. TypeOK
    BY OperatorsAssumption DEF Init, TypeOK, Labels, Named
  <2>2. \A o \in Operators : ~lone[o] /\ Own(o)
    BY DEF Init, Own, LinkInside, Undone, Moved, DownLabels
  <2> QED
    BY <2>1, <2>2 DEF IInv
<1>2. IInv /\ [Next]_vars => IInv'
  BY TypeStep, LoneStep, OwnStep DEF IInv
<1> QED
  BY <1>1, <1>2, PTL DEF Spec

\* The types hold, and a veth inside has a namespace.
THEOREM TypeCorrect == Spec => []TypeOK
  BY Invariance, PTL DEF IInv

\* After any number of operators, interrupted anywhere, an undisturbed `tort down`
\* leaves a link on the host that it found there, and else nothing, and says so.
THEOREM LoneDownLeavesTheLink == Spec => []LoneDownCleans
<1>1. IInv => LoneDownCleans
  BY DEF IInv, Downward, LoneDownCleans
<1> QED
  BY <1>1, Invariance, PTL

\* A `tort up` that fails has undone its own, among any number of others.
THEOREM FailedUpUndoesItsOwn == Spec => []OwnNetIsUndone
<1>1. IInv => OwnNetIsUndone
  BY DEF IInv, Own, Undone, OwnNetIsUndone
<1> QED
  BY <1>1, Invariance, PTL
=============================================================================
