----------------------------- MODULE TunnelProof -----------------------------
(***************************************************************************)
(* Proofs about Tunnel, for every set of programs and every bound: the     *)
(* safety properties its runs check, from one inductive invariant, and     *)
(* that it implements the gate and the life of tor.                        *)
(***************************************************************************)
EXTENDS TunnelGate, TLAPS

-----------------------------------------------------------------------------
(* The inductive invariant, by parts.                                      *)

\* A program that entered a standing tunnel is in the named namespace, under
\* the rules, and the accept loop is where it must still find it.
Sheltered ==
  \A p \in Procs : phase[p] = "inside" /\ p \notin late =>
    /\ rules /\ named # 0 /\ ns[p] = named
    /\ pc \in Standings

\* Where up() is, its namespace is there; where a name is about to be deleted,
\* or made, no tor of ours is alive.
TorInNetns ==
  /\ tor \in Live => named # 0
  /\ pc \in {"link", "move", "conf", "orphan", "launch", "check", "wait", "apply"}
       => named # 0
  /\ pc \in {"add", "link", "move", "conf", "rbNs", "rbLink", "failDestroy", "destroy"}
       => tor \notin Live

\* What the log that wait_for_bootstrap reads says of the end of a bootstrap, the tor
\* just launched has said, or it was there before and would not go.
LogIsOurs ==
  /\ pc \in {"check", "wait"} /\ tor = "boot" => log # "done"
  /\ pc = "apply" => tor # "boot" \/ log = "old"

\* first_error remembers an nftables table that would not go.
ErrorKept == pc \in {"stop", "destroy"} /\ ~err => ~rules

\* With no mishap, rules are there only with a namespace, and never while one
\* is being built, undone or torn down beyond them.
RulesInPlace ==
  mishaps = {} /\ rules =>
    /\ named # 0
    /\ pc \notin {"add", "link", "move", "conf", "rbNs", "rbLink", "orphan", "launch",
                  "check", "wait", "apply", "failStop", "failDestroy", "stop", "destroy"}

\* With no mishap, the veth is on the host only on its way to the namespace.
VethInPlace ==
  mishaps = {} =>
    /\ veth = OnHost => pc \in {"move", "rbNs", "rbLink"}
    /\ pc = "rbLink" => named = 0

\* With no mishap, an unconfirmed tunnel is being verified or torn down.
UnverifiedInHand ==
  mishaps = {} /\ IsUp /\ ~verified
    => pc \in {"verify", "term", "wait1", "kill", "wait2", "remove"}

\* A daemon that starts has said nothing.
DeadIsSilent == pc = "dead" => reply = "none"

IInv ==
  /\ TypeOK
  /\ Sheltered
  /\ TorInNetns
  /\ LogIsOurs
  /\ ErrorKept
  /\ RulesInPlace
  /\ VethInPlace
  /\ UnverifiedInHand
  /\ DeadIsSilent
  /\ DownMeansDown
  /\ FailedUpIsClean

-----------------------------------------------------------------------------
(* Each part is kept by every step, from itself and the parts before it.   *)

\* Every step keeps the types.
LEMMA TypeStep ==
  TypeOK /\ [Next]_vars => TypeOK'
<1> SUFFICES ASSUME TypeOK, [Next]_vars
             PROVE  TypeOK'
  OBVIOUS
<1> USE DEF TypeOK, Phases, Labels, Replies, NoVeth, OnHost, Goto, net, daemn,
     procs, task, said
<1>1. CASE AddNs
  BY <1>1 DEF AddNs
<1>2. CASE MoveVeth
  BY <1>2 DEF MoveVeth
<1>3. CASE RollbackNs
  <2>1. mishaps' \subseteq Mishaps
    BY <1>3 DEF RollbackNs, Mishaps
  <2> QED
    BY <1>3, <2>1 DEF RollbackNs
<1>4. CASE RollbackLink
  <2>1. mishaps' \subseteq Mishaps
    BY <1>4 DEF RollbackLink, Mishaps
  <2>2. err' \in BOOLEAN
    BY <1>4 DEF RollbackLink, Finish
  <2> QED
    BY <1>4, <2>1, <2>2 DEF RollbackLink, Finish
<1>5. CASE ApplyRules
  <2>1. rules' \in BOOLEAN
    BY <1>5 DEF ApplyRules
  <2> QED
    BY <1>5, <2>1 DEF ApplyRules
<1>6. CASE FailDestroy
  <2>1. mishaps' \subseteq Mishaps
    BY <1>6 DEF FailDestroy, Mishaps
  <2>2. err' \in BOOLEAN
    BY <1>6 DEF FailDestroy, Finish
  <2> QED
    BY <1>6, <2>1, <2>2 DEF FailDestroy, Finish
<1>7. CASE Verify
  <2>1. mishaps' \subseteq Mishaps
    BY <1>7 DEF Verify, Mishaps
  <2>2. verified' \in BOOLEAN
    BY <1>7 DEF Verify
  <2> QED
    BY <1>7, <2>1, <2>2, ZenonT(30) DEF Verify, Finish
<1>8. CASE AddVeth \/ Configure \/ ClearOrphan \/ Launch \/ CheckTor
          \/ WaitBootstrap \/ FailStop
  BY <1>8 DEF AddVeth, Configure, ClearOrphan, Launch, CheckTor, WaitBootstrap,
     FailStop, StopTor
<1>9. CASE Kill
  BY <1>9 DEF Kill
<1>10. CASE GiveUp
  <2>1. mishaps' \subseteq Mishaps
    BY <1>10 DEF GiveUp, Mishaps
  <2>2. err' \in BOOLEAN
    BY <1>10 DEF GiveUp, Finish, EndTeardown
  <2> QED
    BY <1>10, <2>1, <2>2 DEF GiveUp, Finish, EndTeardown
<1>11. CASE RemoveRules
  <2>1. mishaps' \subseteq Mishaps
    BY <1>11 DEF RemoveRules, Mishaps
  <2>2. rules' \in BOOLEAN /\ err' \in BOOLEAN
    BY <1>11 DEF RemoveRules
  <2> QED
    BY <1>11, <2>1, <2>2 DEF RemoveRules
<1>12. CASE DestroyNs
  <2>1. mishaps' \subseteq Mishaps
    BY <1>12 DEF DestroyNs, Mishaps
  <2>2. err' \in BOOLEAN
    BY <1>12 DEF DestroyNs, Finish, EndTeardown
  <2> QED
    BY <1>12, <2>1, <2>2 DEF DestroyNs, Finish, EndTeardown
<1>13. CASE Term \/ Wait1 \/ Wait2 \/ DownStopTor
  BY <1>13 DEF Term, Wait1, Wait2, DownStopTor, StopTor
<1>14. CASE ProbeDone
  <2>1. err' \in BOOLEAN
    BY <1>14 DEF ProbeDone, Finish
  <2> QED
    BY <1>14, <2>1 DEF ProbeDone, Finish
<1>15. CASE BeginUp
  <2>1. mishaps' \subseteq Mishaps
    BY <1>15 DEF BeginUp, Mishaps
  <2>2. verified' \in BOOLEAN /\ err' \in BOOLEAN
    BY <1>15 DEF BeginUp, Finish
  <2> QED
    BY <1>15, <2>1, <2>2 DEF BeginUp, Finish
<1>16. CASE Restart \/ BeginDown
  BY <1>16 DEF Restart, BeginDown
<1>17. ASSUME NEW p \in Procs, StartRun(p)  PROVE TypeOK'
  BY <1>17 DEF StartRun
<1>18. ASSUME NEW p \in Procs, StartProbe(p)  PROVE TypeOK'
  BY <1>18 DEF StartProbe
<1>19. ASSUME NEW p \in Procs, Open(p)  PROVE TypeOK'
  BY <1>19 DEF Open
<1>20. ASSUME NEW p \in Procs, SetNs(p)  PROVE TypeOK'
  BY <1>20 DEF SetNs
<1>21. ASSUME NEW p \in Procs, Exit(p)  PROVE TypeOK'
  BY <1>21 DEF Exit
<1>22. ASSUME NEW p \in Procs, NEW q \in Procs, ForkInside(p, q)  PROVE TypeOK'
  BY <1>22 DEF ForkInside
<1>23. CASE Crash
  <2>1. mishaps' \subseteq Mishaps
    BY <1>23 DEF Crash, Mishaps
  <2>2. err' \in BOOLEAN
    BY <1>23 DEF Crash
  <2> QED
    BY <1>23, <2>1, <2>2 DEF Crash
<1>24. CASE TorBoots \/ TorErr \/ TorDies \/ Reap
  BY <1>24 DEF TorBoots, TorErr, TorDies, Reap
<1>25. CASE UNCHANGED vars
  BY <1>25 DEF vars
<1> QED
  BY <1>1, <1>2, <1>3, <1>4, <1>5, <1>6, <1>7, <1>8, <1>9, <1>10, <1>11, <1>12,
     <1>13, <1>14, <1>15, <1>16, <1>17, <1>18, <1>19, <1>20, <1>21, <1>22, <1>23,
     <1>24, <1>25
  DEF Next, Serve, UpStep, DownStep, Request, Program, Outside

\* The filter and the name are taken away only past the label at which the
\* namespace was found empty of everybody sheltered; nobody becomes sheltered
\* after it.
LEMMA ShelteredStep ==
  TypeOK /\ Sheltered /\ [Next]_vars => Sheltered'
<1> SUFFICES ASSUME TypeOK, Sheltered, [Next]_vars
             PROVE  Sheltered'
  OBVIOUS
<1> USE DEF TypeOK, Phases, Sheltered, Standings, Goto, net, daemn, procs, task,
     said
<1>1. CASE AddNs
  BY <1>1 DEF AddNs
<1>2. CASE RollbackNs
  BY <1>2 DEF RollbackNs
<1>3. CASE ApplyRules
  BY <1>3 DEF ApplyRules
<1>4. CASE FailDestroy
  BY <1>4 DEF FailDestroy, Finish
<1>5. CASE Verify
  BY <1>5 DEF Verify, Finish, Works
<1>6. CASE AddVeth \/ MoveVeth \/ Configure \/ RollbackLink \/ ClearOrphan
          \/ Launch \/ CheckTor \/ WaitBootstrap \/ FailStop
  BY <1>6 DEF AddVeth, MoveVeth, Configure, RollbackLink, ClearOrphan, Launch,
     CheckTor, WaitBootstrap, FailStop, Finish, StopTor
<1>7. CASE Term
  BY <1>7 DEF Term, Pids
<1>8. CASE Wait1
  BY <1>8 DEF Wait1, Pids
<1>9. CASE Kill
  BY <1>9 DEF Kill, Pids
<1>10. CASE Wait2
  BY <1>10 DEF Wait2, Pids
<1>11. CASE GiveUp
  BY <1>11 DEF GiveUp, Finish, EndTeardown
<1>12. CASE RemoveRules
  BY <1>12 DEF RemoveRules
<1>13. CASE DestroyNs
  BY <1>13 DEF DestroyNs, Finish, EndTeardown
<1>14. CASE DownStopTor
  BY <1>14 DEF DownStopTor, StopTor
<1>15. CASE Restart
  BY <1>15 DEF Restart
<1>16. CASE BeginUp
  BY <1>16 DEF BeginUp, Finish, IsUp
<1>17. CASE ProbeDone \/ BeginDown
  BY <1>17 DEF ProbeDone, BeginDown, Finish
<1>18. ASSUME NEW p \in Procs, StartRun(p)  PROVE Sheltered'
  BY <1>18 DEF StartRun
<1>19. ASSUME NEW p \in Procs, StartProbe(p)  PROVE Sheltered'
  BY <1>19 DEF StartProbe
<1>20. ASSUME NEW p \in Procs, Open(p)  PROVE Sheltered'
  BY <1>20 DEF Open
<1>21. ASSUME NEW p \in Procs, SetNs(p)  PROVE Sheltered'
  BY <1>21 DEF SetNs, Standing
<1>22. ASSUME NEW p \in Procs, Exit(p)  PROVE Sheltered'
  BY <1>22 DEF Exit
<1>23. ASSUME NEW p \in Procs, NEW q \in Procs, ForkInside(p, q)  PROVE Sheltered'
  BY <1>23 DEF ForkInside
<1>24. CASE Crash
  BY <1>24 DEF Crash
<1>25. CASE TorBoots \/ TorErr \/ TorDies \/ Reap
  BY <1>25 DEF TorBoots, TorErr, TorDies, Reap
<1>26. CASE UNCHANGED vars
  BY <1>26 DEF vars
<1> QED
  BY <1>1, <1>2, <1>3, <1>4, <1>5, <1>6, <1>7, <1>8, <1>9, <1>10, <1>11, <1>12,
     <1>13, <1>14, <1>15, <1>16, <1>17, <1>18, <1>19, <1>20, <1>21, <1>22, <1>23,
     <1>24, <1>25, <1>26
  DEF Next, Serve, UpStep, DownStep, Request, Program, Outside

\* tor is stopped, whatever comes of it, before a name is deleted.
LEMMA TorStep ==
  TypeOK /\ TorInNetns /\ [Next]_vars => TorInNetns'
<1> SUFFICES ASSUME TypeOK, TorInNetns, [Next]_vars
             PROVE  TorInNetns'
  OBVIOUS
<1> USE DEF TypeOK, TorInNetns, Live, Goto, net, daemn, procs, task, said
<1>1. CASE AddNs
  BY <1>1 DEF AddNs
<1>2. CASE ClearOrphan
  BY <1>2 DEF ClearOrphan, StopTor
<1>3. CASE Launch
  BY <1>3 DEF Launch
<1>4. CASE FailStop
  BY <1>4 DEF FailStop, StopTor
<1>5. CASE AddVeth \/ MoveVeth \/ Configure \/ RollbackNs \/ RollbackLink
          \/ CheckTor \/ WaitBootstrap \/ ApplyRules \/ FailDestroy \/ Verify
  BY <1>5 DEF AddVeth, MoveVeth, Configure, RollbackNs, RollbackLink, CheckTor,
     WaitBootstrap, ApplyRules, FailDestroy, Verify, Finish, Works
<1>6. CASE DownStopTor
  BY <1>6 DEF DownStopTor, StopTor
<1>7. CASE DestroyNs
  BY <1>7 DEF DestroyNs, Finish, EndTeardown
<1>8. CASE Term \/ Wait1 \/ Kill \/ Wait2 \/ GiveUp \/ RemoveRules
  BY <1>8 DEF Term, Wait1, Kill, Wait2, GiveUp, RemoveRules, Finish, EndTeardown
<1>9. CASE BeginUp
  BY <1>9 DEF BeginUp, Finish
<1>10. CASE ProbeDone \/ Restart \/ BeginDown
  BY <1>10 DEF ProbeDone, Restart, BeginDown, Finish
<1>11. CASE (\E p \in Procs : StartRun(p) \/ StartProbe(p)) \/ Program
  BY <1>11 DEF Program, StartRun, StartProbe, Open, SetNs, Exit, ForkInside
<1>12. CASE Crash
  BY <1>12 DEF Crash
<1>13. CASE TorBoots \/ TorErr \/ TorDies \/ Reap
  BY <1>13 DEF TorBoots, TorErr, TorDies, Reap
<1>14. CASE UNCHANGED vars
  BY <1>14 DEF vars
<1> QED
  BY <1>1, <1>2, <1>3, <1>4, <1>5, <1>6, <1>7, <1>8, <1>9, <1>10, <1>11, <1>12,
     <1>13, <1>14
  DEF Next, Serve, UpStep, DownStep, Request, Program, Outside

\* A launch leaves no log that says `done` of its tor, and only a tor that is ready
\* writes it.
LEMMA LogStep ==
  LogIsOurs /\ [Next]_vars => LogIsOurs'
<1> SUFFICES ASSUME LogIsOurs, [Next]_vars
             PROVE  LogIsOurs'
  OBVIOUS
<1> USE DEF LogIsOurs, Goto, net, daemn, procs, task, said
<1>1. CASE ClearOrphan
  BY <1>1 DEF ClearOrphan, StopTor
<1>2. CASE Launch
  BY <1>2 DEF Launch
<1>3. CASE WaitBootstrap
  BY <1>3 DEF WaitBootstrap
<1>4. CASE FailStop
  BY <1>4 DEF FailStop, StopTor
<1>5. CASE AddNs \/ AddVeth \/ MoveVeth \/ Configure \/ RollbackNs
          \/ RollbackLink \/ CheckTor \/ ApplyRules \/ FailDestroy \/ Verify
  BY <1>5 DEF AddNs, AddVeth, MoveVeth, Configure, RollbackNs, RollbackLink,
     CheckTor, ApplyRules, FailDestroy, Verify, Finish, Works
<1>6. CASE DownStopTor
  BY <1>6 DEF DownStopTor, StopTor
<1>7. CASE Term \/ Wait1 \/ Kill \/ Wait2 \/ GiveUp \/ RemoveRules \/ DestroyNs
  BY <1>7 DEF Term, Wait1, Kill, Wait2, GiveUp, RemoveRules, DestroyNs, Finish,
     EndTeardown
<1>8. CASE ProbeDone \/ Restart \/ BeginUp \/ BeginDown
  BY <1>8 DEF ProbeDone, Restart, BeginUp, BeginDown, Finish
<1>9. CASE (\E p \in Procs : StartRun(p) \/ StartProbe(p)) \/ Program
  BY <1>9 DEF Program, StartRun, StartProbe, Open, SetNs, Exit, ForkInside
<1>10. CASE TorBoots
  BY <1>10 DEF TorBoots
<1>11. CASE TorErr
  BY <1>11 DEF TorErr
<1>12. CASE Crash
  BY <1>12 DEF Crash
<1>13. CASE TorDies \/ Reap
  BY <1>13 DEF TorDies, Reap
<1>14. CASE UNCHANGED vars
  BY <1>14 DEF vars
<1> QED
  BY <1>1, <1>2, <1>3, <1>4, <1>5, <1>6, <1>7, <1>8, <1>9, <1>10, <1>11, <1>12,
     <1>13, <1>14
  DEF Next, Serve, UpStep, DownStep, Request, Program, Outside

\* An nftables table that would not go leaves an error behind.
LEMMA ErrorStep ==
  ErrorKept /\ [Next]_vars => ErrorKept'
<1> SUFFICES ASSUME ErrorKept, [Next]_vars
             PROVE  ErrorKept'
  OBVIOUS
<1> USE DEF ErrorKept, Goto, net, daemn, procs, task, said
<1>1. CASE ApplyRules
  BY <1>1 DEF ApplyRules
<1>2. CASE AddNs \/ AddVeth \/ MoveVeth \/ Configure \/ RollbackNs
          \/ RollbackLink \/ ClearOrphan \/ Launch \/ CheckTor \/ WaitBootstrap
          \/ FailStop \/ FailDestroy \/ Verify
  BY <1>2 DEF AddNs, AddVeth, MoveVeth, Configure, RollbackNs, RollbackLink,
     ClearOrphan, Launch, CheckTor, WaitBootstrap, FailStop, FailDestroy, Verify,
     Finish, StopTor, Works
<1>3. CASE RemoveRules
  BY <1>3 DEF RemoveRules
<1>4. CASE DestroyNs
  BY <1>4 DEF DestroyNs, Finish, EndTeardown
<1>5. CASE Term \/ Wait1 \/ Kill \/ Wait2 \/ GiveUp \/ DownStopTor
  BY <1>5 DEF Term, Wait1, Kill, Wait2, GiveUp, DownStopTor, Finish, EndTeardown,
     StopTor
<1>6. CASE ProbeDone \/ Restart \/ BeginUp \/ BeginDown
  BY <1>6 DEF ProbeDone, Restart, BeginUp, BeginDown, Finish
<1>7. CASE (\E p \in Procs : StartRun(p) \/ StartProbe(p)) \/ Program
  BY <1>7 DEF Program, StartRun, StartProbe, Open, SetNs, Exit, ForkInside
<1>8. CASE TorBoots \/ TorErr \/ TorDies \/ Reap \/ Crash
  BY <1>8 DEF TorBoots, TorErr, TorDies, Reap, Crash
<1>9. CASE UNCHANGED vars
  BY <1>9 DEF vars
<1> QED
  BY <1>1, <1>2, <1>3, <1>4, <1>5, <1>6, <1>7, <1>8, <1>9
  DEF Next, Serve, UpStep, DownStep, Request, Program, Outside

\* Rules are applied over a namespace, and outlive it only by a mishap.
LEMMA RulesStep ==
  TypeOK /\ TorInNetns /\ RulesInPlace /\ [Next]_vars => RulesInPlace'
<1> SUFFICES ASSUME TypeOK, TorInNetns, RulesInPlace, [Next]_vars
             PROVE  RulesInPlace'
  OBVIOUS
<1> USE DEF TypeOK, TorInNetns, RulesInPlace, Goto, net, daemn, procs, task,
     said
<1>1. CASE RollbackNs
  BY <1>1 DEF RollbackNs
<1>2. CASE ApplyRules
  BY <1>2 DEF ApplyRules
<1>3. CASE FailDestroy
  BY <1>3 DEF FailDestroy, Finish
<1>4. CASE AddNs \/ AddVeth \/ MoveVeth \/ Configure \/ RollbackLink
          \/ ClearOrphan \/ Launch \/ CheckTor \/ WaitBootstrap \/ FailStop
          \/ Verify
  BY <1>4 DEF AddNs, AddVeth, MoveVeth, Configure, RollbackLink, ClearOrphan,
     Launch, CheckTor, WaitBootstrap, FailStop, Verify, Finish, StopTor, Works
<1>5. CASE RemoveRules
  BY <1>5 DEF RemoveRules
<1>6. CASE DestroyNs
  BY <1>6 DEF DestroyNs, Finish, EndTeardown
<1>7. CASE Term \/ Wait1 \/ Kill \/ Wait2 \/ GiveUp \/ DownStopTor
  BY <1>7 DEF Term, Wait1, Kill, Wait2, GiveUp, DownStopTor, Finish, EndTeardown,
     StopTor
<1>8. CASE BeginUp
  BY <1>8 DEF BeginUp, Finish, Clean, IsUp
<1>9. CASE ProbeDone \/ Restart \/ BeginDown
  BY <1>9 DEF ProbeDone, Restart, BeginDown, Finish
<1>10. CASE (\E p \in Procs : StartRun(p) \/ StartProbe(p)) \/ Program
  BY <1>10, ZenonT(30) DEF Program, StartRun, StartProbe, Open, SetNs, Exit, ForkInside
<1>11. CASE Crash
  BY <1>11 DEF Crash
<1>12. CASE TorBoots \/ TorErr \/ TorDies \/ Reap
  BY <1>12 DEF TorBoots, TorErr, TorDies, Reap
<1>13. CASE UNCHANGED vars
  BY <1>13 DEF vars
<1> QED
  BY <1>1, <1>2, <1>3, <1>4, <1>5, <1>6, <1>7, <1>8, <1>9, <1>10, <1>11, <1>12,
     <1>13
  DEF Next, Serve, UpStep, DownStep, Request, Program, Outside

\* The veth leaves the host with its namespace, or is deleted by the rollback.
LEMMA VethStep ==
  TypeOK /\ VethInPlace /\ [Next]_vars => VethInPlace'
<1> SUFFICES ASSUME TypeOK, VethInPlace, [Next]_vars
             PROVE  VethInPlace'
  OBVIOUS
<1> USE DEF TypeOK, VethInPlace, NoVeth, OnHost, Goto, net, daemn, procs, task,
     said
<1>1. CASE AddVeth
  BY <1>1 DEF AddVeth
<1>2. CASE MoveVeth
  BY <1>2 DEF MoveVeth
<1>3. CASE RollbackNs
  BY <1>3 DEF RollbackNs
<1>4. CASE RollbackLink
  BY <1>4 DEF RollbackLink, Finish
<1>5. CASE AddNs \/ Configure \/ ClearOrphan \/ Launch \/ CheckTor
          \/ WaitBootstrap \/ ApplyRules \/ FailStop \/ FailDestroy \/ Verify
  BY <1>5 DEF AddNs, Configure, ClearOrphan, Launch, CheckTor, WaitBootstrap,
     ApplyRules, FailStop, FailDestroy, Verify, StopTor, Finish, Works
<1>6. CASE Term \/ Wait1 \/ Kill \/ Wait2 \/ GiveUp \/ RemoveRules
          \/ DownStopTor \/ DestroyNs
  BY <1>6 DEF Term, Wait1, Kill, Wait2, GiveUp, RemoveRules, DownStopTor,
     DestroyNs, Finish, EndTeardown, StopTor
<1>7. CASE BeginUp
  BY <1>7 DEF BeginUp, Finish, Clean
<1>8. CASE ProbeDone \/ Restart \/ BeginDown
  BY <1>8 DEF ProbeDone, Restart, BeginDown, Finish
<1>9. CASE (\E p \in Procs : StartRun(p) \/ StartProbe(p)) \/ Program
  BY <1>9 DEF Program, StartRun, StartProbe, Open, SetNs, Exit, ForkInside
<1>10. CASE Reap
  BY <1>10 DEF Reap
<1>11. CASE Crash
  BY <1>11 DEF Crash
<1>12. CASE TorBoots \/ TorErr \/ TorDies
  BY <1>12 DEF TorBoots, TorErr, TorDies
<1>13. CASE UNCHANGED vars
  BY <1>13 DEF vars
<1> QED
  BY <1>1, <1>2, <1>3, <1>4, <1>5, <1>6, <1>7, <1>8, <1>9, <1>10, <1>11, <1>12,
     <1>13
  DEF Next, Serve, UpStep, DownStep, Request, Program, Outside

\* Verification ends in a confirmed tunnel, a teardown, or a mishap.
LEMMA UnverifiedStep ==
  TypeOK /\ RulesInPlace /\ UnverifiedInHand /\ [Next]_vars => UnverifiedInHand'
<1> SUFFICES ASSUME TypeOK, RulesInPlace, UnverifiedInHand, [Next]_vars
             PROVE  UnverifiedInHand'
  OBVIOUS
<1> USE DEF TypeOK, RulesInPlace, UnverifiedInHand, IsUp, Running, Goto, net,
     daemn, procs, task, said
<1>1. CASE ApplyRules
  BY <1>1 DEF ApplyRules
<1>2. CASE Verify
  BY <1>2 DEF Verify, Finish, Works
<1>3. CASE AddNs \/ AddVeth \/ MoveVeth \/ Configure \/ RollbackNs
          \/ RollbackLink \/ ClearOrphan \/ Launch \/ CheckTor \/ WaitBootstrap
          \/ FailStop \/ FailDestroy
  BY <1>3 DEF AddNs, AddVeth, MoveVeth, Configure, RollbackNs, RollbackLink,
     ClearOrphan, Launch, CheckTor, WaitBootstrap, FailStop, FailDestroy, Finish,
     StopTor
<1>4. CASE RemoveRules
  BY <1>4 DEF RemoveRules
<1>5. CASE Term \/ Wait1 \/ Kill \/ Wait2 \/ GiveUp \/ DownStopTor \/ DestroyNs
  BY <1>5 DEF Term, Wait1, Kill, Wait2, GiveUp, DownStopTor, DestroyNs, Finish,
     EndTeardown, StopTor
<1>6. CASE BeginUp
  BY <1>6 DEF BeginUp, Finish, Clean
<1>7. CASE ProbeDone \/ Restart \/ BeginDown
  BY <1>7 DEF ProbeDone, Restart, BeginDown, Finish
<1>8. CASE (\E p \in Procs : StartRun(p) \/ StartProbe(p)) \/ Program
  BY <1>8 DEF Program, StartRun, StartProbe, Open, SetNs, Exit, ForkInside
<1>9. CASE Crash
  BY <1>9 DEF Crash
<1>10. CASE TorBoots \/ TorErr \/ TorDies \/ Reap
  BY <1>10 DEF TorBoots, TorErr, TorDies, Reap
<1>11. CASE UNCHANGED vars
  BY <1>11 DEF vars
<1> QED
  BY <1>1, <1>2, <1>3, <1>4, <1>5, <1>6, <1>7, <1>8, <1>9, <1>10, <1>11
  DEF Next, Serve, UpStep, DownStep, Request, Program, Outside

\* A death takes the last reply with it.
LEMMA DeadStep ==
  DeadIsSilent /\ [Next]_vars => DeadIsSilent'
<1> SUFFICES ASSUME DeadIsSilent, [Next]_vars
             PROVE  DeadIsSilent'
  OBVIOUS
<1> USE DEF DeadIsSilent, Goto, net, daemn, procs, task, said
<1>1. CASE AddNs \/ AddVeth \/ MoveVeth \/ Configure \/ RollbackNs
          \/ RollbackLink \/ ClearOrphan \/ Launch \/ CheckTor \/ WaitBootstrap
          \/ ApplyRules \/ FailStop \/ FailDestroy \/ Verify
  BY <1>1 DEF AddNs, AddVeth, MoveVeth, Configure, RollbackNs, RollbackLink,
     ClearOrphan, Launch, CheckTor, WaitBootstrap, ApplyRules, FailStop,
     FailDestroy, Verify, Finish, StopTor, Works
<1>2. CASE Term \/ Wait1 \/ Kill \/ Wait2 \/ GiveUp \/ RemoveRules
          \/ DownStopTor \/ DestroyNs
  BY <1>2 DEF Term, Wait1, Kill, Wait2, GiveUp, RemoveRules, DownStopTor,
     DestroyNs, Finish, EndTeardown, StopTor
<1>3. CASE ProbeDone \/ Restart \/ BeginUp \/ BeginDown
  BY <1>3 DEF ProbeDone, Restart, BeginUp, BeginDown, Finish
<1>4. CASE (\E p \in Procs : StartRun(p) \/ StartProbe(p)) \/ Program
  BY <1>4 DEF Program, StartRun, StartProbe, Open, SetNs, Exit, ForkInside
<1>5. CASE Crash
  BY <1>5 DEF Crash
<1>6. CASE TorBoots \/ TorErr \/ TorDies \/ Reap
  BY <1>6 DEF TorBoots, TorErr, TorDies, Reap
<1>7. CASE UNCHANGED vars
  BY <1>7 DEF vars
<1> QED
  BY <1>1, <1>2, <1>3, <1>4, <1>5, <1>6, <1>7
  DEF Next, Serve, UpStep, DownStep, Request, Program, Outside

\* down() answers Ok where the name is deleted, and the rules and tor are gone by
\* then; between operations nothing brings them back.
LEMMA DownStepKept ==
  TorInNetns /\ ErrorKept /\ DeadIsSilent /\ DownMeansDown /\ [Next]_vars => DownMeansDown'
<1> SUFFICES ASSUME TorInNetns, ErrorKept, DeadIsSilent, DownMeansDown, [Next]_vars
             PROVE  DownMeansDown'
  OBVIOUS
<1> USE DEF TorInNetns, ErrorKept, DeadIsSilent, DownMeansDown, Live, Goto, net,
     daemn, procs, task, said
<1>1. CASE Verify
  BY <1>1 DEF Verify, Finish, Works
<1>2. CASE AddNs \/ AddVeth \/ MoveVeth \/ Configure \/ RollbackNs
          \/ RollbackLink \/ ClearOrphan \/ Launch \/ CheckTor \/ WaitBootstrap
          \/ ApplyRules \/ FailStop \/ FailDestroy
  BY <1>2 DEF AddNs, AddVeth, MoveVeth, Configure, RollbackNs, RollbackLink,
     ClearOrphan, Launch, CheckTor, WaitBootstrap, ApplyRules, FailStop,
     FailDestroy, Finish, StopTor
<1>3. CASE GiveUp
  BY <1>3 DEF GiveUp, Finish, EndTeardown
<1>4. CASE DestroyNs
  BY <1>4 DEF DestroyNs, Finish, EndTeardown
<1>5. CASE Term \/ Wait1 \/ Kill \/ Wait2 \/ RemoveRules \/ DownStopTor
  BY <1>5 DEF Term, Wait1, Kill, Wait2, RemoveRules, DownStopTor, StopTor
<1>6. CASE Restart
  BY <1>6 DEF Restart
<1>7. CASE BeginUp
  BY <1>7 DEF BeginUp, Finish
<1>8. CASE ProbeDone \/ BeginDown
  BY <1>8 DEF ProbeDone, BeginDown, Finish
<1>9. CASE (\E p \in Procs : StartRun(p) \/ StartProbe(p)) \/ Program
  BY <1>9 DEF Program, StartRun, StartProbe, Open, SetNs, Exit, ForkInside
<1>10. CASE TorBoots \/ TorErr \/ TorDies \/ Reap \/ Crash
  BY <1>10 DEF TorBoots, TorErr, TorDies, Reap, Crash
<1>11. CASE UNCHANGED vars
  BY <1>11 DEF vars
<1> QED
  BY <1>1, <1>2, <1>3, <1>4, <1>5, <1>6, <1>7, <1>8, <1>9, <1>10, <1>11
  DEF Next, Serve, UpStep, DownStep, Request, Program, Outside

\* Each way out of a failed `up` has undone everything before it.
LEMMA FailedUpStep ==
  TypeOK /\ TorInNetns /\ RulesInPlace /\ VethInPlace /\ DeadIsSilent /\ FailedUpIsClean /\ [Next]_vars => FailedUpIsClean'
<1> SUFFICES ASSUME TypeOK, TorInNetns, RulesInPlace, VethInPlace, DeadIsSilent, FailedUpIsClean, [Next]_vars
             PROVE  FailedUpIsClean'
  OBVIOUS
<1> USE DEF TypeOK, TorInNetns, RulesInPlace, VethInPlace, DeadIsSilent,
     FailedUpIsClean, Clean, Live, NoVeth, OnHost, Goto, net, daemn, procs, task,
     said
<1>1. CASE RollbackLink
  BY <1>1 DEF RollbackLink, Finish
<1>2. CASE FailDestroy
  BY <1>2 DEF FailDestroy, Finish
<1>3. CASE Verify
  BY <1>3 DEF Verify, Finish, Works
<1>4. CASE AddNs \/ AddVeth \/ MoveVeth \/ Configure \/ RollbackNs
          \/ ClearOrphan \/ Launch \/ CheckTor \/ WaitBootstrap \/ ApplyRules
          \/ FailStop
  BY <1>4 DEF AddNs, AddVeth, MoveVeth, Configure, RollbackNs, ClearOrphan,
     Launch, CheckTor, WaitBootstrap, ApplyRules, FailStop, StopTor
<1>5. CASE GiveUp
  BY <1>5 DEF GiveUp, Finish, EndTeardown
<1>6. CASE DestroyNs
  BY <1>6 DEF DestroyNs, Finish, EndTeardown
<1>7. CASE Term \/ Wait1 \/ Kill \/ Wait2 \/ RemoveRules \/ DownStopTor
  BY <1>7 DEF Term, Wait1, Kill, Wait2, RemoveRules, DownStopTor, StopTor
<1>8. CASE Restart
  BY <1>8 DEF Restart
<1>9. CASE BeginUp
  BY <1>9 DEF BeginUp, Finish
<1>10. CASE ProbeDone \/ BeginDown
  BY <1>10 DEF ProbeDone, BeginDown, Finish
<1>11. CASE (\E p \in Procs : StartRun(p) \/ StartProbe(p)) \/ Program
  BY <1>11 DEF Program, StartRun, StartProbe, Open, SetNs, Exit, ForkInside
<1>12. CASE TorBoots \/ TorErr \/ TorDies \/ Reap \/ Crash
  BY <1>12 DEF TorBoots, TorErr, TorDies, Reap, Crash
<1>13. CASE UNCHANGED vars
  BY <1>13 DEF vars
<1> QED
  BY <1>1, <1>2, <1>3, <1>4, <1>5, <1>6, <1>7, <1>8, <1>9, <1>10, <1>11, <1>12,
     <1>13
  DEF Next, Serve, UpStep, DownStep, Request, Program, Outside

-----------------------------------------------------------------------------
(* The theorems.                                                           *)

\* The invariant holds of the initial state.
LEMMA InitIInv == Init => IInv
<1> SUFFICES ASSUME Init PROVE IInv
  OBVIOUS
<1> USE DEF Init
<1>1. TypeOK
  <2>1. rules \in BOOLEAN /\ err \in BOOLEAN /\ verified \in BOOLEAN
    OBVIOUS
  <2> QED
    BY <2>1 DEF TypeOK, Phases, Labels, Replies, Mishaps, NoVeth
<1>2. Sheltered /\ TorInNetns /\ LogIsOurs /\ ErrorKept /\ RulesInPlace
  BY DEF Sheltered, TorInNetns, LogIsOurs, ErrorKept, RulesInPlace, Live
<1>3. VethInPlace /\ UnverifiedInHand /\ DeadIsSilent
  BY DEF VethInPlace, UnverifiedInHand, DeadIsSilent, IsUp, NoVeth, OnHost
<1>4. DownMeansDown /\ FailedUpIsClean
  BY DEF DownMeansDown, FailedUpIsClean
<1> QED
  BY <1>1, <1>2, <1>3, <1>4 DEF IInv

\* Every step keeps it.
LEMMA StepIInv == IInv /\ [Next]_vars => IInv'
  BY TypeStep, ShelteredStep, TorStep, LogStep, ErrorStep, RulesStep, VethStep,
     UnverifiedStep, DeadStep, DownStepKept, FailedUpStep
  DEF IInv

\* IInv is an invariant of the specification.
THEOREM Invariance == Spec => []IInv
  BY InitIInv, StepIInv, PTL DEF Spec

\* Types are kept, whatever fails, dies or overtakes whatever else.
THEOREM TypeCorrect == Spec => []TypeOK
  BY Invariance, PTL DEF IInv

\* No failure, timeout, race or crash lets teardown take the rules or the name
\* from around a program that entered a standing tunnel.
THEOREM NobodyStranded == Spec => []StrandedIsLate
<1>1. IInv => StrandedIsLate
  BY DEF IInv, Sheltered, StrandedIsLate
<1> QED
  BY <1>1, Invariance, PTL

\* A live tor always has its namespace, so serve()'s look at the namespace and
\* the rules finds every tunnel that a dead daemon left partly standing.
THEOREM TorNeverAlone == Spec => []TorNeedsNetns
<1>1. IInv => TorNeedsNetns
  BY DEF IInv, TorInNetns, TorNeedsNetns
<1> QED
  BY <1>1, Invariance, PTL

\* A `down` that reports success has removed all three pieces.
THEOREM DownIsDown == Spec => []DownMeansDown
  BY Invariance, PTL DEF IInv

\* The rules are applied only once the tor just launched has bootstrapped, or on the
\* word of an old log that could not be removed.
THEOREM RulesAfterTor == Spec => []NftAfterBootstrap
<1>1. IInv => NftAfterBootstrap
  BY DEF IInv, LogIsOurs, NftAfterBootstrap
<1> QED
  BY <1>1, Invariance, PTL

\* A tunnel that stands unconfirmed is the trace of a mishap.
THEOREM UnverifiedIsMishap == Spec => []UnverifiedNeedsMishap
<1>1. IInv => UnverifiedNeedsMishap
  BY DEF IInv, UnverifiedInHand, UnverifiedNeedsMishap
<1> QED
  BY <1>1, Invariance, PTL

\* A failed `up` all of whose undo commands worked has left nothing.
THEOREM FailedUpUndone == Spec => []FailedUpIsClean
  BY Invariance, PTL DEF IInv

\* The veth is left on the host only by a mishap.
THEOREM StrayLinkIsMishap == Spec => []StrayLinkNeedsMishap
<1>1. IInv => StrayLinkNeedsMishap
  BY DEF IInv, VethInPlace, StrayLinkNeedsMishap
<1> QED
  BY <1>1, Invariance, PTL

-----------------------------------------------------------------------------
(* What the tunnel implements: the gate, and the life of tor.              *)

\* Nothing that leaves the programs and the rules alone is seen by the gate.
LEMMA Unseen == UNCHANGED <<phase, late, rules>> => UNCHANGED <<rules, Admitted>>
  BY DEF Admitted

\* The steps the gate sees: the rules going in and out, a program coming in,
\* programs leaving.
LEMMA GateStep == TypeOK /\ Sheltered /\ [Next]_vars => [G!Next]_(G!vars)
<1> SUFFICES ASSUME TypeOK, Sheltered, [Next]_vars
             PROVE  [G!Next]_(G!vars)
  OBVIOUS
<1> USE DEF G!Next, G!vars, net, daemn, procs, task, said, Goto
<1>1. CASE ApplyRules
  <2>1. CASE rules' = TRUE
    <3>1. UNCHANGED Admitted
      BY <1>1 DEF ApplyRules, Admitted
    <3> QED
      BY <2>1, <3>1 DEF G!Raise, TypeOK
  <2>2. CASE rules' # TRUE
    BY <1>1, <2>2, Unseen DEF ApplyRules
  <2> QED
    BY <2>1, <2>2
<1>2. CASE RemoveRules
  <2>1. Admitted = {} /\ UNCHANGED Admitted
    BY <1>2 DEF RemoveRules, Admitted, Sheltered, Standings
  <2>2. CASE rules' = rules
    BY <2>1, <2>2
  <2>3. CASE rules' = FALSE
    BY <2>1, <2>3 DEF G!Lower, TypeOK
  <2> QED
    BY <1>2, <2>2, <2>3 DEF RemoveRules
<1>3. ASSUME NEW p \in Procs, SetNs(p)  PROVE [G!Next]_(G!vars)
  <2>1. CASE p \notin late'
    <3>1. rules /\ rules' = rules
      BY <1>3, <2>1 DEF SetNs, Standing
    <3>2. p \notin Admitted /\ Admitted' = Admitted \cup {p}
      BY <1>3, <2>1 DEF SetNs, Admitted, TypeOK
    <3> QED
      BY <3>1, <3>2 DEF G!Admit
  <2>2. CASE p \in late'
    <3>1. Admitted' = Admitted
      BY <1>3, <2>2 DEF SetNs, Admitted, TypeOK
    <3> QED
      BY <1>3, <3>1 DEF SetNs
  <2> QED
    BY <2>1, <2>2
<1>4. ASSUME NEW p \in Procs, NEW q \in Procs, ForkInside(p, q)
      PROVE  [G!Next]_(G!vars)
  <2>1. CASE q \notin late'
    <3>1. rules /\ rules' = rules
      BY <1>4, <2>1 DEF ForkInside, Sheltered
    <3>2. q \notin Admitted /\ Admitted' = Admitted \cup {q}
      BY <1>4, <2>1 DEF ForkInside, Admitted, TypeOK
    <3> QED
      BY <3>1, <3>2 DEF G!Admit
  <2>2. CASE q \in late'
    <3>1. Admitted' = Admitted
      BY <1>4, <2>2 DEF ForkInside, Admitted, TypeOK
    <3> QED
      BY <1>4, <3>1 DEF ForkInside
  <2> QED
    BY <2>1, <2>2
<1>5. ASSUME NEW p \in Procs, Exit(p)  PROVE [G!Next]_(G!vars)
  <2>1. Admitted' = Admitted \ (Admitted \cap {p})
    BY <1>5 DEF Exit, Admitted, TypeOK
  <2> QED
    BY <1>5, <2>1 DEF Exit, G!Leave
<1>6. CASE Kill
  <2>1. PICK gone \in SUBSET Pids :
          /\ phase' = [p \in Procs |-> IF p \in gone THEN "off" ELSE phase[p]]
          /\ late' = late \ gone
    BY <1>6 DEF Kill
  <2>2. Admitted' = Admitted \ (Admitted \cap gone)
    BY <2>1 DEF Admitted, Pids, TypeOK
  <2> QED
    BY <1>6, <2>2 DEF Kill, G!Leave
<1>7. CASE Crash
  <2>1. CASE UNCHANGED procs
    BY <1>7, <2>1, Unseen DEF Crash
  <2>2. CASE phase' = [p \in Procs |-> "off"]
    <3>1. Admitted' = Admitted \ Admitted
      BY <2>2 DEF Admitted
    <3> QED
      BY <1>7, <3>1 DEF Crash, G!Leave
  <2> QED
    BY <1>7, <2>1, <2>2 DEF Crash
<1>8. CASE \E p \in Procs : StartRun(p) \/ StartProbe(p) \/ Open(p)
  <2>1. UNCHANGED Admitted /\ UNCHANGED rules
    BY <1>8 DEF StartRun, StartProbe, Open, Admitted, TypeOK
  <2> QED
    BY <2>1
<1>9. CASE \/ AddNs \/ AddVeth \/ MoveVeth \/ Configure \/ RollbackNs \/ RollbackLink
           \/ ClearOrphan \/ Launch \/ CheckTor \/ WaitBootstrap
           \/ FailStop \/ FailDestroy \/ Verify
  BY <1>9, Unseen DEF AddNs, AddVeth, MoveVeth, Configure, RollbackNs, RollbackLink,
     ClearOrphan, Launch, CheckTor, WaitBootstrap, FailStop, FailDestroy, Verify
<1>10. CASE \/ Term \/ Wait1 \/ Wait2 \/ GiveUp \/ DownStopTor \/ DestroyNs
            \/ ProbeDone \/ Restart \/ BeginUp \/ BeginDown
            \/ TorBoots \/ TorErr \/ TorDies \/ Reap \/ UNCHANGED vars
  BY <1>10, Unseen DEF Term, Wait1, Wait2, GiveUp, DownStopTor, DestroyNs,
     ProbeDone, Restart, BeginUp, BeginDown, TorBoots, TorErr, TorDies, Reap, vars
<1> QED
  BY <1>1, <1>2, <1>3, <1>4, <1>5, <1>6, <1>7, <1>8, <1>9, <1>10
  DEF Next, Serve, UpStep, DownStep, Request, Program, Outside

\* Whatever the daemon, the programs and the kernel do, the filter comes down
\* only when every admitted program has left, and nobody is admitted without it.
THEOREM GateImplemented == Spec => GateSpec
<1>1. Init => G!Init
  BY DEF Init, G!Init, Admitted
<1>2. IInv /\ [Next]_vars => [G!Next]_(G!vars)
  BY GateStep DEF IInv
<1> QED
  BY <1>1, <1>2, Invariance, PTL DEF Spec, GateSpec, G!Spec

-----------------------------------------------------------------------------
(* The life of tor.                                                        *)

\* What start() finds running it stops before it touches the log.
StoppedFirst == pc = "launch" => tor \notin Live

\* Only ClearOrphan leads to the launch, and nothing revives a tor there.
LEMMA StoppedStep == StoppedFirst /\ [Next]_vars => StoppedFirst'
<1> SUFFICES ASSUME StoppedFirst, [Next]_vars
             PROVE  StoppedFirst'
  OBVIOUS
<1> USE DEF StoppedFirst, Live, Goto, net, daemn, procs, task, said
<1>1. CASE ClearOrphan
  BY <1>1 DEF ClearOrphan, StopTor
<1>2. CASE AddNs \/ AddVeth \/ MoveVeth \/ Configure \/ RollbackNs \/ RollbackLink
           \/ Launch \/ CheckTor \/ WaitBootstrap \/ ApplyRules \/ FailStop
           \/ FailDestroy \/ Verify
  BY <1>2 DEF AddNs, AddVeth, MoveVeth, Configure, RollbackNs, RollbackLink, Launch,
     CheckTor, WaitBootstrap, ApplyRules, FailStop, FailDestroy, Verify, Finish
<1>3. CASE Term \/ Wait1 \/ Kill \/ Wait2 \/ GiveUp \/ RemoveRules
           \/ DownStopTor \/ DestroyNs
  BY <1>3 DEF Term, Wait1, Kill, Wait2, GiveUp, RemoveRules, DownStopTor, DestroyNs,
     Finish, EndTeardown
<1>4. CASE ProbeDone \/ Restart \/ BeginUp \/ BeginDown
  BY <1>4 DEF ProbeDone, Restart, BeginUp, BeginDown, Finish
<1>5. CASE (\E p \in Procs : StartRun(p) \/ StartProbe(p)) \/ Program
  BY <1>5 DEF Program, StartRun, StartProbe, Open, SetNs, Exit, ForkInside
<1>6. CASE TorBoots \/ TorErr \/ TorDies \/ Reap \/ Crash
  BY <1>6 DEF TorBoots, TorErr, TorDies, Reap, Crash
<1>7. CASE UNCHANGED vars
  BY <1>7 DEF vars
<1> QED
  BY <1>1, <1>2, <1>3, <1>4, <1>5, <1>6, <1>7
  DEF Next, Serve, UpStep, DownStep, Request, Program, Outside

\* A launch removes the log of a tor that is dead or dying, if it can; a stop ends tor or
\* leaves it dying; the rest is tor's own doing, or none of its business.
LEMMA LifeStep ==
  TypeOK /\ StoppedFirst /\ [Next]_vars => [Tor!LifeNext]_(Tor!life)
<1> SUFFICES ASSUME TypeOK, StoppedFirst, [Next]_vars
             PROVE  [Tor!LifeNext]_(Tor!life)
  OBVIOUS
<1> USE DEF TypeOK, Tor!LifeNext, Tor!life, net, daemn, procs, task, said, Goto
<1>1. CASE Launch
  BY <1>1 DEF Launch, StoppedFirst, Live, Tor!Launch, Tor!ClearLog, Tor!Left
<1>2. CASE ClearOrphan \/ FailStop \/ DownStopTor
  <2>1. UNCHANGED log /\ StopTor
    BY <1>2 DEF ClearOrphan, FailStop, DownStopTor
  <2> QED
    BY <2>1 DEF StopTor, Tor!Killed, Tor!Ends
<1>3. CASE TorBoots \/ TorErr \/ TorDies \/ Crash
  BY <1>3 DEF TorBoots, TorErr, TorDies, Crash, Tor!Boots, Tor!Errs, Tor!Ends
<1>4. CASE \/ AddNs \/ AddVeth \/ MoveVeth \/ Configure \/ RollbackNs \/ RollbackLink
           \/ CheckTor \/ WaitBootstrap \/ ApplyRules \/ FailDestroy \/ Verify
  BY <1>4 DEF AddNs, AddVeth, MoveVeth, Configure, RollbackNs, RollbackLink, CheckTor,
     WaitBootstrap, ApplyRules, FailDestroy, Verify
<1>5. CASE \/ Term \/ Wait1 \/ Kill \/ Wait2 \/ GiveUp \/ RemoveRules \/ DestroyNs
           \/ ProbeDone \/ Restart \/ BeginUp \/ BeginDown \/ Reap \/ UNCHANGED vars
  BY <1>5 DEF Term, Wait1, Kill, Wait2, GiveUp, RemoveRules, DestroyNs, ProbeDone,
     Restart, BeginUp, BeginDown, Reap, vars
<1>6. CASE (\E p \in Procs : StartRun(p) \/ StartProbe(p)) \/ Program
  BY <1>6 DEF Program, StartRun, StartProbe, Open, SetNs, Exit, ForkInside
<1> QED
  BY <1>1, <1>2, <1>3, <1>4, <1>5, <1>6
  DEF Next, Serve, UpStep, DownStep, Request, Program, Outside

\* The tunnel never launches a tor beside another, and takes no log line of an earlier
\* one for its own, unless the log could not be removed.
THEOREM TorLifeImplemented == Spec => TorLifeSpec
<1>1. Init => Tor!LifeInit /\ StoppedFirst
  BY DEF Init, Tor!LifeInit, StoppedFirst
<1>2. Spec => []StoppedFirst
  BY <1>1, StoppedStep, PTL DEF Spec
<1>3. IInv /\ StoppedFirst /\ [Next]_vars => [Tor!LifeNext]_(Tor!life)
  BY LifeStep DEF IInv
<1> QED
  BY <1>1, <1>2, <1>3, Invariance, PTL DEF Spec, TorLifeSpec, Tor!LifeSpec
=============================================================================
