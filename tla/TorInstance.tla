---------------------------- MODULE TorInstance ----------------------------
(***************************************************************************)
(* tort's tor as a process among others (src/tor.rs): found by scanning    *)
(* /proc and by a pidfile that may be stale, started under a log that is   *)
(* removed first, and stopped by pid. One operator at a time starts and    *)
(* stops it; tor boots, fails and ends on its own time, other processes    *)
(* come and go, and a pid that is free may be anybody's next.              *)
(***************************************************************************)
EXTENDS Integers, FiniteSets

CONSTANTS
  Pids,  \* process ids
  NoPid  \* no process

ASSUME PidsAssumption == NoPid \notin Pids

VARIABLES
  proc,     \* of each pid: free, other, or a tor run with tort's torrc
  pidfile,  \* the pid that TOR_PID names, or NoPid
  log,      \* what TOR_LOG says; "old": done, and by a tor of before
  logger,   \* the tor that has TOR_LOG open (an unlinked log is nobody's)
  pc,       \* where the operator is in start() or stop()
  ret,      \* where stop() returns to
  list,     \* stop(): the pids it found
  said,     \* how the last operation ended
  seen,     \* history: the pids that were tort's tor when stop() looked
  stale,    \* history: the pid its pidfile named then
  hurt,     \* history: the pids that were not tort's tor when it sent them SIGTERM
  slain     \* history: and when it sent them SIGKILL

files  == <<pidfile, log, logger>>
memory == <<ret, list, said>>
past   == <<seen, stale, hurt, slain>>
vars   == <<proc, files, pc, memory, past>>

Kinds  == {"free", "other", "boot", "ready", "killed"}

\* our_tor_processes: comm says tor, and the command line names tort's torrc.
Ours   == {p \in Pids : proc[p] \in {"boot", "ready", "killed"}}
Alive  == {p \in Pids : proc[p] \in {"boot", "ready"}}

-----------------------------------------------------------------------------
Init ==
  /\ proc \in [Pids -> {"free", "other"}] /\ pidfile = NoPid
  /\ log = "clear" /\ logger = NoPid
  /\ pc = "idle" /\ ret = "idle" /\ list = {} /\ said = "none"
  /\ seen = {} /\ stale = NoPid /\ hurt = {} /\ slain = {}

\* start(), and what up() does when it fails: stop().
BeginStart ==
  /\ pc = "idle" /\ said' = "none"
  /\ IF Ours = {} THEN pc' = "clear" /\ UNCHANGED ret
                  ELSE pc' = "look" /\ ret' = "clear"
  /\ UNCHANGED <<proc, files, list, past>>

Fail == pc' = "look" /\ ret' = "idle" /\ said' = "failed"

\* Mutant: the log of an earlier run is left where it is.
KeepLog ==
  /\ pc = "clear" /\ pc' = "launch"
  /\ UNCHANGED <<proc, files, memory, past>>

\* A log that cannot be removed: its failure is ignored (tor.rs:158).
Left == IF log = "done" THEN "old" ELSE log

\* Directories, modes and torrc may fail before the log is removed, ownership
\* after it.
ClearLog ==
  /\ pc = "clear"
  /\ \/ Fail /\ UNCHANGED <<log, logger>>
     \/ /\ \/ log' = "clear" /\ logger' = NoPid
           \/ log' = Left /\ UNCHANGED logger
        /\ pc' = "launch" /\ UNCHANGED <<ret, said>>
  /\ UNCHANGED <<proc, pidfile, list, past>>

\* tor refuses when its ports are taken, as by a tor not gone yet; once it has
\* detached, its exit status says no more. It writes the pidfile after that, so that
\* for a while an old one may be there.
Launch ==
  /\ pc = "launch"
  /\ \/ Fail /\ UNCHANGED <<proc, pidfile, logger>>
     \/ /\ Ours = {} /\ pc' = "check" /\ UNCHANGED <<ret, said>>
        /\ \E p \in Pids :
             /\ proc[p] = "free" /\ proc' = [proc EXCEPT ![p] = "boot"]
             /\ pidfile' \in {pidfile, p} /\ logger' = p
  /\ UNCHANGED <<log, list, past>>

CheckTor ==
  /\ pc = "check"
  /\ IF Ours = {} THEN Fail ELSE pc' = "wait" /\ UNCHANGED <<ret, said>>
  /\ UNCHANGED <<proc, files, list, past>>

\* wait_for_bootstrap: done, a fatal error, a tor that is gone, the deadline.
WaitBootstrap ==
  /\ pc = "wait"
  /\ IF log \in {"done", "old"}
       THEN pc' = "idle" /\ said' = "started" /\ UNCHANGED ret
       ELSE Fail
  /\ UNCHANGED <<proc, files, list, past>>

-----------------------------------------------------------------------------
(* stop().                                                                 *)

BeginStop ==
  /\ pc = "idle" /\ pc' = "look" /\ ret' = "idle" /\ said' = "stopped"
  /\ UNCHANGED <<proc, files, list, past>>

\* The pids found in /proc, and the one in the pidfile, whoever has it by now.
Look ==
  /\ pc = "look"
  /\ list' = Ours \cup ({pidfile} \ {NoPid})
  /\ pc' = IF list' = {} THEN "unpid" ELSE "term"
  /\ seen' = Ours /\ stale' = pidfile /\ hurt' = {} /\ slain' = {}
  /\ UNCHANGED <<proc, files, ret, said>>

\* Of the pids that get a signal, those that are somebody else's by now.
Bystanders(p) == {p} \ (Ours \cup {q \in Pids : proc[q] = "free"})

\* SIGTERM to each, one after the other. What tor does of it is tor's affair: to
\* end, as it may at any time, or to be wedged.
Term ==
  /\ pc = "term"
  /\ \E p \in list : list' = list \ {p} /\ hurt' = hurt \cup Bystanders(p)
  /\ pc' = IF list' = {} THEN "poll" ELSE "term"
  /\ UNCHANGED <<proc, files, ret, said, seen, stale, slain>>

\* Mutant: those that got SIGTERM get SIGKILL, without another look.
PollTheSame ==
  /\ pc = "poll" /\ list' = seen \cup ({stale} \ {NoPid})
  /\ pc' = IF list' = {} THEN "unpid" ELSE "kill"
  /\ UNCHANGED <<proc, files, ret, said, past>>

\* Until the scan finds none, or ten seconds have passed; then what a last scan finds.
Poll ==
  /\ pc = "poll" /\ list' = Ours
  /\ pc' = IF list' = {} THEN "unpid" ELSE "kill"
  /\ UNCHANGED <<proc, files, ret, said, past>>

\* Mutant: no SIGKILL after the wait.
KillNobody ==
  /\ pc = "kill" /\ pc' = "unpid" /\ list' = {}
  /\ UNCHANGED <<proc, files, ret, said, past>>

\* SIGKILL to each, one after the other.
Kill ==
  /\ pc = "kill"
  /\ \E p \in list : /\ list' = list \ {p} /\ slain' = slain \cup Bystanders(p)
                      /\ proc' = IF p \in Alive THEN [proc EXCEPT ![p] = "killed"] ELSE proc
  /\ pc' = IF list' = {} THEN "unpid" ELSE "kill"
  /\ UNCHANGED <<files, ret, said, seen, stale, hurt>>

RemovePidfile ==
  /\ pc = "unpid" /\ pidfile' = NoPid /\ pc' = ret /\ list' = {}
  /\ UNCHANGED <<proc, log, logger, ret, said, past>>

-----------------------------------------------------------------------------
(* tor, and everybody else.                                                *)

Becomes(p, kind) == proc' = [proc EXCEPT ![p] = kind]

TorBoots(p) ==
  /\ proc[p] = "boot" /\ Becomes(p, "ready") /\ pidfile' = p
  /\ log' = IF logger = p THEN "done" ELSE log
  /\ UNCHANGED <<logger, pc, memory, past>>

\* Beside a line that says "done", one that says "err" is not looked at.
TorErrs(p) ==
  /\ proc[p] = "boot" /\ log' = IF logger = p /\ log # "old" THEN "err" ELSE log
  /\ UNCHANGED <<proc, pidfile, logger, pc, memory, past>>

\* Told by a signal to end, tor removes the pidfile; a crash leaves it.
TorEnds(p) ==
  /\ p \in Ours /\ Becomes(p, "free") /\ pidfile' \in {pidfile, NoPid}
  /\ proc[p] = "killed" => pidfile' = pidfile
  /\ logger' = IF logger = p THEN NoPid ELSE logger
  /\ UNCHANGED <<log, pc, memory, past>>

OtherStarts(p) ==
  /\ proc[p] = "free" /\ Becomes(p, "other")
  /\ UNCHANGED <<files, pc, memory, past>>

OtherEnds(p) ==
  /\ proc[p] = "other" /\ Becomes(p, "free")
  /\ UNCHANGED <<files, pc, memory, past>>

\* The operator dies in the middle of it (the tor it leaves may end or not).
OperatorDies ==
  /\ pc # "idle" /\ pc' = "idle" /\ ret' = "idle" /\ list' = {} /\ said' = "none"
  /\ UNCHANGED <<proc, files, past>>

-----------------------------------------------------------------------------
Operate ==
  \/ ClearLog \/ Launch \/ CheckTor \/ WaitBootstrap
  \/ Look \/ Term \/ Poll \/ Kill \/ RemovePidfile

Outside ==
  \E p \in Pids : \/ TorBoots(p) \/ TorErrs(p) \/ TorEnds(p)
                  \/ OtherStarts(p) \/ OtherEnds(p)

Next == Operate \/ BeginStart \/ BeginStop \/ Outside \/ OperatorDies

Spec == Init /\ [][Next]_vars

-----------------------------------------------------------------------------
(* Properties.                                                             *)

\* Every variable stays in its type.
TypeOK ==
  /\ proc \in [Pids -> Kinds] /\ pidfile \in Pids \cup {NoPid}
  /\ log \in {"clear", "done", "err", "old"} /\ logger \in Pids \cup {NoPid}
  /\ pc \in {"idle", "clear", "launch", "check", "wait",
             "look", "term", "poll", "kill", "unpid"}
  /\ ret \in {"idle", "clear"} /\ list \subseteq Pids
  /\ said \in {"none", "started", "failed", "stopped"}
  /\ seen \subseteq Pids /\ stale \in Pids \cup {NoPid}
  /\ hurt \subseteq Pids /\ slain \subseteq Pids

\* A stop() that has come to its end, asked for or called by a start() that
\* failed, leaves no tor of tort's that is not dying: neither the one of the
\* pidfile nor an orphan, though a pidfile may be missing, stale or removed under
\* it, and though tor may not mind SIGTERM (tor.rs:346, 378).
NoTorLeft == pc = "idle" /\ said \in {"failed", "stopped"} => Alive = {}

\* Of the processes that are not tort's tor, one stop() signals two at most: the one
\* that has come to bear the pid in the pidfile, and the one that has come to bear
\* that of the tor it was stopping, between a scan and the signal. Nobody gets both
\* signals, and SIGKILL only who was not that tor's heir yet at the first: the scan
\* before it (tor.rs:383) spares the bearer of a stale pidfile.
OnlyAnHeirIsHurt ==
  /\ \A p \in hurt \cup slain : p = stale \/ seen = {p}
  /\ slain \subseteq seen /\ hurt \cap slain = {}

\* Seen from the tunnel, tor is one process: pids, the pidfile and the unlinked log
\* of an earlier tor never show. The state is that of whichever tor is alive.
TheTor ==
  CASE \E p \in Pids : proc[p] = "boot"   -> "boot"
    [] \E p \in Pids : proc[p] = "ready"  -> "ready"
    [] \E p \in Pids : proc[p] = "killed" -> "killed"
    [] OTHER -> "none"

Life == INSTANCE TorLife WITH tor <- TheTor

\* start() and stop(), command by command, implement the life of tor that Tunnel
\* relies on: one tor at a time, and a log that says "done" only of the tor
\* launched last.
LifeSpec == Life!LifeSpec

-----------------------------------------------------------------------------
(* What the source says and does not do (the violation run).               *)

\* "Stop the tor instance tort started - and only that one" (tor.rs:338): what it
\* signals was tort's tor when it looked.
OnlyTorIsStopped == hurt \subseteq seen
=============================================================================
