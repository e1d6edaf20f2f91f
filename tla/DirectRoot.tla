----------------------------- MODULE DirectRoot -----------------------------
(***************************************************************************)
(* Several operators at once (src/main.rs, locally): without the daemon's  *)
(* accept loop nothing keeps two `tort up` or `tort down`, or one of them  *)
(* and a daemon that is starting, from taking turns at every command. Each *)
(* operator goes through the commands of src/privileged.rs, src/netns.rs   *)
(* and src/tor.rs on its own; what they share is the kernel's objects and  *)
(* tor's log. No program is inside here: Tunnel has the programs.          *)
(***************************************************************************)
EXTENDS Integers, FiniteSets

CONSTANTS
  Operators,  \* root processes that bring the tunnel up or down
  Nobody,     \* no operator
  Watched     \* the operators whose history is kept

ASSUME OperatorsAssumption == Nobody \notin Operators /\ Watched \subseteq Operators

VARIABLES
  ns,     \* the operator whose `netns add` made the named namespace, or Nobody
  veth,   \* the veth pair: none, host (both ends here) or in
  puller, \* the operator whose `link add` made that pair, or Nobody
  rules,  \* is `table ip tort` installed?
  tor,    \* tort's tor: none, boot, ready, or killed and not gone yet
  log,    \* what TOR_LOG says: clear, done or err
  linked, \* TOR_LOG is the log of that tor, and has not been removed under it
  pc,     \* of each operator: the command it is about to run
  op,     \* of each operator: up, down, or cleanup (a daemon that starts)
  err,    \* of each operator: down()'s first_error
  said,   \* of each operator: how its last operation ended
  lone,   \* history, of each operator that brings down: nobody was at work when it
          \*   began, nobody has begun since, no command that undoes has failed it
  spare,  \* history, of such a one: when it began, the veth was on the host
  clean   \* history, of each that brings up: no command that undoes has failed it

link   == <<veth, puller>>
net    == <<ns, link, rules>>
process == <<tor, log, linked>>
kernel == <<net, process>>
task   == <<op, err>>
past   == <<lone, spare, clean>>
vars   == <<kernel, pc, task, said, past>>

Labels == {"idle", "exists", "add", "link", "move", "conf", "rbNs", "rbLink",
           "orphan", "clear", "launch", "check", "wait", "apply", "verify",
           "failStop", "failDestroy", "pids", "remove", "stop", "destroy", "after"}

Named  == ns # Nobody
IsUp   == Named /\ rules /\ tor # "none"
Works  == Named /\ veth = "in" /\ rules /\ tor = "ready"
Absent == ~Named /\ ~rules /\ tor = "none"

-----------------------------------------------------------------------------
Init ==
  /\ ns = Nobody /\ veth = "none" /\ puller = Nobody /\ rules = FALSE
  /\ tor = "none" /\ log = "clear" /\ linked = FALSE
  /\ pc = [o \in Operators |-> "idle"] /\ said = [o \in Operators |-> "none"]
  /\ op = [o \in Operators |-> "none"] /\ err = [o \in Operators |-> FALSE]
  /\ lone = [o \in Operators |-> FALSE] /\ spare = [o \in Operators |-> FALSE]
  /\ clean = [o \in Operators |-> FALSE]

Goto(o, l) == pc' = [pc EXCEPT ![o] = l]

End(o, r) ==
  /\ Goto(o, "idle") /\ said' = [said EXCEPT ![o] = r]
  /\ op' = [op EXCEPT ![o] = "none"] /\ err' = [err EXCEPT ![o] = FALSE]

\* The usual step: a command that worked.
Done(o, from, to) ==
  pc[o] = from /\ Goto(o, to) /\ UNCHANGED <<task, said, past>>

\* A command that undoes something has failed o, which goes on all the same, or o has
\* been interrupted: no more is asked of it.
Missed(o) ==
  /\ lone' = [lone EXCEPT ![o] = FALSE] /\ spare' = [spare EXCEPT ![o] = FALSE]
  /\ clean' = [clean EXCEPT ![o] = FALSE]

Begin(o, request, l) ==
  /\ pc[o] = "idle" /\ Goto(o, l) /\ op' = [op EXCEPT ![o] = request]
  /\ err' = [err EXCEPT ![o] = FALSE] /\ said' = [said EXCEPT ![o] = "none"]
  /\ lone' = [q \in Operators |->
       /\ q = o /\ q \in Watched /\ request # "up"
       /\ \A r \in Operators \ {o} : pc[r] = "idle"]
  /\ spare' = [q \in Operators |-> lone'[q] /\ veth = "host"]
  /\ clean' = [clean EXCEPT ![o] = o \in Watched /\ request = "up"]
  /\ UNCHANGED kernel

-----------------------------------------------------------------------------
(* up().                                                                   *)

\* `up` of a tunnel that is up says so, and does nothing.
BeginUp(o) == ~IsUp /\ Begin(o, "up", "exists")

\* create() looks, and then adds: another may have added by then.
Exists(o) ==
  /\ \/ ~Named /\ Done(o, "exists", "add")
     \/ /\ pc[o] = "exists" /\ End(o, "refused") /\ UNCHANGED past
  /\ UNCHANGED kernel

AddNs(o) ==
  /\ \/ ~Named /\ ns' = o /\ Done(o, "add", "link")
     \/ Done(o, "add", "rbNs") /\ UNCHANGED ns
  /\ UNCHANGED <<link, rules, process>>

AddVeth(o) ==
  /\ \/ veth = "none" /\ veth' = "host" /\ puller' = o /\ Done(o, "link", "move")
     \/ Done(o, "link", "rbNs") /\ UNCHANGED link
  /\ UNCHANGED <<ns, rules, process>>

MoveVeth(o) ==
  /\ \/ Named /\ veth = "host" /\ veth' = "in" /\ Done(o, "move", "conf")
     \/ Done(o, "move", "rbNs") /\ UNCHANGED veth
  /\ UNCHANGED <<ns, puller, rules, process>>

Configure(o) ==
  /\ \/ Named /\ veth = "in" /\ Done(o, "conf", "orphan")
     \/ Done(o, "conf", "rbNs")
  /\ UNCHANGED kernel

\* `ip netns delete`: the end of the veth that is inside goes with it.
DeleteNs ==
  /\ ns' = Nobody
  /\ IF veth = "in" THEN veth' = "none" /\ puller' = Nobody ELSE UNCHANGED link

\* Mutant: the rollback ends where `ip netns delete` finds no namespace.
RollbackStops(o) ==
  /\ pc[o] = "rbNs"
  /\ \/ Named /\ DeleteNs /\ Goto(o, "rbLink") /\ UNCHANGED <<task, said, past>>
     \/ ~Named /\ End(o, "failed") /\ UNCHANGED <<ns, link, past>>
  /\ UNCHANGED <<rules, process>>

\* The rollback deletes the name, whoever made it; its status is not read.
RollbackNs(o) ==
  /\ pc[o] = "rbNs" /\ Goto(o, "rbLink")
  /\ \/ DeleteNs /\ UNCHANGED past
     \/ Named /\ UNCHANGED <<ns, link>> /\ Missed(o)
  /\ UNCHANGED <<rules, process, task, said>>

RollbackLink(o) ==
  /\ pc[o] = "rbLink" /\ End(o, "failed")
  /\ \/ veth' = "none" /\ puller' = Nobody /\ UNCHANGED past
     \/ veth # "none" /\ UNCHANGED link /\ Missed(o)
  /\ UNCHANGED <<ns, rules, process>>

\* tor::stop: a tor that outlives SIGKILL is left dying.
StopTor(o) ==
  \/ tor' = "none" /\ linked' = FALSE /\ UNCHANGED <<log, past>>
  \/ tor # "none" /\ tor' = "killed" /\ UNCHANGED <<log, linked>> /\ Missed(o)

ClearOrphan(o) ==
  /\ pc[o] = "orphan" /\ Goto(o, "clear") /\ StopTor(o)
  /\ UNCHANGED <<net, task, said>>

\* Removing the log under another's tor leaves that one writing to no file. A log that
\* would not go is left as it is (tor.rs:158).
ClearLog(o) ==
  /\ \/ Done(o, "clear", "launch") /\ log' = "clear" /\ linked' = FALSE
     \/ Done(o, "clear", "launch") /\ UNCHANGED <<log, linked>>
     \/ Done(o, "clear", "failStop") /\ UNCHANGED <<log, linked>>
  /\ UNCHANGED <<net, tor>>

Launch(o) ==
  /\ \/ tor = "none" /\ tor' = "boot" /\ linked' = TRUE /\ Done(o, "launch", "check")
     \/ Done(o, "launch", "failStop") /\ UNCHANGED <<tor, linked>>
  /\ UNCHANGED <<net, log>>

CheckTor(o) ==
  /\ Done(o, "check", IF tor # "none" THEN "wait" ELSE "failStop")
  /\ UNCHANGED kernel

\* Mutant: the wait for tor has no deadline.
WaitForEver(o) ==
  /\ log # "clear" \/ tor = "none"
  /\ Done(o, "wait", IF log = "done" THEN "apply" ELSE "failStop")
  /\ UNCHANGED kernel

\* Done, a fatal error, no tor, or 120 seconds.
WaitBootstrap(o) ==
  /\ Done(o, "wait", IF log = "done" THEN "apply" ELSE "failStop")
  /\ UNCHANGED kernel

\* `nft -f` begins with deleting a table of that name: once or twice is the same.
ApplyRules(o) ==
  /\ \/ rules' = TRUE /\ Done(o, "apply", "verify")
     \/ Done(o, "apply", "failStop") /\ UNCHANGED rules
  /\ UNCHANGED <<ns, link, process>>

FailStop(o) ==
  /\ pc[o] = "failStop" /\ Goto(o, "failDestroy") /\ StopTor(o)
  /\ UNCHANGED <<net, task, said>>

\* netns::destroy, its result unread.
FailDestroy(o) ==
  /\ pc[o] = "failDestroy" /\ End(o, "failed")
  /\ \/ DeleteNs /\ UNCHANGED past
     \/ Named /\ UNCHANGED <<ns, link>> /\ Missed(o)
  /\ UNCHANGED <<rules, process>>

\* up_and_verify: a probe that cannot be run at all leaves things as they are.
Verify(o) ==
  /\ \/ Done(o, "verify", "pids")
     \/ /\ pc[o] = "verify" /\ UNCHANGED past
        /\ End(o, "left") \/ (Works /\ End(o, "up"))
  /\ UNCHANGED kernel

-----------------------------------------------------------------------------
(* down(), for cmd_down, for an `up` that could not be verified and for a  *)
(* daemon that starts.                                                     *)

BeginDown(o) == ~Absent /\ Begin(o, "down", "pids")

\* serve(): what looks like half a tunnel may be another's `up` under way.
BeginCleanup(o) == (Named \/ rules) /\ ~IsUp /\ Begin(o, "cleanup", "pids")

\* stop_processes() lists those inside, which fails when the name goes between
\* its look and `ip netns pids`, and then nothing else is done.
StopProcesses(o) ==
  /\ \/ Done(o, "pids", "remove")
     \/ /\ pc[o] = "pids" /\ Goto(o, "after") /\ Missed(o)
        /\ err' = [err EXCEPT ![o] = TRUE] /\ UNCHANGED <<op, said>>
  /\ UNCHANGED kernel

\* One step of down(): it is done, or its error is kept and the next one tried.
Step(o, from, to, Doing, Undone) ==
  /\ pc[o] = from /\ Goto(o, to)
  /\ \/ Doing /\ UNCHANGED <<err, past>>
     \/ Undone /\ err' = [err EXCEPT ![o] = TRUE] /\ Missed(o)
  /\ UNCHANGED <<op, said, process>>

RemoveRules(o) ==
  /\ Step(o, "remove", "stop", rules' = FALSE, UNCHANGED rules)
  /\ UNCHANGED <<ns, link>>

\* Mutant: a tor with no namespace is left to itself.
StopTorOfNs(o) ==
  /\ pc[o] = "stop" /\ Goto(o, "destroy")
  /\ IF Named THEN StopTor(o) ELSE UNCHANGED <<process, past>>
  /\ UNCHANGED <<net, task, said>>

DownStopTor(o) ==
  /\ pc[o] = "stop" /\ Goto(o, "destroy") /\ StopTor(o)
  /\ UNCHANGED <<net, task, said>>

\* An error here too when another's `down` takes the name first.
DestroyNs(o) ==
  /\ Step(o, "destroy", "after", DeleteNs, UNCHANGED <<ns, link>>)
  /\ UNCHANGED rules

\* cmd_down reads the kernel again before it says that tort is down; a daemon
\* that starts does not, and up_and_verify does not care.
After(o) ==
  /\ pc[o] = "after"
  /\ End(o, IF op[o] = "up" THEN "failed"
            ELSE IF err[o] \/ (op[o] = "down" /\ ~Absent) THEN "notDown" ELSE "down")
  /\ UNCHANGED <<kernel, past>>

-----------------------------------------------------------------------------
(* tor, and operators that are interrupted.                                *)

TorBoots ==
  /\ tor = "boot" /\ tor' = "ready" /\ log' = IF linked THEN "done" ELSE log
  /\ UNCHANGED <<net, linked, pc, task, said, past>>

TorErrs ==
  /\ tor = "boot" /\ linked /\ log # "done" /\ log' = "err"
  /\ UNCHANGED <<net, tor, linked, pc, task, said, past>>

TorDies ==
  /\ tor # "none" /\ tor' = "none" /\ linked' = FALSE
  /\ UNCHANGED <<net, log, pc, task, said, past>>

Interrupt(o) ==
  /\ pc[o] # "idle" /\ End(o, "none") /\ UNCHANGED kernel /\ Missed(o)

-----------------------------------------------------------------------------
UpStep(o) ==
  \/ Exists(o) \/ AddNs(o) \/ AddVeth(o) \/ MoveVeth(o) \/ Configure(o)
  \/ RollbackNs(o) \/ RollbackLink(o)
  \/ ClearOrphan(o) \/ ClearLog(o) \/ Launch(o) \/ CheckTor(o) \/ WaitBootstrap(o)
  \/ ApplyRules(o) \/ FailStop(o) \/ FailDestroy(o) \/ Verify(o)

DownStep(o) == StopProcesses(o) \/ RemoveRules(o) \/ DownStopTor(o) \/ DestroyNs(o) \/ After(o)

Work(o) == pc[o] # "idle" /\ (UpStep(o) \/ DownStep(o))

Next ==
  \/ \E o \in Operators : \/ BeginUp(o) \/ BeginDown(o) \/ BeginCleanup(o)
                          \/ Work(o) \/ Interrupt(o)
  \/ TorBoots \/ TorErrs \/ TorDies

Spec     == Init /\ [][Next]_vars
FairSpec == Spec /\ \A o \in Operators : WF_vars(Work(o))

-----------------------------------------------------------------------------
(* Properties.                                                             *)

\* Every variable stays in its type; a veth that is inside has a namespace, and one
\* that is anywhere was made by somebody.
TypeOK ==
  /\ ns \in Operators \cup {Nobody} /\ veth \in {"none", "host", "in"}
  /\ puller \in Operators \cup {Nobody} /\ rules \in BOOLEAN /\ linked \in BOOLEAN
  /\ tor \in {"none", "boot", "ready", "killed"} /\ log \in {"clear", "done", "err"}
  /\ pc \in [Operators -> Labels] /\ err \in [Operators -> BOOLEAN]
  /\ op \in [Operators -> {"none", "up", "down", "cleanup"}]
  /\ lone \in [Operators -> BOOLEAN] /\ spare \in [Operators -> BOOLEAN]
  /\ clean \in [Operators -> BOOLEAN]
  /\ said \in [Operators ->
       {"none", "refused", "up", "failed", "left", "down", "notDown"}]
  /\ veth = "in" => Named
  /\ veth = "none" <=> puller = Nobody

\* Whatever mess operators have made of each other's work, or left when they were
\* interrupted, a `tort down` that nobody disturbs and none of whose commands fails
\* says that tort is down, and takes away the namespace, the rules and tor, and of
\* the veth whatever was inside: what is left is a link that was on the host before
\* it began, which it neither looks for nor deletes, against the word of netns.rs:122
\* (main.rs:208, privileged.rs:114).
\* So with a daemon that starts (daemon.rs:50).
LoneDownCleans ==
  \A o \in Operators :
    pc[o] = "idle" /\ lone[o] /\ said[o] \in {"down", "notDown"}
      => said[o] = "down" /\ Absent /\ veth = (IF spare[o] THEN "host" ELSE "none")

\* An `up` that fails has undone the namespace and the link that it made itself,
\* whatever other operators did between its commands (took the name under it, made
\* one of their own, moved its link into theirs), unless a command that undoes
\* failed it (netns.rs:57, privileged.rs:84).
OwnNetIsUndone ==
  \A o \in Operators :
    pc[o] = "idle" /\ clean[o] /\ said[o] = "failed" => ns # o /\ puller # o

\* Every operator comes to its end, whatever the others do to what it waits for:
\* one that removes the log under another's tor leaves that other waiting for a
\* line nobody will write, and only its deadline ends the wait (tor.rs:158, 219).
EveryOperatorEnds == \A o \in Operators : pc[o] # "idle" ~> pc[o] = "idle"

=============================================================================
