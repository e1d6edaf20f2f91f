------------------------------- MODULE Tunnel -------------------------------
(***************************************************************************)
(* The life of the tunnel: the daemon's accept loop (src/daemon.rs) doing  *)
(* `up`, `down`, its startup cleanup and its probes (src/privileged.rs,    *)
(* src/netns.rs, src/tor.rs, src/nft.rs, src/run.rs), one action per       *)
(* command that can fail or be overtaken, interleaved with everything that *)
(* does not wait for the accept loop: tor itself, the programs and probes  *)
(* that enter the namespace, the kernel reaping a dead namespace, and the  *)
(* death of the daemon at any point.                                       *)
(***************************************************************************)
EXTENDS Integers, FiniteSets

CONSTANTS
  Procs,      \* programs and probes that may enter the namespace
  MaxNs,      \* bound: network namespaces created over a behaviour
  MaxCrashes  \* bound: deaths of the daemon over a behaviour

ASSUME BoundsAssumption == MaxNs \in Nat /\ MaxCrashes \in Nat

-----------------------------------------------------------------------------
(* State.                                                                  *)

VARIABLES
  \* What the kernel holds.
  named,     \* the namespace /var/run/netns/tort names, 0 when the name is absent
  made,      \* namespaces created so far; each is a number of its own
  veth,      \* the veth pair: NoVeth, OnHost, or the namespace its peer is in
  rules,     \* is `table ip tort` installed?
  tor,       \* tort's own tor process
  log,       \* what tor's log says about this start; "old": what it said of an earlier
  phase,     \* of each program or probe: how far it has come on its way in
  ns,        \* of each program or probe: the namespace it has opened or entered
  \* What the daemon is doing.
  pc,        \* the command the accept loop is about to run
  op,        \* the request it runs it for
  err,       \* down()'s first_error
  probe,     \* the probes the accept loop is waiting for
  \* What it said, and history the properties read.
  verified,  \* the present tunnel was confirmed to exit through Tor
  reply,     \* the outcome of the last operation
  late,      \* those inside that came in while no tunnel stood
  mishaps,   \* failures since an `up` last began with nothing left over
  crashes    \* deaths of the daemon so far

net   == <<named, made, veth>>
daemn == <<tor, log>>
procs == <<phase, ns, late>>
task  == <<op, err, probe>>
said  == <<verified, reply, mishaps, crashes>>
vars  == <<net, rules, daemn, procs, pc, task, said>>

NoVeth == 0
OnHost == -1

Phases  == {"off", "forked", "opened", "inside"}
Labels  == {"dead", "idle", "probe",
            "add", "link", "move", "conf", "rbNs", "rbLink",
            "orphan", "launch", "check", "wait", "apply",
            "failStop", "failDestroy", "verify",
            "term", "wait1", "kill", "wait2", "remove", "stop", "destroy"}
Replies == {"none", "upOk", "upAlready", "upRefused", "upFailed", "upLeft",
            "downOk", "downFailed", "cleaned", "notCleaned", "probed"}
Mishaps == {"probe", "stuck", "undo", "crash"}

Running == {"boot", "ready", "killed"}  \* listed by our_tor_processes
Live    == {"boot", "ready"}            \* and not already dying of SIGKILL

IsUp    == named # 0 /\ rules /\ tor \in Running

\* What `ip netns pids` lists: nothing at all once the name is gone.
Pids    == {p \in Procs : phase[p] = "inside" /\ named # 0 /\ ns[p] = named}

\* A namespace lives on while it is named, open or inhabited.
Held(n) == named = n \/ \E p \in Procs : phase[p] \in {"opened", "inside"} /\ ns[p] = n

\* Nothing left of a tunnel, and nothing about to reappear.
Clean   == named = 0 /\ ~rules /\ tor \notin Live /\ veth # OnHost

Works   == rules /\ tor = "ready" /\ named # 0 /\ veth = named

\* The labels at which a tunnel stands: the accept loop is neither building one
\* nor past the point of down() at which the namespace was found empty.
Standings == {"dead", "idle", "probe", "verify", "term", "wait1", "kill", "wait2"}
Standing  == rules /\ pc \in Standings

-----------------------------------------------------------------------------
Init ==
  /\ named = 0 /\ made = 0 /\ veth = NoVeth
  /\ rules = FALSE /\ tor = "none" /\ log = "clear"
  /\ phase = [p \in Procs |-> "off"] /\ ns = [p \in Procs |-> 0] /\ late = {}
  /\ pc = "dead" /\ op = "none" /\ err = FALSE /\ probe = {}
  /\ verified = FALSE /\ reply = "none" /\ mishaps = {} /\ crashes = 0

Goto(l) == pc' = l

Finish(r) ==
  /\ pc' = "idle" /\ op' = "none" /\ err' = FALSE /\ probe' = {}
  /\ reply' = r

-----------------------------------------------------------------------------
(* up(): netns::create, and its rollback.                                  *)

BeginUp ==
  /\ pc = "idle"
  /\ IF IsUp
       THEN Finish("upAlready") /\ UNCHANGED <<verified, mishaps>>
       ELSE \/ named # 0 /\ Finish("upRefused")      \* netns::create bails
               /\ UNCHANGED <<verified, mishaps>>
            \/ Finish("upRefused")                    \* tor is not installed
               /\ UNCHANGED <<verified, mishaps>>
            \/ /\ named = 0 /\ made < MaxNs
               /\ Goto("add") /\ op' = "up" /\ reply' = "none"
               /\ verified' = FALSE
               /\ mishaps' = IF Clean THEN {} ELSE mishaps
               /\ UNCHANGED <<err, probe>>
  /\ UNCHANGED <<net, rules, daemn, procs, crashes>>

AddNs ==
  /\ pc = "add"
  /\ \/ made' = made + 1 /\ named' = made' /\ Goto("link")
     \/ Goto("rbNs") /\ UNCHANGED <<named, made>>
  /\ UNCHANGED <<veth, rules, daemn, procs, task, said>>

AddVeth ==
  /\ pc = "link"
  /\ \/ veth = NoVeth /\ veth' = OnHost /\ Goto("move")
     \/ Goto("rbNs") /\ UNCHANGED veth                \* also: File exists
  /\ UNCHANGED <<named, made, rules, daemn, procs, task, said>>

MoveVeth ==
  /\ pc = "move"
  /\ \/ veth' = named /\ Goto("conf")
     \/ Goto("rbNs") /\ UNCHANGED veth
  /\ UNCHANGED <<named, made, rules, daemn, procs, task, said>>

\* Addresses, links up, the default route, resolv.conf: any of them may fail.
Configure ==
  /\ pc = "conf"
  /\ Goto("orphan") \/ Goto("rbNs")
  /\ UNCHANGED <<net, rules, daemn, procs, task, said>>

\* Mutant: the rollback forgets the host side of the veth.
RollbackForgetsLink ==
  /\ pc = "rbNs" /\ Finish("upFailed") /\ named' = 0
  /\ UNCHANGED <<made, veth, rules, daemn, procs, verified, mishaps, crashes>>

\* create()'s two rollback commands, whose exit status nobody reads. Deleting a
\* name that is absent fails, and leaves things as they should be.
RollbackNs ==
  /\ pc = "rbNs" /\ Goto("rbLink")
  /\ \/ named' = 0 /\ UNCHANGED mishaps
     \/ named # 0 /\ mishaps' = mishaps \cup {"undo"} /\ UNCHANGED named
  /\ UNCHANGED <<made, veth, rules, daemn, procs, task, verified, reply, crashes>>

RollbackLink ==
  /\ pc = "rbLink" /\ Finish("upFailed")
  /\ \/ veth' = NoVeth /\ UNCHANGED mishaps
     \/ veth # NoVeth /\ mishaps' = mishaps \cup {"undo"} /\ UNCHANGED veth
  /\ UNCHANGED <<named, made, rules, daemn, procs, verified, crashes>>

-----------------------------------------------------------------------------
(* up(): tor::start, nft::apply, and the teardown of a failed start.       *)

\* Mutant: SIGTERM, and no SIGKILL for a tor that does not mind it.
StopTorPolitely == tor' \in {"none", tor}

\* tor::stop: SIGTERM, ten seconds, SIGKILL to what is left, and Ok whatever
\* became of it.
StopTor == tor' \in IF tor = "none" THEN {"none"} ELSE {"none", "killed"}

ClearOrphan ==
  /\ pc = "orphan" /\ Goto("launch") /\ StopTor
  /\ UNCHANGED <<net, rules, log, procs, task, said>>

\* Mutant: the previous run's log is left in place.
LaunchKeepsLog ==
  /\ pc = "launch" /\ UNCHANGED log
  /\ \/ tor = "none" /\ tor' = "boot" /\ Goto("check")
     \/ Goto("failStop") /\ UNCHANGED tor
  /\ UNCHANGED <<net, rules, procs, task, said>>

\* The log is removed, its failure ignored (tor.rs:158), then tor launched; a tor
\* still holding the ports makes the new one refuse.
Launch ==
  /\ pc = "launch" /\ log' \in {"clear", IF log = "done" THEN "old" ELSE log}
  /\ \/ tor = "none" /\ tor' = "boot" /\ Goto("check")
     \/ Goto("failStop") /\ UNCHANGED tor
  /\ UNCHANGED <<net, rules, procs, task, said>>

CheckTor ==
  /\ pc = "check"
  /\ Goto(IF tor \in Running THEN "wait" ELSE "failStop")
  /\ UNCHANGED <<net, rules, daemn, procs, task, said>>

\* One poll of wait_for_bootstrap, in the order the code looks: done, a fatal
\* error, a dead tor, the deadline.
WaitBootstrap ==
  /\ pc = "wait"
  /\ Goto(IF log \in {"done", "old"} THEN "apply" ELSE "failStop")
  /\ UNCHANGED <<net, rules, daemn, procs, task, said>>

ApplyRules ==
  /\ pc = "apply"
  /\ \/ rules' = TRUE /\ Goto("verify")
     \/ Goto("failStop") /\ UNCHANGED rules
  /\ UNCHANGED <<net, daemn, procs, task, said>>

FailStop ==
  /\ pc = "failStop" /\ Goto("failDestroy") /\ StopTor
  /\ UNCHANGED <<net, rules, log, procs, task, said>>

FailDestroy ==
  /\ pc = "failDestroy" /\ Finish("upFailed")
  /\ \/ named' = 0 /\ UNCHANGED mishaps
     \/ mishaps' = mishaps \cup {"undo"} /\ UNCHANGED named
  /\ UNCHANGED <<made, veth, rules, daemn, procs, verified, crashes>>

\* Mutant: "could not check" taken for a pass.
VerifyTrusting ==
  /\ pc = "verify"
  /\ \/ Works /\ Finish("upOk") /\ verified' = TRUE /\ UNCHANGED mishaps
     \/ Finish("upOk") /\ UNCHANGED <<verified, mishaps>>
     \/ Finish("upLeft") /\ mishaps' = mishaps \cup {"probe"} /\ UNCHANGED verified
  /\ UNCHANGED <<net, rules, daemn, procs, crashes>>

\* up_and_verify: only a confirmed tunnel is announced, an unconfirmed one is
\* torn down, and a probe that could not be run at all returns early.
Verify ==
  /\ pc = "verify"
  /\ \/ Works /\ Finish("upOk") /\ verified' = TRUE /\ UNCHANGED mishaps
     \/ Goto("term") /\ UNCHANGED <<task, reply, verified, mishaps>>
     \/ Finish("upLeft") /\ mishaps' = mishaps \cup {"probe"} /\ UNCHANGED verified
  /\ UNCHANGED <<net, rules, daemn, procs, crashes>>

-----------------------------------------------------------------------------
(* down(): also the teardown of an unconfirmed tunnel, and startup cleanup. *)

BeginDown ==
  /\ pc = "idle" /\ Goto("term") /\ op' = "down" /\ reply' = "none"
  /\ UNCHANGED <<net, rules, daemn, procs, err, probe, verified, mishaps, crashes>>

\* Whoever called down(): up_and_verify ignores its result, `down` reports it,
\* and serve() logs it.
EndTeardown(bad) ==
  \/ op = "up" /\ Finish("upFailed")
  \/ op = "down" /\ Finish(IF bad THEN "downFailed" ELSE "downOk")
  \/ op \notin {"up", "down"} /\ Finish(IF bad THEN "notCleaned" ELSE "cleaned")

\* stop_processes: SIGTERM, up to five seconds, SIGKILL, up to two more. A
\* program told to stop may take its time, so its going is an action of its own.
Term ==
  /\ pc = "term" /\ Goto(IF Pids = {} THEN "remove" ELSE "wait1")
  /\ UNCHANGED <<net, rules, daemn, procs, task, said>>

\* Mutant: whoever outlasts the polite wait is taken to have gone.
Wait1Trusting ==
  /\ pc = "wait1" /\ Goto("remove")
  /\ UNCHANGED <<net, rules, daemn, procs, task, said>>

Wait1 ==
  /\ pc = "wait1" /\ Goto(IF Pids = {} THEN "remove" ELSE "kill")
  /\ UNCHANGED <<net, rules, daemn, procs, task, said>>

\* SIGKILL: some of them may not be gone by the time anybody looks.
Kill ==
  /\ pc = "kill" /\ Goto("wait2")
  /\ \E gone \in SUBSET Pids :
       /\ phase' = [p \in Procs |-> IF p \in gone THEN "off" ELSE phase[p]]
       /\ ns' = [p \in Procs |-> IF p \in gone THEN 0 ELSE ns[p]]
       /\ late' = late \ gone
  /\ UNCHANGED <<net, rules, daemn, task, said>>

Wait2 ==
  /\ pc = "wait2" /\ Pids = {} /\ Goto("remove")
  /\ UNCHANGED <<net, rules, daemn, procs, task, said>>

\* Mutant: down() drops the error of stop_processes and goes on.
GiveUpOnNothing ==
  /\ \/ pc \in {"term", "wait1", "kill", "wait2"} /\ named # 0
     \/ pc = "wait2" /\ Pids # {}
  /\ Goto("remove")
  /\ UNCHANGED <<net, rules, daemn, procs, task, said>>

\* Mutant: the second wait has no deadline.
GiveUpBeforeWaiting ==
  /\ pc \in {"term", "wait1", "kill"} /\ named # 0
  /\ EndTeardown(TRUE) /\ mishaps' = mishaps \cup {"stuck"}
  /\ UNCHANGED <<net, rules, daemn, procs, verified, crashes>>

\* Survivors after the second wait, or `ip netns pids` failing at any look:
\* stop_processes returns an error and down() stops there.
GiveUp ==
  /\ \/ pc \in {"term", "wait1", "kill", "wait2"} /\ named # 0
     \/ pc = "wait2" /\ Pids # {}
  /\ EndTeardown(TRUE) /\ mishaps' = mishaps \cup {"stuck"}
  /\ UNCHANGED <<net, rules, daemn, procs, verified, crashes>>

\* Mutant: an nft that fails to remove the table is not recorded.
RemoveRulesQuietly ==
  /\ pc = "remove" /\ Goto("stop")
  /\ \/ rules' = FALSE /\ UNCHANGED mishaps
     \/ mishaps' = mishaps \cup {"undo"} /\ UNCHANGED rules
  /\ UNCHANGED <<net, daemn, procs, task, verified, reply, crashes>>

RemoveRules ==
  /\ pc = "remove" /\ Goto("stop")
  /\ \/ rules' = FALSE /\ UNCHANGED <<err, mishaps>>
     \/ err' = TRUE /\ mishaps' = mishaps \cup {"undo"} /\ UNCHANGED rules
  /\ UNCHANGED <<net, daemn, procs, op, probe, verified, reply, crashes>>

DownStopTor ==
  /\ pc = "stop" /\ Goto("destroy") /\ StopTor
  /\ UNCHANGED <<net, rules, log, procs, task, said>>

\* netns::destroy: the name goes; what it named lives on while it is Held.
DestroyNs ==
  /\ pc = "destroy"
  /\ \/ named' = 0 /\ EndTeardown(err) /\ UNCHANGED mishaps
     \/ /\ named # 0 /\ EndTeardown(TRUE)
        /\ mishaps' = mishaps \cup {"undo"} /\ UNCHANGED named
  /\ UNCHANGED <<made, veth, rules, daemn, procs, verified, crashes>>

-----------------------------------------------------------------------------
(* The other requests: a program or a probe on its way into the namespace. *)

\* `run`, and the refresh a `status` starts on a thread: both look at the three
\* pieces first, and neither holds the accept loop afterwards.
StartRun(p) ==
  /\ pc = "idle" /\ IsUp /\ phase[p] = "off"
  /\ phase' = [phase EXCEPT ![p] = "forked"]
  /\ UNCHANGED <<net, rules, daemn, ns, late, pc, task, said>>

\* `verify` and `onion` look at nothing, and hold the accept loop until the
\* probe ends; so does a `status` with nothing cached, which does look.
StartProbe(p) ==
  /\ pc = "idle" /\ phase[p] = "off"
  /\ phase' = [phase EXCEPT ![p] = "forked"]
  /\ Goto("probe") /\ op' = "probe" /\ probe' = {p} /\ reply' = "none"
  /\ UNCHANGED <<net, rules, daemn, ns, late, err, verified, mishaps, crashes>>

ProbeDone ==
  /\ pc = "probe" /\ \A p \in probe : phase[p] = "off"
  /\ Finish("probed")
  /\ UNCHANGED <<net, rules, daemn, procs, verified, mishaps, crashes>>

\* Mutant: a name that is absent is opened all the same.
OpenAnyway(p) ==
  /\ phase[p] = "forked"
  /\ phase' = [phase EXCEPT ![p] = "opened"] /\ ns' = [ns EXCEPT ![p] = named]
  /\ UNCHANGED <<net, rules, daemn, late, pc, task, said>>

\* netns::enter: open the name ...
Open(p) ==
  /\ phase[p] = "forked"
  /\ IF named = 0
       THEN phase' = [phase EXCEPT ![p] = "off"] /\ UNCHANGED ns
       ELSE /\ phase' = [phase EXCEPT ![p] = "opened"]
            /\ ns' = [ns EXCEPT ![p] = named]
  /\ UNCHANGED <<net, rules, daemn, late, pc, task, said>>

\* ... then setns into whatever was opened, named or not by now.
SetNs(p) ==
  /\ phase[p] = "opened"
  /\ phase' = [phase EXCEPT ![p] = "inside"]
  /\ late' = IF Standing /\ ns[p] = named THEN late ELSE late \cup {p}
  /\ UNCHANGED <<net, rules, daemn, ns, pc, task, said>>

\* A program inside starts another.
ForkInside(p, q) ==
  /\ phase[p] = "inside" /\ phase[q] = "off" /\ q \notin probe
  /\ phase' = [phase EXCEPT ![q] = "inside"]
  /\ ns' = [ns EXCEPT ![q] = ns[p]]
  /\ late' = IF p \in late THEN late \cup {q} ELSE late
  /\ UNCHANGED <<net, rules, daemn, pc, task, said>>

Exit(p) ==
  /\ phase[p] # "off"
  /\ phase' = [phase EXCEPT ![p] = "off"]
  /\ ns' = [ns EXCEPT ![p] = 0]
  /\ late' = late \ {p}
  /\ UNCHANGED <<net, rules, daemn, pc, task, said>>

-----------------------------------------------------------------------------
(* tor, the kernel, and the death of the daemon.                           *)

TorBoots ==
  /\ tor = "boot" /\ tor' = "ready" /\ log' = "done"
  /\ UNCHANGED <<net, rules, procs, pc, task, said>>

TorErr ==
  /\ tor = "boot" /\ log # "old" /\ log' = "err"
  /\ UNCHANGED <<net, rules, tor, procs, pc, task, said>>

TorDies ==
  /\ tor \in Running /\ tor' = "none"
  /\ UNCHANGED <<net, rules, log, procs, pc, task, said>>

Reap ==
  /\ veth \in 1..MaxNs /\ ~Held(veth) /\ veth' = NoVeth
  /\ UNCHANGED <<named, made, rules, daemn, procs, pc, task, said>>

\* systemd takes tor and every program with it (the service's control group);
\* a daemon started by hand dies alone.
Crash ==
  /\ pc # "dead" /\ crashes < MaxCrashes
  /\ pc' = "dead" /\ op' = "none" /\ err' = FALSE /\ probe' = {}
  /\ reply' = "none" /\ crashes' = crashes + 1
  /\ mishaps' = mishaps \cup {"crash"}
  /\ \/ UNCHANGED <<daemn, procs>>
     \/ /\ tor' = "none" /\ late' = {}
        /\ phase' = [p \in Procs |-> "off"] /\ ns' = [p \in Procs |-> 0]
        /\ UNCHANGED log
  /\ UNCHANGED <<net, rules, verified>>

\* serve(): a partial tunnel is cleaned up, a whole one is kept.
Restart ==
  /\ pc = "dead"
  /\ IF (named # 0 \/ rules) /\ ~IsUp
       THEN Goto("term") /\ op' = "cleanup"
       ELSE Goto("idle") /\ UNCHANGED op
  /\ UNCHANGED <<net, rules, daemn, procs, err, probe, said>>

-----------------------------------------------------------------------------
UpStep ==
  \/ AddNs \/ AddVeth \/ MoveVeth \/ Configure \/ RollbackNs \/ RollbackLink
  \/ ClearOrphan \/ Launch \/ CheckTor \/ WaitBootstrap \/ ApplyRules
  \/ FailStop \/ FailDestroy \/ Verify

DownStep ==
  \/ Term \/ Wait1 \/ Kill \/ Wait2 \/ GiveUp
  \/ RemoveRules \/ DownStopTor \/ DestroyNs

\* What the accept loop does of its own accord once it has begun.
Serve == UpStep \/ DownStep \/ ProbeDone \/ Restart

Request ==
  \/ BeginUp \/ BeginDown
  \/ \E p \in Procs : StartRun(p) \/ StartProbe(p)

Program ==
  \E p \in Procs : \/ Open(p) \/ SetNs(p) \/ Exit(p)
                   \/ \E q \in Procs : ForkInside(p, q)

Outside == TorBoots \/ TorErr \/ TorDies \/ Reap \/ Crash

Next == Serve \/ Request \/ Program \/ Outside

\* Every command the daemon runs returns, every wait of its has a deadline, and
\* systemd restarts it; a probe's HTTP client gives up after 30 or 60 seconds.
Fairness ==
  /\ WF_vars(Serve)
  /\ \A p \in Procs : WF_vars(p \in probe /\ Exit(p))

Spec == Init /\ [][Next]_vars
FairSpec == Spec /\ Fairness

-----------------------------------------------------------------------------
(* Properties.                                                             *)

\* Every variable stays in its type.
TypeOK ==
  /\ named \in Nat /\ made \in Nat /\ veth \in Int
  /\ rules \in BOOLEAN
  /\ tor \in {"none", "boot", "ready", "killed"}
  /\ log \in {"clear", "done", "err", "old"}
  /\ phase \in [Procs -> Phases] /\ ns \in [Procs -> Nat] /\ late \subseteq Procs
  /\ \A p \in Procs : ns[p] # 0 <=> phase[p] \in {"opened", "inside"}
  /\ pc \in Labels /\ op \in {"none", "up", "down", "cleanup", "probe"}
  /\ err \in BOOLEAN /\ probe \subseteq Procs
  /\ verified \in BOOLEAN /\ reply \in Replies
  /\ mishaps \subseteq Mishaps /\ crashes \in Nat

\* A program in a namespace with no rules over it, or in one that has lost its
\* name, is one that came in while no tunnel stood: whatever fails, survives its
\* signals or crashes, down() never takes the filter or the name from around a
\* program that entered a standing tunnel (stop_processes before everything).
StrandedIsLate ==
  \A p \in Procs :
    phase[p] = "inside" /\ (~rules \/ ns[p] # named) => p \in late

\* A tor of ours that is alive has its namespace: teardown stops tor before it
\* deletes the name, wherever it is cut short. serve() relies on it: its
\* cleanup looks for a namespace or rules, so a tor alone would be left running.
TorNeedsNetns == tor \in Live => named # 0

\* down() answering Ok (or the startup cleanup being content) means all three
\* pieces are gone, though each step goes on when the one before it failed.
DownMeansDown ==
  pc = "idle" /\ reply \in {"downOk", "cleaned"}
    => named = 0 /\ ~rules /\ tor \notin Live

\* The redirect goes in only after the tor of this very start has bootstrapped
\* (or died since): never on the word of an earlier run's log, but for a log that
\* could not be removed before it.
NftAfterBootstrap == pc = "apply" => tor # "boot" \/ log = "old"

\* A tunnel found standing by the accept loop has been confirmed to exit
\* through Tor unless something went wrong on the way: a probe that could not
\* run, a teardown that failed, or the death of the daemon.
UnverifiedNeedsMishap ==
  pc = "idle" /\ IsUp /\ ~verified => mishaps # {}

\* A failed `up` leaves nothing behind unless one of its own undo commands
\* failed, whichever of its steps was the one to fail.
FailedUpIsClean ==
  pc = "idle" /\ reply = "upFailed" /\ mishaps = {} => Clean

\* The host's end of the veth is left on the host, where deleting the namespace
\* does not take it along (netns.rs:122), only by a death or by an undo that failed:
\* of all the ways out of an `up` none forgets it.
StrayLinkNeedsMishap ==
  veth = OnHost /\ pc \notin {"move", "rbNs", "rbLink"} => mishaps # {}

\* The accept loop always comes back for the next request, through every wait,
\* failure and restart: no program, tor or probe can keep it from doing so.
EveryOperationEnds == pc # "idle" ~> pc = "idle"

-----------------------------------------------------------------------------
(* What the source says of itself and does not do (the violation runs).    *)

\* "The programs running inside ... are stopped before anything else and must
\* stop for anything else to happen" (privileged.rs:109): when `down` has just
\* taken the rules away, nothing is left in the namespace they covered.
NobodyInsideWhenRulesGo ==
  pc = "stop" /\ op = "down" /\ ~rules
    => \A p \in Procs : ~(phase[p] = "inside" /\ ns[p] = named)
=============================================================================
