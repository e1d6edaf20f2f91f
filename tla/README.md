# tort in TLA+

Specifications of tort: a daemon that builds a Linux network namespace whose only
way out is tort's own tor, admits programs to it, and takes it apart again; a
command line and a window that ask the daemon for it. The modules are translated
from the Rust source under `src/`; TLC checks them on small instances, and the
TLA+ proof system proves the safety properties for every value of the constants.

    tlc -config MCTunnel.cfg MCTunnel.tla        # likewise for the other configurations
    tlapm TunnelProof.tla                        # about a minute and a half
                                                 # likewise TorInstanceProof, DirectRootProof,
                                                 # DaemonProof, StatusCacheProof, NetfilterProof,
                                                 # ControlPortProof, WindowProof

## Inventory

| Component | Source | State | Operations | Modelled in |
|---|---|---|---|---|
| Tunnel lifecycle | `privileged.rs`, `netns.rs`, `nft.rs`, `tor.rs` | namespace name, veth pair, nftables table, tor process and its log, the programs inside (all in the kernel: tort keeps no record of its own) | `up`, `up_and_verify`, `down`, `is_up`, startup clean-up | `Tunnel`, `Gate`, `TunnelGate` |
| Accept loop | `daemon.rs` | one connection at a time; a waiter thread for each `run` | `serve`, `handle`, `dispatch`, `start_run` | `Daemon` (requests, authorization, answers), `Tunnel` (what an authorized request does) |
| Namespace runner | `run.rs` | forked children | `fork_in_namespace`, probes, `wait_for` | `Tunnel` (entry and end), `StatusCache` (a probe's life), `Daemon` (waiting for the end) |
| Status cache | `daemon.rs` | `LAST_CHECK`, `REFRESHING`, refresh threads | `cached_check`, `remember_check`, `invalidate_check`, `start_refresh` | `StatusCache` |
| Control-port client | `control.rs` | one connection, one reply being read | `authenticate`, `command`, `circuits` | `ControlPort` |
| Ruleset | `nft.rs` | three chains | `apply`, `remove` | `Netfilter` |
| Window | `bin/tortunnel.rs` | widgets, update channel, worker threads | button, polls, updates | `Gui` |
| Tor instance | `tor.rs`, `config.rs` | pidfile, log, orphans | `start`, `wait_for_bootstrap`, `stop` | `TorInstance`, `TorLife`; as one process in `Tunnel` |
| Authorization, wire protocol, client | `polkit.rs`, `proto.rs`, `client.rs` | none | one question per request | `Daemon` |
| Command line, direct root | `main.rs` | none | the same operations without the daemon | `DirectRoot`; the way through the daemon in `Daemon` |
| Verification | `verify.rs` | none | HTTP, verdict | an input of `StatusCache` |
| Map | `map.rs`, `draw_map` of `bin/tortunnel.rs` | circuits drawn, zoom | window, projection, wrap | `MapView` |
| Packaging | `packaging`, `install.sh` and the like | none | installation | no; what the service unit says of restarts is in `Tunnel` |

How they meet: the window and the command line send one request per connection;
the accept loop serves them one after another and runs each to its end, except
`run`, whose child lives on, and the refresh of `status`, which runs on a thread.
Children and threads enter the namespace on their own time. Kernel, tor and the
daemon share nothing but the kernel's objects and tor's log file. The window's
threads answer through one channel. Root without the daemon runs the same commands from
the command line; then nothing keeps two operators, or one and a daemon that is
starting, from taking turns.

What is hard here: programs that are on their way in while the tunnel is taken
down; eight commands to build a tunnel, any of which fails, with an undo that may
fail too; signals that are ignored and deadlines that pass; a daemon that dies
between any two commands and finds what it left; answers that arrive after what
they describe is gone (a refresh, tor's reply, a poll of the window); one loop
for everybody, that may wait for a client, a person or a terminal; pids that change
hands; operators that undo each other's work. The list
with the source lines is `hazards` in `PROJECT.json`.

What makes each part right:

- *Tunnel*: the rules and the name are never taken from around a program that
  entered a standing tunnel; success means done; failure means undone; what a
  crash leaves is found by the next start; no operation hangs.
- *Accept loop*: only people can hold it up; who started a program is answered by
  its end and by nothing else.
- *Tor*: one at a time, under a log of its own; `stop` leaves none, and signals
  nobody else but who has come to bear a pid of tor's.
- *Command line*: whatever operators did to each other, one left alone can put it
  right, but for a link on the host; one that fails undoes what it made.
- *Status cache*: one refresh at a time, never none for ever; no verdict told of
  another tunnel.
- *Control port*: each reply ends where tor ends it, and is its question's.
- *Ruleset*: nothing from the namespace but through tor, everything tor can carry
  through tor, nobody else through tor, nobody else harmed.
- *Window*: it comes to show what is, and the button comes back.
- *Map*: every placed hop in sight, near ones near, no coast drawn across it.

## Modules

### Tunnel

The accept loop is a program counter `pc` over the commands of an operation: each
label is the command it is about to run, and each action is that command with its
failures. `create`'s eight commands are four actions (`AddNs`, `AddVeth`,
`MoveVeth`, `Configure`: what follows the move fails alike). `up` continues with
`ClearOrphan`, `Launch`, `CheckTor`, `WaitBootstrap`, `ApplyRules`, `Verify`;
`down` is `Term`, `Wait1`, `Kill`, `Wait2` (`stop_processes`), `RemoveRules`,
`DownStopTor`, `DestroyNs`. `down` also runs for an unconfirmed tunnel and for the
startup clean-up; `op` says for whom, as that decides the answer.

The kernel's part: each namespace is a number, `named` is the one that
`/var/run/netns/tort` names, and a namespace lives while it is named, open or
inhabited. `veth` is nowhere, on the host, or in a namespace; it goes with the
namespace, in its own time (`Reap`). A program's `phase` follows
`netns::enter`: forked, the name opened, inside. `ip netns pids` (`Pids`) sees the
last only.

`late` and `mishaps` are history: the programs that came in while no tunnel stood,
and the failures since an `up` last began with nothing left over. They are read by
properties only, never by a guard. A tunnel *stands* for a program that enters
while the rules are in and the accept loop is not past finding the namespace
empty.

The daemon may die at any label. Under systemd its control group dies with it;
a daemon started by hand leaves tor and the programs: both are in `Crash`.

### Gate, TunnelGate

`Gate` is what the tunnel promises the programs in it: a filter that is lowered
over nobody, and admits nobody while it is down. `TunnelGate` maps the filter to
the nftables table and the admitted to those inside that are not late; `GateSpec`
is checked as a property and proved.

### TorLife, TorInstance

`TorLife` is what the tunnel relies on of tor: one at most; a log that says "done" was
written by the tor launched last; a tor that was killed only ends. Both `Tunnel`
(`TorLifeSpec`) and `TorInstance` (`LifeSpec`) implement it: `Tunnel` with one process
that has the states of `TorLife`, `TorInstance` pid by pid.

In `TorInstance` a process id is free, another process's, or a tor's of ours; other
processes take free ids and leave them, so that an id in the pidfile may come to be
somebody else's. `pc` goes through `start` (`clear`, `launch`, `check`, `wait`) and
`stop` (`look`, `term`, `poll`, `kill`, `unpid`); the operator may die at any of these.
`logger` is the tor that has the present log file open: one whose log was unlinked
writes where nobody reads. The log's removal may fail, which the code ignores: it is
"old" when it goes on saying "done" of an earlier tor, here and in `Tunnel`. tor writes its pidfile some time after it was launched, and before
it has booted.

`stop` sends its signals id by id, and other processes come and go between its scans and
each signal. `seen`, `stale`, `hurt` and `slain` are history: the ids that were tor's when
it looked, the one in the pidfile then, and those that were somebody else's when they
were sent SIGTERM and SIGKILL. They are read by properties only.

### Daemon

A client is `off`, `mute` (connected, nothing sent yet), `sent`, `gone` (dead, its
connection not yet dropped), `told`, or `cut` off without an answer. `backlog` is the
listening socket's queue; the loop's `pc` is `accept`, `read`, `ask`, `prompt` (polkit
has asked a person), `work`. A request is its operation, whether it may prompt, and
whether it came whole: the one `recvmsg` of 8192 bytes cuts a longer one. `prog` is the
program of a client's `run` with the thread that waits for it (`Report`); that thread
holds the connection from then on. A terminal lent for progress may be `frozen`. The
operations are atomic here, and their effect is `up`: `Tunnel` has them in steps, and
nothing but the loop runs them. The daemon may die at any `pc` and is restarted.

### DirectRoot

`locally()` of `main.rs`: every operator has its own `pc` over the same commands as in
`Tunnel`, and they interleave at every command; an operator may also be a daemon's
startup clean-up, and may be interrupted anywhere. It has no programs inside, so that
`stop_processes` has nothing to wait for. `ns` remembers whose `netns add` made the
namespace, `puller` whose `link add` the veth pair; the rollback of `create` deletes by
name and asks neither.

`lone`, `spare` and `clean` are history, kept for the operators in `Watched` and read by
properties only: of one that brings down, that nobody else has been at work since it
began and no command that undoes has failed it, and whether the veth was on the host when
it began; of one that brings up, that no command that undoes has failed it.

### MapView

The view of `draw_map` for an answer of circuits: `Longitudes` measures twice, as
`Bounds::around` does, `Padded` is the margin and the smallest size, `Wrap` the two
loops of `Projection::wrap`, `InWidget` whether a place falls inside a widget of a given
size, `Broken` whether a stretch of coast is lifted. Places are whole degrees; a
window's middle and margin are reckoned in 200ths of a degree, in which they are
exact. Zoom is far, fit or near. Its state machine has names of its own (`MapInit`,
`MapNext`, `MapSpec`), as `TorLife` has, so that `WindowProof` can extend it and `Gui`.

### StatusCache

The tunnel is a number here, so that a check can be asked which tunnel it
measured. The accept loop's operations are cut where they touch the cache; the
refresh thread is `Enter`, `Measure` or `Fail`, `Store`, `End`. `overtaken` marks a
measurement in flight when the cache was dropped; the program has no such mark.

### ControlPort

tor is external: it answers any question with any reply it may have, later, or
closes. The client reads one line per step, exactly as `command()` tells lines
apart. A circuit has one hop, named after its place in the listing, so that an
address can be asked whose it is. Ids are of three kinds, as the framing sees
them. `wire` is what tor has written or is writing of its replies: a line comes whole,
and a read may time out, or the connection end, before any of them, so that a reply may
be cut anywhere and its rest come late. A listing of several circuits is a data block;
one of a single circuit, or none, is a `250-circuit-status=` line and then `250 OK`. The
fields of a circuit's line (`parse_circuit`) are not modelled, but for its one hop.

### Netfilter

The chains are predicates, as in the ruleset's text; the kernel's hooks, routing and
connection tracking are external. One flow is followed at a time, since the rules
and conntrack treat flows apart. `seen` keeps what the last packet met.

### Gui

A main loop that reads a channel, query threads (counted by what they ask and what
they are to send: they are alike otherwise), request threads with their pipe readers,
and a daemon that serves one at a time. Text that nothing depends on (the activity
line, the circuit pane's messages) is left out. `has_circuits` is whether the code's
`drawn_circuits` is empty; what they look like is `MapView`'s.

## Checks

| Run | Instance | Shows |
|---|---|---|
| `tunnel` | 2 programs, 2 namespaces, 1 death of the daemon (677,000 states) | eight invariants, `GateSpec`, `TorLifeSpec`, and `EveryOperationEnds` |
| `tor_instance` | 3 pids (212,000) | `stop` leaves no tor, and of others hurts two at most, each the heir of a pid of tor's; `LifeSpec` |
| `daemon` | 2 clients, 1 death of the daemon (15,000) | who can hold the loop up; a run is answered by its program's end alone |
| `direct_root` | 2 operators, the history of one (317,000) | what a `down` that nobody disturbs takes away; what an `up` that fails undoes, whatever the other does; everybody comes to an end |
| `status_cache` | 2 refresh threads, 3 tunnels (48,000) | one refresh; a wrong answer only from one overtaken refresh, and it does not stay |
| `control_port` | up to 3 circuits of every kind, any number of timeouts that matter (145,000) | attribution with and without timeouts, completeness; `circuits()` returns |
| `netfilter` | every flow, every order of events (4,800) | containment, service, no proxy for others, no harm |
| `gui` | 2 clicks, 2 statuses at a time (361,000) | the button is dead while a lone request is in flight, and never without something to revive it |
| `gui_live` | 1 click, 1 change from elsewhere, 2 statuses at a time (77,000) | the button comes back, stale circuits go, the window settles |
| `map_view` | 1 circuit of up to 3 of 6 places, 12 coast longitudes, 2 shapes of widget (2,400) | places in sight, the short way round, no streaks |
| `late_entry`, `stop_reused_pid` | the smallest that show it | two places where the code does not do what it says (below) |

The type invariants of `StatusCache`, `Netfilter`, `Daemon`, `TorInstance`, `DirectRoot`,
`Gui` and `MapView` are in no configuration: they are proved (`TypeCorrect`, and
`PanelTypeCorrect` and `MapTypeCorrect` of `WindowProof`).

Why the bounds are enough. *Tunnel*: two programs give one inside and one on its way in,
and one that forks the other; a second namespace under the same name gives every
confusion of old and new (a third adds none: nothing compares more than the present one
and another); a second death can only repeat the first, as the restart begins from any
leftover. The proofs need no bounds. *StatusCache*: two threads could break
`OneRefresh`, and the third tunnel lets one be measured, one dropped and one be up.
*ControlPort*: three circuits give a hop before and after any other; a hop's questions
time out once at most and `quit` once, so that the bound on timeouts is never met.
*TorInstance*: the three ids are tor's, a stale one's new owner, and one more for a second
tor or a bystander (both of the two processes that `OnlyAnHeirIsHurt` allows are found).
*Daemon*: one client holds the loop while the other waits behind it or has a program
running; a third could only wait longer. *DirectRoot*: one operator and whoever disturbs it;
operators are alike, so what holds of the history of one holds of each. *MapView*: the
places lie on both sides of the prime meridian, of the antimeridian and of the equator,
and three are the fewest that can surround the globe; the coast's longitudes lie
about the same meridians and the edges of the world (`NoStreaks` is proved for any). *Gui*: two statuses in flight are what
overtaking needs. Its two runs trade a second click for a change from elsewhere, which
no invariant of the first needs. The ticks of its timer wait for the channel to be read
(ten seconds are a long time for the loop), and a thread delivers into an empty channel
(what would wait in the channel waits in the thread).

`CHECK_DEADLOCK FALSE` is used for `ControlPort` alone: `circuits()` returns.

Every property has a mutant, an operator beside the action it changes, with a
comment that says what mistake it is.

### Fairness

- *Tunnel*: weak fairness of `Serve`, what the accept loop does once it has begun:
  every command returns, every wait has a deadline in the code, and systemd
  restarts the daemon (`Restart=on-failure`). A probe the accept loop waits for
  ends: its HTTP client has a deadline. Nothing is assumed of programs, of tor, or of
  anybody asking.
- *Daemon*: weak fairness of `Serve`, the loop's own steps (systemd restarts it);
  strong fairness of `Up`, whose write to a terminal goes on when a stopped one is resumed, however often it is stopped again. Nothing of clients,
  people and programs: `OnlyPeopleHoldIt` names them as its premise.
- *DirectRoot*: weak fairness of each operator's commands, all of which return or have a
  deadline; nothing of tor.
- *StatusCache*: the loop finishes, time passes, somebody polls (the window does);
  threads run, and a probe repeated for ever is not killed every time.
- *ControlPort*: the client alone; tor may be silent.
- *Gui*: the loop and the threads run, the timer fires, the daemon ends what it
  serves and answers a status now and then.
- *TorInstance*, *MapView*, *Netfilter* and the run `gui` check safety alone, without any.

### Where the code does not do what it says

1. `late_entry`. `down` promises that programs "must stop for anything else to
   happen" (`privileged.rs:109`). A child forked and not yet inside is not listed by
   `ip netns pids`; `down` finds the namespace empty, removes the rules, and the
   child enters. `StrandedIsLate` is what does hold: it happens to such latecomers
   only.
2. `stop_reused_pid`. "Stop the tor instance tort started - and only that one"
   (`tor.rs:338`): the pid in the pidfile is signalled without the test that the scan of
   `/proc` makes (`tor.rs:350`). tor dies without removing its pidfile, the pid becomes
   another process's, and `stop` signals that. A pid that was tor's in the scan may change
   hands too before its signal is sent (`tor.rs:347` to 363, and 383). `OnlyAnHeirIsHurt`
   is what does hold: one process by each way at most, nobody gets both signals, and
   SIGKILL only one that has a pid which was tor's when `stop` began.

Seen while modelling, and not stated as violated properties:

- An `up` whose probe cannot be run returns at the `?` of `privileged.rs:38`, before the
  teardown, against "or leave nothing behind" (line 25). `UnverifiedNeedsMishap` says
  what it takes.
- A refresh in flight stores its result after the cache was dropped for another tunnel
  (`daemon.rs:330` against 336); `WrongIsOvertaken` and `WrongIsReplaced` bound it.
- After a read timeout the control connection is kept; the late reply answers the next
  question, and a hop shows another relay's address (`control.rs:207`).
  `HopsAreTheirOwn` says that without a timeout none does, `LateIsEarlier` that with any
  number of them it is an earlier relay's, or a bandwidth for a country.
- The rollback of `create` deletes by name: a namespace that another operator has just
  made goes (`netns.rs:63`). `OwnNetIsUndone` says that its own goes as well, even when
  the other has moved its link into a namespace of theirs.
- A log of tor's that cannot be removed is left without a word (`tor.rs:158`), and its
  "Bootstrapped 100%" is then taken for the new tor's. `NftAfterBootstrap` says that it
  takes that.
- "Deleting the namespace also destroys the veth pair and every address and route inside
  it, so this cannot half-succeed" (`netns.rs:122`): an `up` that dies between `ip link
  add` and the move (`netns.rs:76`) leaves both ends on the host; `down` deletes the
  namespace, looks for no link and says that tort is down. `LoneDownCleans` says that only
  a link that was there before stays; `StrayLinkNeedsMishap` that it takes a death or an
  undo that failed. The next `up` that fails removes it.
- "Skip the protocol scaffolding; circuit lines start with an id" (`control.rs:148`): when
  tor has one circuit it answers on one line, `250-circuit-status=1 BUILT ...`, and the
  test for a leading 250 (`control.rs:150`) drops the circuit with it. Of several circuits,
  one whose id begins with 250 is dropped. `ListingIsWhole` says both.
- A connection of the namespace straight to the gateway's TransPort is accepted
  (`nft.rs:90`, against the comment at 40).
- The last progress line may be delivered after `Busy(false)` and then stays on screen
  (`tortunnel.rs:509` against 330). "Partial — run Disconnect to clean up" stands beside
  a button that says Connect (541, 552). The pane's "not authorized" message stays after
  the tunnel is down if no circuits were drawn (294).
- When the exit has no known place, the last hop that has one is haloed in its stead
  (`tortunnel.rs:1070`).
- "The smallest window containing every point" (`map.rs:58`) holds for one and two places
  (`TwoAreShort`), not for three: of longitudes -100, 10 and 170 the narrowest window is
  200 degrees wide, and measuring twice finds 250.

## Proofs

Eight modules, complete: every leaf is checked, and nothing is assumed but the named
assumptions on the constants. They need no bounds: sets of programs, threads, clients,
operators, pids and places are any.

### Tunnel

`TunnelProof` proves every invariant that `tunnel` checks, for any set of programs and
any bounds, from `BoundsAssumption` alone (the bounds are naturals).

None of the properties is inductive. `IInv` adds, part by part, what the code relies
on at each label:

- `Sheltered`: who is inside and not late is in the named namespace, under rules; and
  past the point where `stop_processes` succeeded there is nobody of whom that is
  asked. It gives `NobodyStranded`, and the gate.
- `TorInNetns`: tor lives only where the namespace does, label by label through
  failures and the teardown, where tor goes first. It gives `TorNeverAlone`.
- `LogIsOurs`: from `Launch` on, the log's "done" is of the tor launched; what a log that
  was not removed says is "old".
- `ErrorKept`: past `RemoveRules`, no error recorded means no rules.
- `RulesInPlace`, `VethInPlace`: which rules and which end of the veth there can be
  at the labels of `up` when nothing has failed. With the rollback they give
  `FailedUpUndone`.
- `UnverifiedInHand`: an unconfirmed tunnel is in the accept loop's hands or a mishap's.
- `DeadIsSilent`: a dead daemon's last answer is forgotten.

The step is proved part by part, one lemma each, with one case per action; `Invariance`
combines them, and each property follows from `IInv` or, for the two about an
operation's end (`DownIsDown`, `FailedUpUndone`), from an invariant of its own beside
`IInv`. Every step is one of the gate or a stutter (`GateImplemented`); the case to look at is `RemoveRules`, where `Sheltered` says that
nobody is admitted. `TorLifeImplemented` is the same for `TorLife`.

### TorInstance

`IInv` says that there is one tor at most that is ours (`OneTor`), that the log's "done"
is of the tor that has it open (`LogIsItsOwn`), that the last tor is dead or dying where
the log is removed, a tor launched or the pidfile removed, and before that on `stop`'s list
of those to be killed (`StoppedFirst`). For the signals: all that `stop` saw as tor's was
one process at most, and no other pid becomes tor's until it returns (`OnlyTheSeen`); whoever
is on its list was seen or is the pidfile's at first, and at last was seen and not yet
somebody else's when SIGTERM was sent (`Listed`). From them: `StopIsStop`,
`OnlyHeirsAreHurt`, and, through the mapping that forgets pids, `LifeImplemented`.

### StatusCache

What makes `WrongIsOvertaken` inductive is `CacheIsCurrent`: whatever changes the tunnel
has dropped the cache, and marked every refresh in flight, before anybody can ask; a
thread not so marked measures the present tunnel (`ThreadIsCurrent`). `OneRefresh` is
`OneInFlight`, which ties `REFRESHING` to the one thread that will lower it.
Assumption: `MaxTunnelsAssumption`.

### Daemon

`Placed`: whoever waits in the backlog or is being served has a connection, in one
place; whoever is worked for has leave, if the request needs any. `RunIsHeardAtTheEnd`
follows. Assumption: `ClientsAssumption`.

### DirectRoot

Of a `down` that nobody disturbs the invariant says, label by label, what it has taken
away so far, which link it leaves on the host, and what its answer means (`Downward`); the
step of any other operator makes the premise false. It gives `LoneDownLeavesTheLink`. Of an
`up` it says, in whatever interleaving, that from the move on no link of its making is on
the host (`LinkInside`), and that what it has undone is not there again (`Undone`): others
may delete what is its own, or move it inside, and never make anything its or bring it
back. It gives `FailedUpUndoesItsOwn`.
Assumption: `OperatorsAssumption`.

### Netfilter

The packet seen last was judged by the chains under the rules and the entry that `seen`
records, and no later event disturbs that record: the five properties together are
inductive beside `TypeOK` (`SeenIsJudged`). The work is in the chains: one lemma for a
packet sent, one for a reply or a packet passed on.

### ControlPort

`IInv` is the type of what is read as well as of what is stored (`Typed`) and:

- `InStep`: until a read has timed out, and up to the listing whatever happens (a timeout
  ends `circuits()` there), client and tor are in step. Either the question that the
  client waits on is unanswered, or what is unread is the rest of one of its replies and
  `out` and `in_data_block` are what `command()` makes of the part that was read. A reply
  is `Framed`: a data block up to its dot and then "250 OK", or lines none of which but
  the last ends it.
- `Unfilled`: hops still to come have no country.
- `NothingAhead`: once the hops have begun, whatever happens, every question that was
  sent and every line that tor has written is about a hop already reached. It gives
  `LateAnswersAreEarlier`.

The reading of a line is then one lemma about any framed reply (`ReadOn`), and `Use`
meets whole replies only. What it finds there is its question's (`AddressIsItsOwn`,
`CountryIsItsOwn`, `ListingIsParsed`), which gives `HopsGetTheirOwn` and
`ListingComesWhole`. `ParseIsWhole` is what the parser keeps of a listing: its function
grows by a line at a time, and that it is right at every length is proved by a least
counterexample (`LeastNatural`), as the library's induction theorems cannot be used.
Assumption: `BoundsAssumption`.

### MapView

`WindowProof` holds the proofs about both modules of the window. Those of `MapView` are
arithmetic about any view: `ViewLies` bounds its middle, and `WrapIsWithinHalf` says that
the two loops bring every longitude within half the globe of that.

- `NothingStreaks`: two neighbours that are joined are near each other after the wrap, and
  then their own distance apart (`DrawnItsLength`).
- `EveryHopInSight`: a place is as near the middle as the wrap can bring it
  (`WrapIsNearest`), hence within half the span that was measured
  (`DrawnWithinTheSpan`), and the margin and the smallest size are strictly more than that
  (`PaddedIsWider`), in either shape of widget.
- `TwoAreDrawnShort`: of two longitudes, one of the two measures is half the globe at most
  (`TheShorterWay`), so that the two are joined and lie their own distance apart.

Assumption: `PlacesAssumption`.

### Gui

Both properties of the button come from one invariant about the channel. `Held` says that
as far as what was sent goes the button is, or will be, dead: it is dead and nothing in
the channel revives it, or what deadens it is in the channel with nothing behind that
revives it. While a lone request is in flight the button is held (`Alone`, for
`AloneHolds`); and a button that is held has a request in flight, however many there are
(`InHand`, for `DeadHasAReviver`). The work is in the updates that arrive behind and are
taken from in front, one lemma each for either direction (`HeldBehindMore`,
`HeldBehindLess`, `HeldBeforeMore`, `HeldBeforeLess`): polls send to the same channel and
neither hold the button nor revive it. `PanelTypeCorrect` is what makes each update of a
kind the loop knows. Assumption: `BoundsAssumption`.

### Model-checked only

Liveness, which is out of the prover's reach (`EveryOperationEnds`, `OnlyPeopleHoldIt`,
`EveryOperatorEnds`, `WrongIsReplaced`, `Returns`, `ButtonComesBack`,
`StaleCircuitsGo`, `Settles`). Every other property that a passing run checks is proved.

## Plan

Done: `Tunnel` with `Gate` and `TorLife`, `TorInstance`, `Daemon`, `DirectRoot`,
`StatusCache`, `ControlPort`, `Netfilter`, `Gui`, `MapView`, and the proofs of their
safety.

Left, in this order:

1. What of `Settles` is safety: which polls in flight can still overwrite what the window
   shows, as an invariant with its proof (`DeadIsInHand` is that half of
   `ButtonComesBack`).
2. An abstract specification of `circuits()` (each hop asked once, answered or left
   empty) that `ControlPort` implements.
3. The hazards without a property (`hazards` in `PROJECT.json`), where the model has the
   state to state one.

## Not modelled

- HTTP and JSON (`verify.rs`): its verdict is an input of `StatusCache`, and a probe that
  cannot be run is a failure in `Tunnel`.
- The strokes of drawing, the dialog and the saved commands, the launcher of terminals,
  the progress line; the printing, the shells and the browser check of `main.rs`. They
  are input and output, or have no state that another part depends on.
- Packaging and the smoke test.
- The fork of a threaded process (`run.rs:147`): what goes wrong there is in the locks of
  the C library's allocator and environment, which are not this program's.
- The text of torrc, ownership and modes of directories: they fail or they do not, and
  that is in `Tunnel` and `TorInstance`.
- How long the polls of the window pile up behind a slow operation: `Gui` bounds how many
  are in flight, and measures neither time nor threads.
