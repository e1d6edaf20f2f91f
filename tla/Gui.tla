--------------------------------- MODULE Gui ---------------------------------
(***************************************************************************)
(* The window (src/bin/tortunnel.rs): a main loop that owns every widget,  *)
(* the worker threads that ask the daemon, and the channel they answer     *)
(* through. Each thread asks a daemon that serves one request at a time,   *)
(* and sends what it learned whenever it gets to run, so answers arrive    *)
(* late and out of order; the properties are about what is on the screen.  *)
(* The line of progress and the reader of its pipe are left out: nothing   *)
(* but the line itself depends on them.                                    *)
(***************************************************************************)
EXTENDS Naturals, Sequences, FiniteSets, SequencesExt

CONSTANTS
  MaxPolls,   \* bound: threads of spawn_query at a time that ask for the status
  Jobs,       \* threads of spawn_request
  MaxClicks,  \* bound: clicks on the button
  MaxChanges  \* bound: changes of the tunnel from elsewhere

ASSUME BoundsAssumption == {MaxPolls, MaxClicks, MaxChanges} \subseteq Nat

VARIABLES
  tunnel,    \* what the daemon would report
  serving,   \* the job the daemon is busy with
  changes,   \* changes from elsewhere so far
  asking,    \* the query threads waiting for the daemon, by what they ask
  answered,  \* those that have its answer, by the update they are to send
  job,       \* of each request thread: where it is, what it asks
  clicks,    \* clicks so far
  overlap,   \* a click has come while another's request was in flight
  channel,   \* updates sent and not yet received
  is_up,     \* the main loop's copy
  shown, button,     \* the state line, the button's label
  sensitive,         \* the button can be clicked; the spinner rests
  has_circuits       \* drawn_circuits is not empty

daemon  == <<tunnel, serving, changes>>
queries == <<asking, answered>>
threads == <<queries, job>>
user    == <<clicks, overlap>>
screen  == <<is_up, shown, button, sensitive, has_circuits>>
vars    == <<daemon, threads, user, channel, screen>>

Tunnels == {"down", "partial", "up"}
Shown   == {"checking", "partial", "up", "disconnected"}

\* Updates. Done, Failed and Denied are text in a line nothing depends on, and
\* CircuitsUnavailable is text in the pane, under a map it leaves alone.
Status(t)      == [kind |-> "status", tunnel |-> t]
Circuits(some) == [kind |-> "circuits", some |-> some]
Busy(b)        == [kind |-> "busy", busy |-> b]

\* What a query thread may come to send.
Asks    == {"status", "route"}
Replies == {Status(t) : t \in Tunnels} \cup {Circuits(some) : some \in BOOLEAN}

Off   == [at |-> "off", ask |-> "nothing"]
Going == {j \in Jobs : job[j].at \in {"asked", "serving", "answered"}}

More(threads_of, x)  == [threads_of EXCEPT ![x] = @ + 1]
Fewer(threads_of, x) == [threads_of EXCEPT ![x] = @ - 1]

\* The query threads of each kind.
Asked ==
  [ask \in Asks |->
     asking[ask] + FoldFunctionOnSet(+, 0, answered,
                                     {u \in Replies : (u.kind = "status") = (ask = "status")})]

\* refresh(): one thread asks for the status, another for the circuits.
Refresh ==
  /\ Asked["status"] < MaxPolls /\ Asked["route"] = 0
  /\ asking' = [ask \in Asks |-> asking[ask] + 1]
  /\ UNCHANGED answered

Init ==
  /\ tunnel \in Tunnels /\ serving = {} /\ changes = 0
  /\ asking = [ask \in Asks |-> 0] /\ answered = [u \in Replies |-> 0]
  /\ job = [j \in Jobs |-> Off]
  /\ clicks = 0 /\ overlap = FALSE /\ channel = <<>>
  /\ is_up = FALSE /\ shown = "checking" /\ button = "Connect"
  /\ sensitive = TRUE
  /\ has_circuits = FALSE

-----------------------------------------------------------------------------
(* The main loop: the timer, the button, the channel.                      *)

\* In the ten seconds between two ticks the loop has read whatever was sent.
Tick ==
  /\ channel = <<>> /\ Refresh
  /\ UNCHANGED <<daemon, job, user, channel, screen>>

\* Mutant: nothing says Busy at the start.
ClickQuietly ==
  /\ sensitive /\ clicks < MaxClicks /\ \E j \in Jobs : job[j].at = "off"
  /\ LET j == CHOOSE k \in Jobs : job[k].at = "off"
     IN job' = [job EXCEPT ![j] = [at |-> "asked", ask |-> IF is_up THEN "down" ELSE "up"]]
  /\ clicks' = clicks + 1 /\ overlap' = (overlap \/ Going # {})
  /\ UNCHANGED <<daemon, queries, channel, screen>>

\* A click sends Busy to the loop's own channel, so that a second click can come
\* before it is read, and starts a thread.
Click ==
  /\ sensitive /\ clicks < MaxClicks /\ \E j \in Jobs : job[j].at = "off"
  /\ LET j == CHOOSE k \in Jobs : job[k].at = "off"
     IN job' = [job EXCEPT ![j] = [at |-> "asked", ask |-> IF is_up THEN "down" ELSE "up"]]
  /\ channel' = Append(channel, Busy(TRUE))
  /\ clicks' = clicks + 1 /\ overlap' = (overlap \/ Going # {})
  /\ UNCHANGED <<daemon, queries, screen>>

\* The update at the head of the channel is of this kind, and is taken.
Received(kind) ==
  /\ channel # <<>> /\ Head(channel).kind = kind /\ channel' = Tail(channel)
  /\ UNCHANGED <<daemon, threads, user>>

\* apply_status.
apply_status(t) ==
  /\ shown' = CASE t = "partial" -> "partial"
                [] t = "up"      -> "up"
                [] t = "down"    -> "disconnected"
  /\ button' = IF t = "up" THEN "Disconnect" ELSE "Connect"

\* Mutant: is_up is only ever raised.
ReceiveStatusUp ==
  /\ Received("status")
  /\ LET t == Head(channel).tunnel
     IN /\ is_up' = (is_up \/ t = "up") /\ apply_status(t)
        /\ has_circuits' = (has_circuits /\ is_up')
  /\ UNCHANGED sensitive

\* Mutant: the circuits are left to the route poll.
ReceiveStatusOnly ==
  /\ Received("status")
  /\ LET t == Head(channel).tunnel
     IN is_up' = (t = "up") /\ apply_status(t)
  /\ UNCHANGED <<sensitive, has_circuits>>

\* A tunnel that is not up takes its circuits off the map.
ReceiveStatus ==
  /\ Received("status")
  /\ LET t == Head(channel).tunnel
     IN /\ is_up' = (t = "up") /\ apply_status(t)
        /\ has_circuits' = (has_circuits /\ is_up')
  /\ UNCHANGED sensitive

ReceiveCircuits ==
  /\ Received("circuits")
  /\ has_circuits' = Head(channel).some
  /\ UNCHANGED <<is_up, shown, button, sensitive>>

ReceiveBusy ==
  /\ Received("busy")
  /\ sensitive' = ~Head(channel).busy
  /\ UNCHANGED <<is_up, shown, button, has_circuits>>

Receive ==
  \/ ReceiveStatus \/ ReceiveCircuits \/ ReceiveBusy

-----------------------------------------------------------------------------
(* spawn_query.                                                            *)

\* What the daemon answers: a tunnel in pieces may still have its tor.
Answers(ask) ==
  IF ask = "status" THEN {Status(tunnel)}
  ELSE {Circuits(some) : some \in IF tunnel = "down" THEN {} ELSE BOOLEAN}

Answer(ask) ==
  /\ asking[ask] > 0 /\ serving = {}
  /\ \E u \in Answers(ask) : answered' = More(answered, u)
  /\ asking' = Fewer(asking, ask)
  /\ UNCHANGED <<daemon, job, user, channel, screen>>

\* No daemon, and the thread ends without a word; or no circuits to be had, and
\* it says why.
NoAnswer(ask) ==
  /\ asking[ask] > 0 /\ asking' = Fewer(asking, ask)
  /\ UNCHANGED <<daemon, answered, job, user, channel, screen>>

\* What would wait in the channel behind something else waits in its thread, which
\* is the same to the loop and to a thread about to end.
Send(u) ==
  /\ channel = <<>> /\ answered[u] > 0 /\ answered' = Fewer(answered, u)
  /\ channel' = Append(channel, u)
  /\ UNCHANGED <<daemon, asking, job, user, screen>>

-----------------------------------------------------------------------------
(* spawn_request.                                                          *)

\* The daemon's accept loop takes it up, when it has nothing else to do.
Begin(j) ==
  /\ job[j].at = "asked" /\ serving = {}
  /\ serving' = {j} /\ job' = [job EXCEPT ![j].at = "serving"]
  /\ UNCHANGED <<tunnel, changes, queries, user, channel, screen>>

\* What may have become of the tunnel: see Tunnel. A tunnel in pieces refuses
\* `up`.
Outcomes(ask) ==
  IF ask = "down" THEN {"down", "partial", tunnel}
  ELSE IF tunnel = "down" THEN Tunnels ELSE {tunnel}

End(j) ==
  /\ serving = {j} /\ serving' = {} /\ tunnel' \in Outcomes(job[j].ask)
  /\ job' = [job EXCEPT ![j].at = "answered"]
  /\ UNCHANGED <<changes, queries, user, channel, screen>>

\* The daemon is not there, or refuses.
NotServed(j) ==
  /\ job[j].at = "asked" /\ job' = [job EXCEPT ![j].at = "answered"]
  /\ UNCHANGED <<daemon, queries, user, channel, screen>>

\* Mutant: an error returns early.
SayOrReturn(j) ==
  /\ job[j].at = "answered" /\ job' = [job EXCEPT ![j].at = "said"]
  /\ channel' \in {channel, Append(channel, Busy(FALSE))}
  /\ overlap' = (overlap /\ Going # {j})
  /\ UNCHANGED <<daemon, queries, clicks, screen>>

\* Whatever the outcome.
Say(j) ==
  /\ job[j].at = "answered" /\ job' = [job EXCEPT ![j].at = "said"]
  /\ channel' = Append(channel, Busy(FALSE))
  /\ overlap' = (overlap /\ Going # {j})
  /\ UNCHANGED <<daemon, queries, clicks, screen>>

AskAgain(j) ==
  /\ job[j].at = "said" /\ job' = [job EXCEPT ![j] = Off] /\ Refresh
  /\ UNCHANGED <<daemon, user, channel, screen>>

-----------------------------------------------------------------------------
\* Somebody else's `tort up` or `tort down`, or the death of a part.
Elsewhere ==
  /\ serving = {} /\ changes < MaxChanges /\ changes' = changes + 1
  /\ tunnel' \in Tunnels \ {tunnel}
  /\ UNCHANGED <<serving, threads, user, channel, screen>>

Query(ask) == Answer(ask) \/ NoAnswer(ask)
Job(j)   == Begin(j) \/ End(j) \/ NotServed(j) \/ Say(j) \/ AskAgain(j)

Next ==
  \/ Tick \/ Click \/ Receive \/ Elsewhere
  \/ \E ask \in Asks : Query(ask)
  \/ \E u \in Replies : Send(u)
  \/ \E j \in Jobs : Job(j)

SendStatus   == \E t \in Tunnels : Send(Status(t))
SendCircuits == \E u \in Replies : u.kind # "status" /\ Send(u)

\* The main loop and the threads run, the timer fires, the daemon ends what it
\* serves; and it is not away every time it is asked for the status.
Fairness ==
  /\ WF_vars(Receive) /\ WF_vars(Tick)
  /\ SF_vars(\E j \in Jobs : Job(j))
  /\ SF_vars(Answer("status")) /\ WF_vars(Query("route"))
  /\ SF_vars(SendStatus) /\ SF_vars(SendCircuits)

Spec     == Init /\ [][Next]_vars
FairSpec == Spec /\ Fairness

-----------------------------------------------------------------------------
(* Properties.                                                             *)

\* Types; no update is of a kind the loop does not receive.
TypeOK ==
  /\ tunnel \in Tunnels /\ serving \subseteq Jobs /\ changes \in 0..MaxChanges
  /\ asking \in [Asks -> Nat] /\ answered \in [Replies -> Nat]
  /\ \A j \in Jobs : job[j].at \in {"off", "asked", "serving", "answered", "said"}
  /\ serving = {j \in Jobs : job[j].at = "serving"}
  /\ \A i \in DOMAIN channel :
       channel[i].kind \in {"status", "circuits", "busy"}
  /\ is_up \in BOOLEAN /\ shown \in Shown /\ button \in {"Connect", "Disconnect"}
  /\ sensitive \in BOOLEAN /\ has_circuits \in BOOLEAN

\* The button is dead while a request is in flight, once the loop has read that
\* it is; only a second click of before that undoes it, and lets two requests
\* queue up.
AloneIsHeld ==
  Going # {} /\ ~overlap /\ sensitive => Contains(channel, Busy(TRUE))

\* A dead button has what revives it in the channel, or a thread that will send it:
\* whatever was clicked twice, no request ends without undoing the last Busy(true).
DeadIsInHand ==
  ~sensitive => Going # {} \/ Contains(channel, Busy(FALSE))

\* The button comes back, whatever became of the request.
ButtonComesBack == ~sensitive ~> sensitive

\* Circuits of a tunnel known to be down go from the screen, even those that
\* arrive after the news.
StaleCircuitsGo == has_circuits /\ ~is_up ~> ~has_circuits \/ is_up

\* Late answers do not win in the end: once the tunnel stays as it is, the
\* window comes to say so, and the button to fit it.
Settles ==
  <>[](/\ is_up = (tunnel = "up")
       /\ shown = "partial" <=> tunnel = "partial"
       /\ button = IF tunnel = "up" THEN "Disconnect" ELSE "Connect")
=============================================================================
