------------------------------- MODULE Daemon -------------------------------
(***************************************************************************)
(* The daemon's socket (src/daemon.rs), its clients (src/client.rs, and    *)
(* via_daemon of src/main.rs), the question to polkit (src/polkit.rs) and  *)
(* the threads that wait for the programs of `run`. One accept loop serves *)
(* one connection at a time, from its request to its answer; what can keep *)
(* it waiting is a client that says nothing, a prompt nobody answers and a *)
(* terminal that takes no more. The operations are atomic here: Tunnel has *)
(* them step by step.                                                      *)
(***************************************************************************)
EXTENDS Integers, Sequences

CONSTANTS
  Clients,    \* processes that talk to the daemon, one connection at a time
  Nobody,     \* no client
  MaxCrashes  \* bound: deaths of the daemon over a behaviour

ASSUME ClientsAssumption == Nobody \notin Clients /\ MaxCrashes \in Nat

VARIABLES
  at,       \* of each client: off, mute (connected), sent, gone (dead, its
            \*   connection not yet dropped), told (answered) or cut
  req,      \* of each client: the request in its connection, or NoReq
  backlog,  \* connections made and not yet accepted, oldest first
  pc,       \* what the accept loop is doing
  cur,      \* whom it does it for
  up,       \* is the tunnel up?
  prog,     \* of each client: the program of its `run`, and its waiter thread
  frozen,   \* clients whose terminal is stopped and takes no more output
  granted,  \* history: those whose present request polkit allowed
  crashes   \* deaths of the daemon so far

loop == <<pc, cur>>
conn == <<at, req>>
vars == <<conn, backlog, loop, up, prog, frozen, granted, crashes>>

-----------------------------------------------------------------------------
(* Requests: what the command line and the window send.                    *)

\* `look` is verify, onion and route; polls of the window are not interactive,
\* and a status, about which nobody is asked, need not be.
\* A request longer than the 8192 bytes of the one recvmsg is not whole.
Requests ==
  {r \in [op : {"up", "down", "run", "look", "status"},
          interactive : BOOLEAN, whole : BOOLEAN] :
     /\ r.interactive \/ r.op \in {"look", "status"}
     /\ r.interactive => r.op # "status"
     /\ r.whole \/ r.op = "run"}

NoReq == [op |-> "none", interactive |-> FALSE, whole |-> FALSE]

\* polkit_action: status alone is answered to anybody.
NeedsLeave(r) == r.op # "status"

\* `up` writes its progress to the terminal it was lent.
Lends(r) == r.op = "up"

-----------------------------------------------------------------------------
Init ==
  /\ at = [c \in Clients |-> "off"] /\ req = [c \in Clients |-> NoReq]
  /\ backlog = <<>> /\ pc = "dead" /\ cur = Nobody
  /\ up \in BOOLEAN /\ prog = [c \in Clients |-> "none"]
  /\ frozen = {} /\ granted = {} /\ crashes = 0

(* Clients, and the people at them.                                        *)

Connect(c) ==
  /\ pc # "dead" /\ at[c] \in {"off", "told", "cut"} /\ prog[c] = "none"
  /\ at' = [at EXCEPT ![c] = "mute"]
  /\ backlog' = Append(backlog, c)
  /\ UNCHANGED <<req, loop, up, prog, frozen, granted, crashes>>

Send(c) ==
  /\ at[c] = "mute" /\ at' = [at EXCEPT ![c] = "sent"]
  /\ \E r \in Requests : req' = [req EXCEPT ![c] = r]
  /\ UNCHANGED <<backlog, loop, up, prog, frozen, granted, crashes>>

Die(c) ==
  /\ at[c] \in {"mute", "sent"} /\ at' = [at EXCEPT ![c] = "gone"]
  /\ UNCHANGED <<req, backlog, loop, up, prog, frozen, granted, crashes>>

Freeze(c) ==
  /\ Lends(req[c]) /\ frozen' = frozen \cup {c}
  /\ UNCHANGED <<conn, backlog, loop, up, prog, granted, crashes>>

Thaw(c) ==
  /\ c \in frozen /\ frozen' = frozen \ {c}
  /\ UNCHANGED <<conn, backlog, loop, up, prog, granted, crashes>>

-----------------------------------------------------------------------------
(* The accept loop.                                                        *)

\* The connection of c is done with: the client has its answer, or finds the
\* connection closed.
Close(c, how) ==
  /\ at' = [at EXCEPT ![c] = IF @ = "gone" THEN "off" ELSE how]
  /\ req' = [req EXCEPT ![c] = NoReq]
  /\ frozen' = frozen \ {c} /\ granted' = granted \ {c}

Served(how) == Close(cur, how) /\ pc' = "accept" /\ cur' = Nobody

Accept ==
  /\ pc = "accept" /\ backlog # <<>>
  /\ cur' = Head(backlog) /\ backlog' = Tail(backlog) /\ pc' = "read"
  /\ UNCHANGED <<conn, up, prog, frozen, granted, crashes>>

\* read_request blocks until there is something to read, or nobody to write.
\* What is no request, for being cut short or for never having been sent, is
\* not answered.
Read ==
  /\ pc = "read" /\ at[cur] # "mute"
  /\ IF req[cur].whole
       THEN /\ pc' = IF NeedsLeave(req[cur]) THEN "ask" ELSE "work"
            /\ UNCHANGED <<conn, cur, frozen, granted>>
       ELSE Served("cut")
  /\ UNCHANGED <<backlog, up, prog, crashes>>

\* polkit::check of an interactive request may leave it to a person; it fails
\* outright when the process to be asked about is no more, or pkcheck is not.
Ask ==
  /\ pc = "ask"
  /\ \/ Served("told")                                          \* Denied
     \/ Served("cut")                                           \* an error
     \/ pc' = "work" /\ granted' = granted \cup {cur} /\ UNCHANGED <<conn, cur, frozen>>
     \/ /\ req[cur].interactive /\ pc' = "prompt"
        /\ UNCHANGED <<conn, cur, frozen, granted>>
  /\ UNCHANGED <<backlog, up, prog, crashes>>

PersonAnswers ==
  /\ pc = "prompt"
  /\ \/ Served("told")
     \/ pc' = "work" /\ granted' = granted \cup {cur} /\ UNCHANGED <<conn, cur, frozen>>
  /\ UNCHANGED <<backlog, up, prog, crashes>>

\* up_and_verify: each line of progress is written, to the terminal lent, before
\* the work goes on. A tunnel that is up already takes no work, and no line.
Up ==
  /\ pc = "work" /\ req[cur].op = "up" /\ (up \/ cur \notin frozen)
  /\ up' \in {up, TRUE} /\ Served("told")
  /\ UNCHANGED <<backlog, prog, crashes>>

\* down() stops the programs inside, all of them or (failing) some.
Down ==
  /\ pc = "work" /\ req[cur].op = "down" /\ Served("told")
  /\ \E gone \in SUBSET {c \in Clients : prog[c] = "running"} :
       prog' = [c \in Clients |-> IF c \in gone THEN "ended" ELSE prog[c]]
  /\ up' \in {up, FALSE}
  /\ UNCHANGED <<backlog, crashes>>

Look ==
  /\ pc = "work" /\ req[cur].op \in {"look", "status"} /\ Served("told")
  /\ UNCHANGED <<backlog, up, prog, crashes>>

\* Mutant: the accept loop waits for the program it has started.
RunHere ==
  /\ pc = "work" /\ req[cur].op = "run"
  /\ \/ Served("told") /\ UNCHANGED prog
     \/ /\ up /\ prog[cur] = "none" /\ prog' = [prog EXCEPT ![cur] = "running"]
        /\ UNCHANGED <<conn, loop, frozen, granted>>
     \/ prog[cur] = "ended" /\ UNCHANGED prog /\ Served("told")
  /\ UNCHANGED <<backlog, up, crashes>>

\* Mutant: a program started is as good as a program run.
RunAndTell ==
  /\ pc = "work" /\ req[cur].op = "run" /\ Served("told")
  /\ prog' \in {prog} \cup IF up THEN {[prog EXCEPT ![cur] = "running"]} ELSE {}
  /\ UNCHANGED <<backlog, up, crashes>>

\* start_run: the fork is made here, and the connection goes to a thread of its
\* own with the program to wait for.
Run ==
  /\ pc = "work" /\ req[cur].op = "run"
  /\ \/ Served("told") /\ UNCHANGED prog                   \* not up, or no fork
     \/ /\ up /\ prog' = [prog EXCEPT ![cur] = "running"]
        /\ pc' = "accept" /\ cur' = Nobody
        /\ UNCHANGED <<conn, frozen, granted>>
  /\ UNCHANGED <<backlog, up, crashes>>

-----------------------------------------------------------------------------
(* The programs, the threads that wait for them, and the daemon's death.   *)

ProgramEnds(c) ==
  /\ prog[c] = "running" /\ prog' = [prog EXCEPT ![c] = "ended"]
  /\ UNCHANGED <<conn, backlog, loop, up, frozen, granted, crashes>>

Report(c) ==
  /\ prog[c] = "ended" /\ prog' = [prog EXCEPT ![c] = "none"] /\ Close(c, "told")
  /\ UNCHANGED <<backlog, loop, up, crashes>>

\* Every connection is closed, accepted or not. The programs that live on (when
\* the daemon was started by hand) have nobody who waits for them.
Crash ==
  /\ pc # "dead" /\ crashes < MaxCrashes /\ crashes' = crashes + 1
  /\ pc' = "dead" /\ cur' = Nobody /\ backlog' = <<>>
  /\ at' = [c \in Clients |-> IF at[c] \in {"mute", "sent"} THEN "cut"
                              ELSE IF at[c] = "gone" THEN "off" ELSE at[c]]
  /\ req' = [c \in Clients |-> NoReq] /\ prog' = [c \in Clients |-> "none"]
  /\ frozen' = {} /\ granted' = {} /\ up' \in {up, FALSE}

\* serve(): what is left of a tunnel is cleaned up before the socket is bound.
Restart ==
  /\ pc = "dead" /\ pc' = "accept"
  /\ UNCHANGED <<conn, cur, backlog, up, prog, frozen, granted, crashes>>

-----------------------------------------------------------------------------
Serve   == Accept \/ Read \/ Ask \/ Up \/ Down \/ Look \/ Run \/ Restart

Outside ==
  \/ PersonAnswers \/ Crash
  \/ \E c \in Clients : Connect(c) \/ Send(c) \/ Die(c) \/ Freeze(c) \/ Thaw(c)
                        \/ ProgramEnds(c)

Next == Serve \/ Outside \/ \E c \in Clients : Report(c)

\* The loop goes on when it can, and a write when its terminal does; nothing is assumed
\* of waiters, clients, people or programs.
Fairness == WF_vars(Serve) /\ SF_vars(Up)

Spec     == Init /\ [][Next]_vars
FairSpec == Spec /\ Fairness

-----------------------------------------------------------------------------
(* Properties.                                                             *)

\* Every variable stays in its type, and a connection is in one place at most.
TypeOK ==
  /\ at \in [Clients -> {"off", "mute", "sent", "gone", "told", "cut"}]
  /\ req \in [Clients -> Requests \cup {NoReq}]
  /\ \A i \in DOMAIN backlog : backlog[i] \in Clients \ {cur}
  /\ \A i, j \in DOMAIN backlog : backlog[i] = backlog[j] => i = j
  /\ pc \in {"dead", "accept", "read", "ask", "prompt", "work"}
  /\ cur \in Clients \cup {Nobody} /\ up \in BOOLEAN
  /\ prog \in [Clients -> {"none", "running", "ended"}]
  /\ frozen \subseteq Clients /\ granted \subseteq Clients /\ crashes \in Nat

\* The client of a `run` is kept waiting, by its waiter alone, until its program
\* is over: no other path answers it or closes its connection meanwhile
\* (daemon.rs:122).
HeardAtTheEnd ==
  \A c \in Clients : prog[c] # "none" =>
    /\ at[c] \in {"sent", "gone"} /\ req[c].op = "run" /\ c \in granted
    /\ c # cur /\ \A i \in DOMAIN backlog : backlog[i] # c

\* Whose answer the accept loop waits for, when it waits for a person.
HeldByClient   == pc = "read" /\ at[cur] = "mute"
HeldByPrompt   == pc = "prompt"
HeldByTerminal == pc = "work" /\ cur \in frozen /\ ~up

\* Programs may run for ever: whoever has sent a request other than `run` has it
\* answered, or its connection closed, unless a client stays silent for ever, a
\* prompt unanswered or a terminal stopped. "Everything else - Disconnect above
\* all - must still be served meanwhile" (daemon.rs:124).
OnlyPeopleHoldIt ==
  []<>~HeldByClient /\ []<>~HeldByPrompt /\ []<>~HeldByTerminal
    => \A c \in Clients :
         (at[c] = "sent" /\ prog[c] = "none") ~> (at[c] # "sent" \/ prog[c] # "none")
=============================================================================
