----------------------------- MODULE StatusCache -----------------------------
(***************************************************************************)
(* The verification the daemon remembers (LAST_CHECK, src/daemon.rs): what  *)
(* `status` answers from it, the refresh it starts on a thread when it has  *)
(* expired, and the operations that drop or replace it. The tunnel itself   *)
(* is a number, so that an answer can be asked which tunnel it is about,    *)
(* and whether all three pieces of it are there; module Tunnel has the rest.*)
(***************************************************************************)
EXTENDS Naturals, FiniteSets

CONSTANTS
  Threads,    \* refresh threads
  MaxTunnels  \* bound: tunnels built over a behaviour

ASSUME MaxTunnelsAssumption == MaxTunnels \in Nat

VARIABLES
  tunnel,      \* the tunnel whose namespace there is, 0 for none
  whole,       \* its rules and its tor are there too: is_up()
  built,       \* tunnels built so far
  cache,       \* LAST_CHECK
  fresh,       \* made.elapsed() < CHECK_TTL
  refreshing,  \* REFRESHING
  thread,      \* of each refresh thread: where it is, and its result
  pc,          \* where the accept loop is
  told         \* the last status answer: the tunnel then, and the check given

vars == <<tunnel, whole, built, cache, fresh, refreshing, thread, pc, told>>

Verdicts == {"tor", "unverified"}

\* A CheckResult, with what it does not say of itself: the tunnel it measured (0
\* when the probe never entered one), and whether the cache was invalidated
\* between the start of its measurement and its arrival.
Checks  == [of : 0..MaxTunnels, verdict : Verdicts, overtaken : BOOLEAN]
NoCheck == [of |-> 0, verdict |-> "none", overtaken |-> FALSE]

Places  == {"off", "spawned", "inside", "measured", "failed", "stored"}
Off     == [at |-> "off", check |-> NoCheck]

Measured(v) == [of |-> tunnel, verdict |-> v, overtaken |-> FALSE]

Init ==
  /\ tunnel = 0 /\ whole = FALSE /\ built = 0
  /\ cache = NoCheck /\ fresh = FALSE /\ refreshing = FALSE
  /\ thread = [t \in Threads |-> Off]
  /\ pc = "idle" /\ told = [tunnel |-> 0, check |-> NoCheck]

-----------------------------------------------------------------------------
(* The cache.                                                              *)

remember_check(c) == cache' = c /\ fresh' = TRUE

\* Mutant: LAST_CHECK is left as it is.
invalidate_nothing ==
  /\ thread' = [t \in Threads |-> [thread[t] EXCEPT !.check.overtaken = @ \/ thread[t].at # "off"]]
  /\ UNCHANGED <<cache, fresh>>

\* Nothing tells a refresh in flight that it has been overtaken: the mark is
\* the model's, not the program's.
invalidate_check ==
  /\ cache' = NoCheck /\ fresh' = FALSE
  /\ thread' = [t \in Threads |-> [thread[t] EXCEPT !.check.overtaken = @ \/ thread[t].at # "off"]]

-----------------------------------------------------------------------------
(* The accept loop.                                                        *)

\* Even an `up` that finds the tunnel up, or a namespace in its way, has dropped
\* the check by then.
Up ==
  /\ pc = "idle" /\ invalidate_check
  /\ pc' = IF tunnel = 0 /\ built < MaxTunnels THEN "build" ELSE "idle"
  /\ UNCHANGED <<tunnel, whole, built, refreshing, told>>

\* The namespace first, ...
Build ==
  /\ pc = "build"
  /\ \/ built' = built + 1 /\ tunnel' = built' /\ pc' = "boot"
     \/ pc' = "idle" /\ UNCHANGED <<tunnel, built>>
  /\ UNCHANGED <<whole, cache, fresh, refreshing, thread, told>>

\* ... then tor and the rules; a failure deletes the namespace, if it can.
Boot ==
  /\ pc = "boot"
  /\ \/ whole' = TRUE /\ pc' = "prove" /\ UNCHANGED tunnel
     \/ tunnel' \in {0, tunnel} /\ pc' = "idle" /\ UNCHANGED whole
  /\ UNCHANGED <<built, cache, fresh, refreshing, thread, told>>

\* up_and_verify remembers the result before it looks at it; a probe that could
\* not be run leaves no result, and the tunnel up.
Prove ==
  /\ pc = "prove"
  /\ \/ \E v \in Verdicts :
          /\ v = "tor" => whole
          /\ remember_check(Measured(v))
          /\ pc' = IF v = "tor" THEN "idle" ELSE "stop"
     \/ pc' = "idle" /\ UNCHANGED <<cache, fresh>>
  /\ UNCHANGED <<tunnel, whole, built, refreshing, thread, told>>

Down ==
  /\ pc = "idle" /\ invalidate_check /\ pc' = "stop"
  /\ UNCHANGED <<tunnel, whole, built, refreshing, told>>

\* stop_processes: a refresh whose probe is inside loses it, and has no result.
\* If a program cannot be stopped the tunnel stays.
StopInside ==
  /\ pc = "stop"
  /\ \/ /\ pc' \in {"destroy", "idle"}
        /\ thread' = [t \in Threads |-> IF thread[t].at = "inside"
                                          THEN [thread[t] EXCEPT !.at = "failed"]
                                          ELSE thread[t]]
     \/ pc' = "idle" /\ UNCHANGED thread
  /\ UNCHANGED <<tunnel, whole, built, cache, fresh, refreshing, told>>

\* What can still be there afterwards is a namespace that would not go, and with
\* luck the rest.
Destroy ==
  /\ pc = "destroy" /\ pc' = "idle" /\ tunnel' \in {0, tunnel}
  /\ whole' \in {FALSE, whole /\ tunnel' # 0}
  /\ UNCHANGED <<built, cache, fresh, refreshing, thread, told>>

\* `verify` always measures, and keeps the result to itself.
Verify ==
  /\ pc = "idle" /\ invalidate_check
  /\ UNCHANGED <<tunnel, whole, built, refreshing, pc, told>>

Answer(c) == told' = [tunnel |-> tunnel, check |-> c]

\* The status report of a tunnel that is not whole has no check.
StatusDown ==
  /\ pc = "idle" /\ ~whole /\ Answer(NoCheck)
  /\ UNCHANGED <<tunnel, whole, built, cache, fresh, refreshing, thread, pc>>

StatusFresh ==
  /\ pc = "idle" /\ whole /\ cache # NoCheck /\ fresh
  /\ Answer(cache)
  /\ UNCHANGED <<tunnel, whole, built, cache, fresh, refreshing, thread, pc>>

\* The expired answer is given all the same, with a refresh started behind it
\* unless one is in flight.
StatusStale ==
  /\ pc = "idle" /\ whole /\ cache # NoCheck /\ ~fresh
  /\ Answer(cache) /\ refreshing' = TRUE
  /\ IF refreshing
       THEN UNCHANGED thread
       ELSE \E t \in Threads : /\ thread[t].at = "off"
                               /\ thread' = [thread EXCEPT ![t].at = "spawned"]
  /\ UNCHANGED <<tunnel, whole, built, cache, fresh, pc>>

\* Nothing remembered: this one waits for Tor.
StatusWait ==
  /\ pc = "idle" /\ whole /\ cache = NoCheck /\ pc' = "measure"
  /\ UNCHANGED <<tunnel, whole, built, cache, fresh, refreshing, thread, told>>

StatusMeasured ==
  /\ pc = "measure" /\ pc' = "idle"
  /\ \/ \E v \in Verdicts : /\ v = "tor" => whole
                            /\ remember_check(Measured(v)) /\ Answer(Measured(v))
     \/ Answer(NoCheck) /\ UNCHANGED <<cache, fresh>>
  /\ UNCHANGED <<tunnel, whole, built, refreshing, thread>>

-----------------------------------------------------------------------------
(* The refresh thread.                                                     *)

\* The probe enters whatever tunnel there is by now; failing that its answer is
\* `unverified`, which is a result like any other.
Enter(t) ==
  /\ thread[t].at = "spawned"
  /\ thread' = [thread EXCEPT
                  ![t] = [at    |-> IF tunnel = 0 THEN "measured" ELSE "inside",
                          check |-> [Measured("unverified") EXCEPT !.overtaken = thread[t].check.overtaken]]]
  /\ UNCHANGED <<tunnel, whole, built, cache, fresh, refreshing, pc, told>>

\* Only a whole tunnel still there can carry the probe's request to Tor.
Measure(t) ==
  /\ thread[t].at = "inside"
  /\ \E v \in Verdicts :
       /\ v = "tor" => whole /\ thread[t].check.of = tunnel
       /\ thread' = [thread EXCEPT ![t] = [at    |-> "measured",
                                           check |-> [@.check EXCEPT !.verdict = v]]]
  /\ UNCHANGED <<tunnel, whole, built, cache, fresh, refreshing, pc, told>>

\* The probe cannot be run, dies, or prints nothing usable.
Fail(t) ==
  /\ thread[t].at \in {"spawned", "inside"}
  /\ thread' = [thread EXCEPT ![t].at = "failed"]
  /\ UNCHANGED <<tunnel, whole, built, cache, fresh, refreshing, pc, told>>

\* Mutant: the flag is put back before the result is stored.
StoreLast(t) ==
  /\ thread[t].at = "measured" /\ remember_check(thread[t].check)
  /\ thread' = [thread EXCEPT ![t].at = "stored"] /\ refreshing' = FALSE
  /\ UNCHANGED <<tunnel, whole, built, pc, told>>

Store(t) ==
  /\ thread[t].at = "measured" /\ remember_check(thread[t].check)
  /\ thread' = [thread EXCEPT ![t].at = "stored"]
  /\ UNCHANGED <<tunnel, whole, built, refreshing, pc, told>>

\* Mutant: a failed probe returns early, with the flag still up.
EndIfStored(t) ==
  /\ thread[t].at \in {"stored", "failed"}
  /\ thread' = [thread EXCEPT ![t] = Off]
  /\ refreshing' = (refreshing /\ thread[t].at = "failed")
  /\ UNCHANGED <<tunnel, whole, built, cache, fresh, pc, told>>

End(t) ==
  /\ thread[t].at \in {"stored", "failed"}
  /\ thread' = [thread EXCEPT ![t] = Off]
  /\ refreshing' = FALSE
  /\ UNCHANGED <<tunnel, whole, built, cache, fresh, pc, told>>

-----------------------------------------------------------------------------
Expire ==
  /\ fresh /\ fresh' = FALSE
  /\ UNCHANGED <<tunnel, whole, built, cache, refreshing, thread, pc, told>>

\* tor dies.
Break ==
  /\ whole /\ whole' = FALSE
  /\ UNCHANGED <<tunnel, built, cache, fresh, refreshing, thread, pc, told>>

\* The daemon dies and starts again: its memory is empty, the kernel's is not.
Restart ==
  /\ cache' = NoCheck /\ fresh' = FALSE /\ refreshing' = FALSE
  /\ thread' = [t \in Threads |-> Off]
  /\ pc' = "idle" /\ tunnel' \in {0, tunnel}
  /\ whole' \in {FALSE, whole /\ tunnel' # 0}
  /\ told' = [tunnel |-> 0, check |-> NoCheck]
  /\ UNCHANGED built

Status == StatusDown \/ StatusFresh \/ StatusStale \/ StatusWait
Loop   == Build \/ Boot \/ Prove \/ StopInside \/ Destroy \/ StatusMeasured
Refresh(t) == Enter(t) \/ Measure(t) \/ Fail(t) \/ Store(t) \/ End(t)

Next ==
  \/ Up \/ Down \/ Verify \/ Status \/ Loop \/ Expire \/ Break \/ Restart
  \/ \E t \in Threads : Refresh(t)

\* The accept loop finishes what it begins; a thread gets to run and its probe's
\* HTTP client has a deadline; time passes; the GUI polls; and a probe repeated
\* for ever is not killed every time.
Fairness ==
  /\ WF_vars(Loop) /\ WF_vars(Expire) /\ WF_vars(Status)
  /\ \A t \in Threads : WF_vars(Refresh(t)) /\ SF_vars(Enter(t)) /\ SF_vars(Measure(t))

Spec     == Init /\ [][Next]_vars
FairSpec == Spec /\ Fairness

-----------------------------------------------------------------------------
(* Properties.                                                             *)

\* Types, and: a result is in the thread's hands only while it is measuring.
TypeOK ==
  /\ tunnel \in 0..built /\ built \in 0..MaxTunnels
  /\ whole \in BOOLEAN /\ (whole => tunnel # 0)
  /\ cache \in Checks \cup {NoCheck} /\ fresh \in BOOLEAN
  /\ refreshing \in BOOLEAN
  /\ \A t \in Threads : thread[t].at \in Places
  /\ pc \in {"idle", "build", "boot", "prove", "stop", "destroy", "measure"}
  /\ told.tunnel \in 0..built /\ told.check \in Checks \cup {NoCheck}

\* A burst of status polls starts one refresh rather than one each, and no
\* refresh is in flight with REFRESHING down.
OneRefresh ==
  LET busy == {t \in Threads : thread[t].at # "off"}
  IN Cardinality(busy) <= 1 /\ (busy # {} <=> refreshing)

\* A check given for a tunnel it does not describe comes from a refresh that was
\* in flight when the cache was last dropped: every other way for a result to
\* outlive its tunnel (a failed `up` that remembered its verdict, an `up` whose
\* probe could not run, a teardown that failed) is closed by invalidate_check.
WrongIsOvertaken ==
  told.check # NoCheck /\ told.check.of # told.tunnel => told.check.overtaken

\* A remembered check that does not describe the tunnel that is up is replaced
\* or dropped, as long as somebody polls.
WrongIsReplaced ==
  (cache # NoCheck /\ whole /\ cache.of # tunnel)
     ~> (cache = NoCheck \/ ~whole \/ cache.of = tunnel)
=============================================================================
