------------------------------ MODULE TorLife ------------------------------
(***************************************************************************)
(* What is promised of tort's tor and of its log, whoever starts and stops *)
(* it: there is one at most, a log that says "done" was written since the  *)
(* last launch by the tor that was launched, unless the log of before      *)
(* would not go, and a tor that has been killed does nothing any more but  *)
(* end. Tunnel and TorInstance both implement it.                          *)
(***************************************************************************)
VARIABLES
  tor,  \* none, boot, ready, or killed: told to die and not gone yet
  log   \* what the log says: clear, done, err, or old: done, by a tor of before

life == <<tor, log>>

LifeInit == tor = "none" /\ log = "clear"

\* What a log that cannot be removed says to the next tor.
Left == IF log = "done" THEN "old" ELSE log

Launch   == tor = "none" /\ tor' = "boot" /\ log' \in {"clear", Left}
ClearLog == tor \in {"none", "killed"} /\ log' \in {"clear", Left} /\ UNCHANGED tor
Boots    == tor = "boot" /\ tor' = "ready" /\ log' = "done"
Errs     == tor = "boot" /\ log # "old" /\ log' = "err" /\ UNCHANGED tor
Killed   == tor \in {"boot", "ready"} /\ tor' = "killed" /\ UNCHANGED log
Ends     == tor' = "none" /\ UNCHANGED log

LifeNext == Launch \/ ClearLog \/ Boots \/ Errs \/ Killed \/ Ends

LifeSpec == LifeInit /\ [][LifeNext]_life
=============================================================================
