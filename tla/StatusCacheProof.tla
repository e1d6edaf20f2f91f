-------------------------- MODULE StatusCacheProof --------------------------
(***************************************************************************)
(* Proofs about StatusCache, for any set of refresh threads and any number *)
(* of tunnels: one refresh at a time, and a wrong answer only from one     *)
(* that was overtaken.                                                     *)
(***************************************************************************)
EXTENDS StatusCache, FiniteSetTheorems, TLAPS

\* What a thread carries: nothing yet, or a check.
Carried   == [of : 0..MaxTunnels, verdict : Verdicts \cup {"none"}, overtaken : BOOLEAN]
InFlight(t) == thread[t].at # "off"

\* A thread that has been inside, or has measured, carries a check.
ThreadsOK ==
  /\ thread \in [Threads -> [at : Places, check : Carried]]
  /\ \A t \in Threads :
       thread[t].at \in {"inside", "measured"} => thread[t].check.verdict \in Verdicts

\* While `up` builds there is no whole tunnel, and room for one more.
Building ==
  /\ pc = "build" => tunnel = 0 /\ built < MaxTunnels
  /\ pc = "boot"  => tunnel # 0 /\ ~whole

\* REFRESHING is up for one thread, whose it is.
OneInFlight ==
  /\ \A t, u \in Threads : InFlight(t) /\ InFlight(u) => t = u
  /\ refreshing <=> \E t \in Threads : InFlight(t)

\* A refresh that has not been overtaken is about the tunnel there is: whatever
\* changes the tunnel has dropped the cache first.
ThreadIsCurrent ==
  \A t \in Threads :
    InFlight(t) /\ ~thread[t].check.overtaken =>
      /\ pc \in {"idle", "measure"}
      /\ thread[t].at \in {"inside", "measured"} => thread[t].check.of = tunnel

\* And so is what is remembered, while the tunnel is whole: a failed `up` and a
\* teardown leave what is remembered, and no tunnel to give it out for.
CacheIsCurrent ==
  cache # NoCheck /\ ~cache.overtaken =>
    /\ pc \notin {"build", "boot"}
    /\ whole => cache.of = tunnel

IInv ==
  /\ TypeOK
  /\ ThreadsOK
  /\ Building
  /\ OneInFlight
  /\ ThreadIsCurrent
  /\ CacheIsCurrent
  /\ WrongIsOvertaken

-----------------------------------------------------------------------------
(* The operators the actions share.                                        *)

\* What is measured of the tunnel there is, is a check of it.
LEMMA MeasuredIsCheck ==
  ASSUME TypeOK, NEW v \in Verdicts
  PROVE  /\ Measured(v) \in Checks /\ Measured(v) # NoCheck
         /\ Measured(v).of = tunnel /\ ~Measured(v).overtaken
<1>1. tunnel \in 0..MaxTunnels
  BY MaxTunnelsAssumption DEF TypeOK
<1> QED
  BY <1>1 DEF Measured, Checks, NoCheck, Verdicts

\* Dropping the cache overtakes every refresh in flight, and changes no thread
\* otherwise.
LEMMA Dropped ==
  ASSUME ThreadsOK, invalidate_check
  PROVE  /\ cache' = NoCheck /\ ThreadsOK'
         /\ \A t \in Threads : /\ thread'[t].at = thread[t].at
                               /\ InFlight(t) => thread'[t].check.overtaken
<1>1. \A t \in Threads :
        thread'[t] = [thread[t] EXCEPT !.check.overtaken = @ \/ thread[t].at # "off"]
  BY DEF invalidate_check
<1>2. ASSUME NEW t \in Threads
      PROVE  /\ thread'[t].at = thread[t].at
             /\ thread'[t].check.of = thread[t].check.of
             /\ thread'[t].check.verdict = thread[t].check.verdict
             /\ thread'[t].check.overtaken = (thread[t].check.overtaken \/ thread[t].at # "off")
             /\ thread'[t] \in [at : Places, check : Carried]
  <2> DEFINE c == thread[t].check
             o == c.overtaken \/ thread[t].at # "off"
  <2>1. thread[t] \in [at : Places, check : Carried] /\ o \in BOOLEAN
    BY DEF ThreadsOK, Carried
  <2>2. thread'[t] = [at |-> thread[t].at,
                      check |-> [of |-> c.of, verdict |-> c.verdict, overtaken |-> o]]
    BY <1>1, <2>1 DEF Carried
  <2> HIDE DEF o
  <2>3. thread'[t] \in [at : Places, check : Carried]
    BY <2>1, <2>2 DEF Carried
  <2> QED
    BY <2>2, <2>3 DEF o
<1>3. ThreadsOK'
  <2>1. thread' \in [Threads -> [at : Places, check : Carried]]
    BY <1>1, <1>2 DEF invalidate_check
  <2> QED
    BY <1>2, <2>1 DEF ThreadsOK
<1>4. \A t \in Threads : InFlight(t) => thread'[t].check.overtaken
  BY <1>2 DEF InFlight
<1> QED
  BY <1>2, <1>3, <1>4 DEF invalidate_check

\* A step of a refresh thread keeps the others as they are, and its own types.
LEMMA ThreadStep ==
  ASSUME TypeOK, ThreadsOK, NEW t \in Threads, Refresh(t)
  PROVE  /\ ThreadsOK'
         /\ \A u \in Threads : u # t => thread'[u] = thread[u]
<1> USE DEF ThreadsOK
<1>1. thread[t] \in [at : Places, check : Carried] /\ DOMAIN thread = Threads
  OBVIOUS
<1>2. tunnel \in 0..MaxTunnels
  BY MaxTunnelsAssumption DEF TypeOK
<1>3. CASE Enter(t)
  <2> DEFINE q == IF tunnel = 0 THEN "measured" ELSE "inside"
             c == [Measured("unverified") EXCEPT !.overtaken = thread[t].check.overtaken]
             r == [at |-> q, check |-> c]
  <2>1. q \in Places
    BY DEF Places
  <2>2. thread' = [thread EXCEPT ![t] = r]
    BY <1>3 DEF Enter
  <2>3. c = [of |-> tunnel, verdict |-> "unverified", overtaken |-> thread[t].check.overtaken]
    BY DEF Measured
  <2>4. thread[t].check.overtaken \in BOOLEAN
    BY <1>1 DEF Carried
  <2> HIDE DEF q, c
  <2>5. c \in Carried /\ c.verdict = "unverified"
    BY <1>2, <2>3, <2>4 DEF Carried, Verdicts
  <2>6. r \in [at : Places, check : Carried]
    BY <2>1, <2>5
  <2> QED
    BY <1>1, <2>2, <2>5, <2>6 DEF Verdicts
<1>4. CASE Measure(t)
  <2> DEFINE c(v) == [thread[t].check EXCEPT !.verdict = v]
             r(v) == [at |-> "measured", check |-> c(v)]
  <2>1. PICK v \in Verdicts : thread' = [thread EXCEPT ![t] = r(v)]
    BY <1>1, <1>4 DEF Measure
  <2>2. c(v) \in Carried /\ c(v).verdict = v
    BY <1>1 DEF Carried
  <2> HIDE DEF c
  <2>3. r(v) \in [at : Places, check : Carried]
    BY <2>2 DEF Places
  <2> QED
    BY <1>1, <2>1, <2>2, <2>3
<1>5. CASE Fail(t) \/ Store(t)
  <2>1. PICK p \in {"failed", "stored"} :
          thread' = [thread EXCEPT ![t] = [at |-> p, check |-> thread[t].check]]
    BY <1>1, <1>5 DEF Fail, Store
  <2> QED
    BY <1>1, <2>1 DEF Places
<1>6. CASE End(t)
  BY <1>1, <1>6, MaxTunnelsAssumption DEF End, Off, NoCheck, Carried, Places
<1> QED
  BY <1>3, <1>4, <1>5, <1>6 DEF Refresh

-----------------------------------------------------------------------------
(* Types, a part at a time.                                                *)

Numbers ==
  /\ tunnel \in 0..built /\ built \in 0..MaxTunnels /\ told.tunnel \in 0..built
  /\ pc = "build" => tunnel = 0 /\ built < MaxTunnels
  /\ pc = "boot"  => tunnel # 0

Flags ==
  /\ whole \in BOOLEAN /\ fresh \in BOOLEAN /\ refreshing \in BOOLEAN
  /\ whole => tunnel # 0 /\ pc # "boot"

Given ==
  /\ cache \in Checks \cup {NoCheck} /\ told.check \in Checks \cup {NoCheck}
  /\ pc \in {"idle", "build", "boot", "prove", "stop", "destroy", "measure"}

Typed == TypeOK /\ ThreadsOK /\ Building

LEMMA TypedParts == Typed <=> Numbers /\ Flags /\ Given /\ ThreadsOK
  BY DEF Typed, TypeOK, Building, ThreadsOK, Numbers, Flags, Given

LEMMA NumbersStep == Numbers /\ [Next]_vars => Numbers'
<1> SUFFICES ASSUME Numbers, [Next]_vars
             PROVE  Numbers'
  OBVIOUS
<1> USE MaxTunnelsAssumption DEF Numbers
<1>1. CASE Up \/ Down \/ Verify
  BY <1>1 DEF Up, Down, Verify
<1>2. CASE Build
  BY <1>2 DEF Build
<1>7. CASE Boot
  BY <1>7 DEF Boot
<1>8. CASE Destroy
  BY <1>8 DEF Destroy
<1>3. CASE Prove \/ StopInside \/ Expire \/ Break \/ UNCHANGED vars
  BY <1>3 DEF Prove, StopInside, Expire, Break, vars
<1>4. CASE Status \/ StatusMeasured
  BY <1>4 DEF Status, StatusDown, StatusFresh, StatusStale, StatusWait, StatusMeasured, Answer
<1>5. CASE Restart
  BY <1>5 DEF Restart
<1>6. ASSUME NEW t \in Threads, Refresh(t)  PROVE Numbers'
  BY <1>6 DEF Refresh, Enter, Measure, Fail, Store, End
<1> QED
  BY <1>1, <1>2, <1>3, <1>4, <1>5, <1>6, <1>7, <1>8 DEF Next, Loop

\* The three flags are flags ...
LEMMA BooleanStep == Flags /\ [Next]_vars => (whole \in BOOLEAN /\ fresh \in BOOLEAN)'
<1> SUFFICES ASSUME Flags, [Next]_vars
             PROVE  whole' \in BOOLEAN /\ fresh' \in BOOLEAN
  OBVIOUS
<1>1. whole' \in BOOLEAN
  <2>1. CASE Boot \/ Destroy \/ Break \/ Restart
    BY <2>1 DEF Flags, Boot, Destroy, Break, Restart
  <2>2. CASE UNCHANGED whole
    BY <2>2 DEF Flags
  <2> QED
    BY <2>1, <2>2 DEF Next, Loop, Status, Up, Down, Verify, Build, Prove, StopInside,
       StatusMeasured, StatusDown, StatusFresh, StatusStale, StatusWait, Expire, vars,
       Refresh, Enter, Measure, Fail, Store, End
<1>2. fresh' \in BOOLEAN
  <2>1. CASE fresh' = TRUE \/ fresh' = FALSE
    BY <2>1
  <2>2. CASE UNCHANGED fresh
    BY <2>2 DEF Flags
  <2> QED
    BY <2>1, <2>2 DEF Next, Loop, Status, Up, Down, Verify, Build, Boot, Prove, StopInside,
       Destroy, StatusMeasured, StatusDown, StatusFresh, StatusStale, StatusWait, Expire,
       Break, Restart, vars, Refresh, Enter, Measure, Fail, Store, End, remember_check,
       invalidate_check
<1> QED
  BY <1>1, <1>2

LEMMA RefreshingStep == Flags /\ [Next]_vars => (refreshing \in BOOLEAN)'
<1> SUFFICES ASSUME Flags, [Next]_vars
             PROVE  refreshing' \in BOOLEAN
  OBVIOUS
<1>1. CASE refreshing' = TRUE \/ refreshing' = FALSE
  BY <1>1
<1>2. CASE UNCHANGED refreshing
  BY <1>2 DEF Flags
<1> QED
  BY <1>1, <1>2 DEF Next, Loop, Status, Up, Down, Verify, Build, Boot, Prove, StopInside,
     Destroy, StatusMeasured, StatusDown, StatusFresh, StatusStale, StatusWait, Expire,
     Break, Restart, vars, Refresh, Enter, Measure, Fail, Store, End

\* ... and a whole tunnel is a tunnel, that nobody is building.
LEMMA WholeStep == Numbers /\ Flags /\ [Next]_vars => (whole => tunnel # 0 /\ pc # "boot")'
<1> SUFFICES ASSUME Numbers, Flags, [Next]_vars, whole'
             PROVE  tunnel' # 0 /\ pc' # "boot"
  OBVIOUS
<1> USE DEF Flags
<1>1. CASE Up
  BY <1>1 DEF Up
<1>2. CASE Build
  BY <1>2 DEF Build, Numbers
<1>3. CASE Boot
  BY <1>3 DEF Boot, Numbers
<1>4. CASE Destroy
  BY <1>4 DEF Destroy
<1>5. CASE Prove \/ StopInside \/ Down \/ Verify \/ Expire \/ Break \/ UNCHANGED vars
  BY <1>5 DEF Prove, StopInside, Down, Verify, Expire, Break, vars
<1>6. CASE Status \/ StatusMeasured
  BY <1>6 DEF Status, StatusDown, StatusFresh, StatusStale, StatusWait, StatusMeasured
<1>7. CASE Restart
  BY <1>7 DEF Restart
<1>8. ASSUME NEW t \in Threads, Refresh(t)  PROVE tunnel' # 0 /\ pc' # "boot"
  BY <1>8 DEF Refresh, Enter, Measure, Fail, Store, End
<1> QED
  BY <1>1, <1>2, <1>3, <1>4, <1>5, <1>6, <1>7, <1>8 DEF Next, Loop

LEMMA FlagsStep == Numbers /\ Flags /\ [Next]_vars => Flags'
  BY BooleanStep, RefreshingStep, WholeStep DEF Flags

LEMMA GivenStep == Typed /\ [Next]_vars => Given'
<1> SUFFICES ASSUME Typed, [Next]_vars
             PROVE  Given'
  OBVIOUS
<1> USE DEF Given
<1>1. TypeOK /\ ThreadsOK /\ Given
  BY TypedParts DEF Typed
<1>2. \A v \in Verdicts : Measured(v) \in Checks
  BY <1>1, MeasuredIsCheck
<1>3. CASE Up \/ Down \/ Verify
  BY <1>1, <1>3 DEF Up, Down, Verify, invalidate_check
<1>4. CASE Build \/ Boot \/ Destroy \/ StopInside \/ Expire \/ Break \/ UNCHANGED vars
  BY <1>1, <1>4 DEF Build, Boot, Destroy, StopInside, Expire, Break, vars
<1>5. CASE Prove \/ StatusMeasured
  BY <1>1, <1>2, <1>5 DEF Prove, StatusMeasured, Answer, remember_check
<1>6. CASE Status
  BY <1>1, <1>6 DEF Status, StatusDown, StatusFresh, StatusStale, StatusWait, Answer
<1>7. CASE Restart
  BY <1>1, <1>7 DEF Restart
<1>8. ASSUME NEW t \in Threads, Refresh(t)  PROVE Given'
  <2>1. thread[t].at = "measured" => thread[t].check \in Checks
    BY <1>1 DEF ThreadsOK, Carried, Checks
  <2> QED
    BY <1>1, <1>8, <2>1 DEF Refresh, Enter, Measure, Fail, Store, End, remember_check
<1> QED
  BY <1>3, <1>4, <1>5, <1>6, <1>7, <1>8 DEF Next, Loop

LEMMA ThreadsStep == Typed /\ [Next]_vars => ThreadsOK'
<1> SUFFICES ASSUME Typed, [Next]_vars
             PROVE  ThreadsOK'
  OBVIOUS
<1>1. TypeOK /\ ThreadsOK
  BY DEF Typed
<1>2. CASE Up \/ Down \/ Verify
  BY <1>1, <1>2, Dropped DEF Up, Down, Verify
<1>3. CASE UNCHANGED thread
  BY <1>1, <1>3 DEF ThreadsOK
<1>4. CASE StopInside
  <2>1. CASE UNCHANGED thread
    BY <1>3, <2>1
  <2>2. CASE thread' = [t \in Threads |-> IF thread[t].at = "inside"
                                            THEN [thread[t] EXCEPT !.at = "failed"]
                                            ELSE thread[t]]
    <3>1. ASSUME NEW t \in Threads
          PROVE  /\ thread'[t] \in [at : Places, check : Carried]
                 /\ thread'[t].at # "inside"
                 /\ thread'[t].at = "measured" => thread'[t] = thread[t]
      BY <1>1, <2>2 DEF ThreadsOK, Places
    <3>2. thread' \in [Threads -> [at : Places, check : Carried]]
      BY <2>2, <3>1
    <3> QED
      BY <1>1, <3>1, <3>2 DEF ThreadsOK
  <2> QED
    BY <1>4, <2>1, <2>2 DEF StopInside
<1>5. CASE StatusStale
  <2>1. ASSUME NEW t \in Threads, thread' = [thread EXCEPT ![t].at = "spawned"]
        PROVE  ThreadsOK'
    BY <1>1, <2>1 DEF ThreadsOK, Places
  <2> QED
    BY <1>3, <1>5, <2>1 DEF StatusStale
<1>6. CASE Restart
  BY <1>6, MaxTunnelsAssumption DEF Restart, ThreadsOK, Off, NoCheck, Carried, Places
<1>7. ASSUME NEW t \in Threads, Refresh(t)  PROVE ThreadsOK'
  BY <1>1, <1>7, ThreadStep
<1> QED
  BY <1>2, <1>3, <1>4, <1>5, <1>6, <1>7 DEF Next, Loop, Status, Build, Boot, Prove,
     Destroy, StatusMeasured, StatusDown, StatusFresh, StatusWait, Expire, Break, vars

\* Every step keeps the types, and finds no tunnel where it builds one.
LEMMA TypeStep == Typed /\ [Next]_vars => Typed'
<1> SUFFICES ASSUME Typed, [Next]_vars
             PROVE  Typed'
  OBVIOUS
<1>1. Numbers' /\ Flags' /\ Given' /\ ThreadsOK'
  BY TypedParts, NumbersStep, FlagsStep, GivenStep, ThreadsStep
<1> QED
  BY <1>1 DEF Typed, TypeOK, Building, ThreadsOK, Numbers, Flags, Given

-----------------------------------------------------------------------------
(* One refresh.                                                            *)

\* A refresh thread is in flight before each of its steps, and after all but
\* the last.
LEMMA FlightOfStep ==
  ASSUME ThreadsOK, NEW t \in Threads, Refresh(t)
  PROVE  /\ InFlight(t)
         /\ End(t) => ~InFlight(t)' /\ refreshing' = FALSE
         /\ ~End(t) => InFlight(t)' /\ refreshing' = refreshing
<1> USE DEF InFlight
<1>1. thread[t] \in [at : Places, check : Carried] /\ DOMAIN thread = Threads
  BY DEF ThreadsOK
<1>2. CASE Enter(t)
  BY <1>1, <1>2 DEF Enter, End
<1>3. CASE Measure(t)
  BY <1>1, <1>3 DEF Measure, End
<1>4. CASE Fail(t)
  <2>1. thread[t].at # "off" /\ refreshing' = refreshing /\ thread'[t].at = "failed"
    BY <1>1, <1>4 DEF Fail
  <2>2. End(t) => thread'[t].at = "off"
    BY <1>1 DEF End, Off
  <2> QED
    BY <2>1, <2>2
<1>5. CASE Store(t)
  BY <1>1, <1>5 DEF Store, End
<1>6. CASE End(t)
  BY <1>1, <1>6 DEF End, Off
<1> QED
  BY <1>2, <1>3, <1>4, <1>5, <1>6 DEF Refresh

\* REFRESHING stays up for as long as its thread runs, and no second thread
\* starts meanwhile.
LEMMA OneStep == TypeOK /\ ThreadsOK /\ OneInFlight /\ [Next]_vars => OneInFlight'
<1> SUFFICES ASSUME TypeOK, ThreadsOK, OneInFlight, [Next]_vars
             PROVE  OneInFlight'
  OBVIOUS
<1>1. CASE /\ refreshing' = refreshing
           /\ \A t \in Threads : InFlight(t)' <=> InFlight(t)
  BY <1>1 DEF OneInFlight
<1>2. CASE UNCHANGED <<thread, refreshing>>
  BY <1>1, <1>2 DEF InFlight
<1>3. CASE Up \/ Down \/ Verify
  BY <1>1, <1>3, Dropped DEF Up, Down, Verify, InFlight
<1>4. CASE StopInside
  <2>1. CASE UNCHANGED thread
    BY <1>2, <1>4, <2>1 DEF StopInside
  <2>2. CASE thread' = [t \in Threads |-> IF thread[t].at = "inside"
                                            THEN [thread[t] EXCEPT !.at = "failed"]
                                            ELSE thread[t]]
    <3>1. ASSUME NEW t \in Threads
          PROVE  InFlight(t)' <=> InFlight(t)
      <4>1. thread[t] \in [at : Places, check : Carried]
        BY DEF ThreadsOK
      <4>2. thread[t].at = "inside" => thread'[t].at = "failed"
        BY <2>2, <4>1
      <4>3. thread[t].at # "inside" => thread'[t] = thread[t]
        BY <2>2
      <4> QED
        BY <4>2, <4>3 DEF InFlight
    <3> QED
      BY <1>1, <1>4, <3>1 DEF StopInside
  <2> QED
    BY <1>4, <2>1, <2>2 DEF StopInside
<1>5. CASE StatusStale
  <2>1. CASE refreshing
    BY <1>2, <1>5, <2>1 DEF StatusStale
  <2>2. CASE ~refreshing
    <3>1. PICK t \in Threads : thread' = [thread EXCEPT ![t].at = "spawned"]
      BY <1>5, <2>2 DEF StatusStale
    <3>2. /\ InFlight(t)'
          /\ \A u \in Threads : u # t => thread'[u] = thread[u]
      BY <3>1 DEF ThreadsOK, InFlight
    <3>3. \A u \in Threads : ~InFlight(u)
      BY <2>2 DEF OneInFlight
    <3>4. refreshing' = TRUE
      BY <1>5 DEF StatusStale
    <3> QED
      BY <3>2, <3>3, <3>4 DEF OneInFlight, InFlight
  <2> QED
    BY <2>1, <2>2
<1>6. CASE Restart
  BY <1>6 DEF Restart, OneInFlight, InFlight, Off
<1>7. ASSUME NEW t \in Threads, Refresh(t)  PROVE OneInFlight'
  <2>1. \A u \in Threads : u # t => ~InFlight(u)' /\ ~InFlight(u)
    <3>1. \A u \in Threads : u # t => ~InFlight(u)
      BY <1>7, FlightOfStep DEF OneInFlight
    <3> QED
      BY <1>7, <3>1, ThreadStep DEF InFlight
  <2>2. CASE End(t)
    BY <1>7, <2>1, <2>2, FlightOfStep DEF OneInFlight
  <2>3. CASE ~End(t)
    BY <1>7, <2>1, <2>3, FlightOfStep DEF OneInFlight
  <2> QED
    BY <2>2, <2>3
<1> QED
  BY <1>2, <1>3, <1>4, <1>5, <1>6, <1>7 DEF Next, Loop, Status, Build, Boot, Prove,
     Destroy, StatusMeasured, StatusDown, StatusFresh, StatusWait, Expire, Break, vars

-----------------------------------------------------------------------------
(* A wrong answer was overtaken.                                           *)

Current == ThreadIsCurrent /\ CacheIsCurrent /\ WrongIsOvertaken

\* Whatever is about to change the tunnel has dropped the cache, and overtaken
\* the refresh in flight.
LEMMA AllOvertaken ==
  ASSUME ThreadIsCurrent, pc \notin {"idle", "measure"}
  PROVE  \A t \in Threads : InFlight(t) => thread[t].check.overtaken
  BY DEF ThreadIsCurrent

LEMMA CurrentStep == Typed /\ Current /\ [Next]_vars => Current'
<1> SUFFICES ASSUME Typed, Current, [Next]_vars
             PROVE  Current'
  OBVIOUS
<1> USE DEF Current
<1>0. TypeOK /\ ThreadsOK /\ Building
  BY DEF Typed
<1>1. CASE Up \/ Down \/ Verify
  BY <1>0, <1>1, Dropped DEF Up, Down, Verify, InFlight, ThreadIsCurrent, CacheIsCurrent,
     WrongIsOvertaken
<1>2. CASE Build \/ Boot
  <2>1. ThreadIsCurrent'
    BY <1>2, AllOvertaken DEF Build, Boot, ThreadIsCurrent, InFlight
  <2> QED
    BY <1>2, <2>1 DEF Build, Boot, CacheIsCurrent, WrongIsOvertaken
<1>3. CASE Prove
  <2>1. ThreadIsCurrent'
    BY <1>3, AllOvertaken DEF Prove, ThreadIsCurrent, InFlight
  <2>2. CacheIsCurrent'
    BY <1>0, <1>3, MeasuredIsCheck DEF Prove, CacheIsCurrent, remember_check
  <2> QED
    BY <1>3, <2>1, <2>2 DEF Prove, WrongIsOvertaken
<1>4. CASE StopInside
  <2>1. ASSUME NEW t \in Threads, InFlight(t)'
        PROVE  thread'[t].check.overtaken
    <3>1. thread[t] \in [at : Places, check : Carried]
      BY <1>0 DEF ThreadsOK
    <3>2. thread'[t].check = thread[t].check
      BY <1>4, <3>1 DEF StopInside
    <3>3. InFlight(t)
      BY <1>4, <2>1, <3>1 DEF StopInside, InFlight
    <3> QED
      BY <1>4, <3>2, <3>3, AllOvertaken DEF StopInside
  <2>2. ThreadIsCurrent'
    BY <2>1 DEF ThreadIsCurrent
  <2> QED
    BY <1>4, <2>2 DEF StopInside, CacheIsCurrent, WrongIsOvertaken
<1>5. CASE Destroy
  <2>1. ThreadIsCurrent'
    BY <1>5, AllOvertaken DEF Destroy, ThreadIsCurrent, InFlight
  <2> QED
    BY <1>5, <2>1 DEF Destroy, CacheIsCurrent, WrongIsOvertaken
<1>6. CASE StatusDown \/ StatusFresh \/ StatusWait
  BY <1>6 DEF StatusDown, StatusFresh, StatusWait, Answer, ThreadIsCurrent, InFlight,
     CacheIsCurrent, WrongIsOvertaken
<1>7. CASE StatusStale
  <2>1. ThreadIsCurrent'
    <3>1. CASE UNCHANGED thread
      BY <1>7, <3>1 DEF StatusStale, ThreadIsCurrent, InFlight
    <3>2. ASSUME NEW t \in Threads, thread' = [thread EXCEPT ![t].at = "spawned"]
          PROVE  ThreadIsCurrent'
      <4>1. /\ thread'[t].at = "spawned"
            /\ \A u \in Threads : u # t => thread'[u] = thread[u]
        BY <1>0, <3>2 DEF ThreadsOK
      <4> QED
        BY <1>7, <4>1 DEF StatusStale, ThreadIsCurrent, InFlight
    <3> QED
      BY <1>7, <3>1, <3>2 DEF StatusStale
  <2> QED
    BY <1>7, <2>1 DEF StatusStale, Answer, CacheIsCurrent, WrongIsOvertaken
<1>8. CASE StatusMeasured
  <2>1. ThreadIsCurrent'
    BY <1>8 DEF StatusMeasured, ThreadIsCurrent, InFlight
  <2>2. CASE Answer(NoCheck) /\ UNCHANGED <<cache, fresh>>
    BY <1>8, <2>1, <2>2 DEF StatusMeasured, Answer, CacheIsCurrent, WrongIsOvertaken
  <2>3. ASSUME NEW v \in Verdicts, remember_check(Measured(v)), Answer(Measured(v))
        PROVE  Current'
    BY <1>0, <1>8, <2>1, <2>3, MeasuredIsCheck
    DEF StatusMeasured, Answer, remember_check, CacheIsCurrent, WrongIsOvertaken
  <2> QED
    BY <1>8, <2>2, <2>3 DEF StatusMeasured
<1>9. CASE Restart
  BY <1>9 DEF Restart, Off, ThreadIsCurrent, InFlight, CacheIsCurrent, WrongIsOvertaken
<1>10. CASE Expire \/ Break \/ UNCHANGED vars
  BY <1>10 DEF Expire, Break, vars, ThreadIsCurrent, InFlight, CacheIsCurrent, WrongIsOvertaken
<1>11. ASSUME NEW t \in Threads, Refresh(t)  PROVE Current'
  <2>1. \A u \in Threads : u # t => thread'[u] = thread[u]
    BY <1>0, <1>11, ThreadStep
  <2>2. UNCHANGED <<pc, tunnel, whole, told>>
    BY <1>11 DEF Refresh, Enter, Measure, Fail, Store, End
  <2>3. InFlight(t)
    BY <1>0, <1>11, FlightOfStep
  <2>4. thread[t] \in [at : Places, check : Carried] /\ DOMAIN thread = Threads
    BY <1>0 DEF ThreadsOK
  <2>5. ASSUME InFlight(t)', ~thread'[t].check.overtaken
        PROVE  /\ ~thread[t].check.overtaken
               /\ thread'[t].at \in {"inside", "measured"} => thread'[t].check.of = tunnel
    <3>1. CASE Enter(t)
      BY <2>4, <2>5, <3>1 DEF Enter, Measured
    <3>2. CASE Measure(t)
      <4>1. PICK v \in Verdicts :
              thread' = [thread EXCEPT ![t] = [at    |-> "measured",
                                               check |-> [@.check EXCEPT !.verdict = v]]]
        BY <3>2 DEF Measure
      <4>2. /\ thread'[t].check.of = thread[t].check.of
            /\ thread'[t].check.overtaken = thread[t].check.overtaken
        BY <2>4, <4>1 DEF Carried
      <4> QED
        BY <2>3, <2>5, <3>2, <4>2 DEF Measure, ThreadIsCurrent
    <3>3. CASE Fail(t) \/ Store(t)
      BY <2>4, <2>5, <3>3 DEF Fail, Store
    <3>4. CASE End(t)
      BY <2>4, <2>5, <3>4 DEF End, Off, InFlight
    <3> QED
      BY <1>11, <3>1, <3>2, <3>3, <3>4 DEF Refresh
  <2>6. ThreadIsCurrent'
    BY <2>1, <2>2, <2>3, <2>5 DEF ThreadIsCurrent, InFlight
  <2>7. CacheIsCurrent'
    <3>1. CASE Store(t)
      BY <2>2, <2>3, <3>1 DEF Store, remember_check, ThreadIsCurrent, CacheIsCurrent
    <3>2. CASE UNCHANGED cache
      BY <2>2, <3>2 DEF CacheIsCurrent
    <3> QED
      BY <1>11, <3>1, <3>2 DEF Refresh, Enter, Measure, Fail, End
  <2> QED
    BY <2>2, <2>6, <2>7 DEF WrongIsOvertaken
<1> QED
  BY <1>1, <1>2, <1>3, <1>4, <1>5, <1>6, <1>7, <1>8, <1>9, <1>10, <1>11 DEF Next, Loop, Status

-----------------------------------------------------------------------------
\* The strengthening is an invariant.
THEOREM Invariance == Spec => []IInv
<1>1. Init => IInv
  <2> SUFFICES ASSUME Init
               PROVE  IInv
    OBVIOUS
  <2> USE DEF Init
  <2>1. TypeOK /\ ThreadsOK
    <3>1. NoCheck \in Carried
      BY MaxTunnelsAssumption DEF NoCheck, Carried
    <3>2. Off \in [at : Places, check : Carried] /\ Off.at = "off"
      BY <3>1 DEF Off, Places
    <3>3. ThreadsOK
      BY <3>2 DEF ThreadsOK
    <3>4. \A t \in Threads : thread[t].at \in Places
      BY <3>2
    <3>5. told.tunnel = 0 /\ told.check = NoCheck
      OBVIOUS
    <3>6. whole \in BOOLEAN /\ fresh \in BOOLEAN /\ refreshing \in BOOLEAN
      OBVIOUS
    <3>7. tunnel \in 0..built /\ built \in 0..MaxTunnels /\ told.tunnel \in 0..built /\ ~whole
      BY <3>5, MaxTunnelsAssumption
    <3> QED
      BY <3>3, <3>4, <3>5, <3>6, <3>7 DEF TypeOK
  <2>2. OneInFlight /\ ThreadIsCurrent
    BY DEF OneInFlight, ThreadIsCurrent, InFlight, Off
  <2> QED
    BY <2>1, <2>2 DEF IInv, Building, CacheIsCurrent, WrongIsOvertaken
<1>2. IInv /\ [Next]_vars => IInv'
  BY TypeStep, OneStep, CurrentStep DEF IInv, Typed, Current
<1> QED
  BY <1>1, <1>2, PTL DEF Spec

\* The types hold.
THEOREM TypeCorrect == Spec => []TypeOK
  BY Invariance, PTL DEF IInv

\* However many polls come while the cache is stale, and whatever the daemon does
\* meanwhile, one refresh is in flight at most, and REFRESHING is up exactly then.
THEOREM OneRefreshAtATime == Spec => []OneRefresh
<1>1. IInv => OneRefresh
  <2> SUFFICES ASSUME IInv
               PROVE  OneRefresh
    OBVIOUS
  <2> DEFINE busy == {t \in Threads : thread[t].at # "off"}
  <2>1. OneInFlight
    BY DEF IInv
  <2>2. busy # {} <=> refreshing
    BY <2>1 DEF OneInFlight, InFlight
  <2>3. Cardinality(busy) <= 1
    <3>1. CASE busy = {}
      BY <3>1, FS_EmptySet
    <3>2. ASSUME NEW t \in busy
          PROVE  Cardinality(busy) = 1
      <4>1. busy = {t}
        BY <2>1, <3>2 DEF OneInFlight, InFlight
      <4> QED
        BY <4>1, FS_Singleton
    <3> QED
      BY <3>1, <3>2
  <2> QED
    BY <2>2, <2>3 DEF OneRefresh
<1> QED
  BY <1>1, Invariance, PTL

\* An answer about a tunnel that is not the one asked about comes only from a
\* refresh that was in flight when the cache was dropped.
THEOREM WrongAnswersWereOvertaken == Spec => []WrongIsOvertaken
  BY Invariance, PTL DEF IInv
=============================================================================
