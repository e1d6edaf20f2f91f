--------------------------- MODULE ControlPortProof ---------------------------
(***************************************************************************)
(* Proofs about ControlPort, for any number of circuits: until a read has  *)
(* timed out, every line that is read is of the reply to the last question *)
(* asked, and from that, whose address a hop is given and which circuits   *)
(* of the listing come through. After a timeout the lines may be of an     *)
(* older reply, but never of one to a question about a later hop.          *)
(***************************************************************************)
EXTENDS ControlPort, SequenceTheorems, WellFoundedInduction, TLAPS

-----------------------------------------------------------------------------
(* The inductive invariant, by parts.                                      *)

Kinds == {"ok", "error", "open", "dot", "r", "w", "mid"} \cup Ids

\* Bandwidth is no relay, and no address.
Lines == {l \in [kind : Kinds, of : 0..Bandwidth] : l.of = Bandwidth => l.kind = "w"}

Questions == [ask : Commands, of : 0..MaxCircuits]

Typed ==
  /\ listing \in Seq(Ids) /\ Len(listing) \in 0..MaxCircuits
  /\ questions \in Seq(Questions) /\ wire \in Seq(Lines) /\ out \in Seq(Lines)
  /\ pc \in Commands \cup {"done", "failed"} /\ hop \in Nat
  /\ closed \in BOOLEAN /\ in_data_block \in BOOLEAN /\ timeouts \in 0..MaxTimeouts
  /\ found \in Seq(1..Len(listing))
  /\ address \in Seq(0..MaxCircuits) /\ Len(address) = Len(found)
  /\ country \in Seq(0..Bandwidth) /\ Len(country) = Len(found)
  /\ pc \in {"addr", "country"} => hop \in 1..Len(found)

\* What the client is waiting to be told.
Question ==
  [ask |-> pc, of |-> CASE pc = "addr"    -> found[hop]
                        [] pc = "country" -> address[hop]
                        [] OTHER          -> Nobody]

\* A reply that command() takes for one: either a data block and its "250 OK", or
\* lines that do not end it and one that does.
Framed(reply) ==
  /\ reply \in Seq(Lines) /\ Len(reply) > 0
  /\ IF reply[1].kind = "open"
       THEN /\ Len(reply) > 2 /\ reply[Len(reply) - 1].kind = "dot"
            /\ reply[Len(reply)] = Ok
            /\ \A i \in 2..Len(reply) - 2 : reply[i].kind # "dot"
       ELSE /\ IsFinal(reply[Len(reply)])
            /\ \A i \in 1..Len(reply) - 1 :
                 ~IsFinal(reply[i]) /\ reply[i].kind # "open"
            /\ reply[Len(reply)].kind # "open"

\* k lines of a reply have been read. The others are on their way, or the first of
\* them if the connection has ended meanwhile.
Read(reply, k) ==
  /\ Len(wire) <= Len(reply) - k /\ (~closed => Len(wire) = Len(reply) - k)
  /\ \A i \in 1..Len(wire) : wire[i] = reply[k + i]
  /\ IF reply[1].kind = "open"
       THEN /\ in_data_block <=> k \in 1..Len(reply) - 2
            /\ Len(out) = IF k = 0 THEN 0 ELSE IF k = Len(reply) - 1 THEN k - 2 ELSE k - 1
            /\ \A i \in 1..Len(out) : out[i] = reply[i + 1]
       ELSE /\ ~in_data_block
            /\ Len(out) = k /\ \A i \in 1..k : out[i] = reply[i]

\* The question has not been answered, or never will be.
Unanswered ==
  /\ wire = <<>> /\ out = <<>> /\ ~in_data_block
  /\ questions = IF closed THEN <<>> ELSE <<Question>>

BeingRead ==
  /\ questions = <<>>
  /\ \E reply \in Replies(Question) : \E k \in 0..Len(reply) - 1 : Read(reply, k)

\* Client and tor are in step. After a timeout they are not, but circuits() gives up
\* on one until it has its listing.
InStep ==
  (timeouts = 0 /\ pc \in Commands) \/ pc \in {"auth", "list"} => Unanswered \/ BeingRead

\* The hops still to come have no country yet.
Unfilled ==
  pc \in {"addr", "country"} => \A i \in hop..Len(found) : country[i] = Nobody

\* What is asked, on its way or read has to do with no later hop than this one.
NothingAhead ==
  pc \in {"addr", "country"} =>
    /\ \A i \in 1..Len(questions) :
         questions[i].ask # "list" /\ questions[i].of \in Earlier(hop)
    /\ \A i \in 1..Len(wire) : wire[i].of \in Earlier(hop) \cup {Bandwidth}
    /\ \A i \in 1..Len(out) : out[i].of \in Earlier(hop) \cup {Bandwidth}

IInv ==
  /\ Typed /\ InStep /\ Unfilled /\ NothingAhead
  /\ HopsAreTheirOwn /\ LateIsEarlier /\ ListingIsWhole

\* Of a reply that has been read whole, command() returns these lines: a data block
\* without its first line and its dot.
Whole(reply, lines) ==
  /\ lines \in Seq(Lines)
  /\ IF reply[1].kind = "open"
       THEN /\ Len(lines) = Len(reply) - 2 /\ lines[Len(lines)] = Ok
            /\ \A i \in 1..Len(lines) - 1 : lines[i] = reply[i + 1]
       ELSE Len(lines) = Len(reply) /\ \A i \in 1..Len(lines) : lines[i] = reply[i]

-----------------------------------------------------------------------------
(* What the helpers find among the lines of a reply.                       *)

\* A set of numbers that is not empty has a least one.
LEMMA LeastNatural ==
  ASSUME NEW S, S \subseteq Nat, S # {}
  PROVE  \E x \in S : \A y \in S : x <= y
<1>1. PICK x \in S : \A y \in S : <<y, x>> \notin OpToRel(<, Nat)
  BY NatLessThanWellFounded, WFMin
<1>2. \A y \in S : ~(y < x)
  BY <1>1, Zenon DEF OpToRel
<1> QED
  BY <1>2

\* FirstOf finds nothing, or what one of the lines of these kinds is about.
LEMMA FirstIsOneOfThem ==
  ASSUME NEW lines \in Seq(Lines), NEW kinds
  PROVE  \/ /\ FirstOf(lines, kinds) = Nobody
            /\ \A i \in 1..Len(lines) : lines[i].kind \notin kinds
         \/ \E i \in 1..Len(lines) : /\ lines[i].kind \in kinds
                                     /\ FirstOf(lines, kinds) = lines[i].of
<1> DEFINE hits == {i \in DOMAIN lines : lines[i].kind \in kinds}
<1>1. hits \subseteq 1..Len(lines) /\ hits \subseteq Nat
  OBVIOUS
<1>2. CASE hits = {}
  BY <1>1, <1>2 DEF FirstOf
<1>3. CASE hits # {}
  <2>1. \E x \in hits : \A y \in hits : x <= y
    BY <1>1, <1>3, LeastNatural
  <2>2. Min(hits) \in hits
    <3> HIDE DEF hits
    <3> QED
      BY <2>1, Zenon DEF Min
  <2>3. FirstOf(lines, kinds) = lines[Min(hits)].of
    BY <1>3 DEF FirstOf
  <2> QED
    BY <1>1, <2>2, <2>3
<1> QED
  BY <1>2, <1>3

\* What AllOf has found among the first so many lines: one more line at a time.
Grows(f, lines, kinds, n) ==
  f = [m \in 0..n |->
         IF m = 0 THEN <<>>
         ELSE IF lines[m].kind \in kinds THEN Append(f[m - 1], lines[m].of)
         ELSE f[m - 1]]

LEMMA GrowthExists ==
  ASSUME NEW lines, NEW kinds
  PROVE  \A n \in Nat : \E f : Grows(f, lines, kinds, n)
<1> DEFINE bad == {n \in Nat : ~ \E f : Grows(f, lines, kinds, n)}
<1> SUFFICES ASSUME bad # {} PROVE FALSE
  OBVIOUS
<1>1. PICK n \in bad : \A y \in bad : n <= y
  BY LeastNatural
<1>2. n # 0
  <2>1. Grows([m \in 0..0 |-> <<>>], lines, kinds, 0)
    BY DEF Grows
  <2> QED
    BY <2>1
<1>3. PICK g : Grows(g, lines, kinds, n - 1)
  <2>1. n - 1 \in Nat /\ ~(n <= n - 1)
    BY <1>2
  <2> QED
    BY <1>1, <2>1
<1> DEFINE last == IF lines[n].kind \in kinds THEN Append(g[n - 1], lines[n].of) ELSE g[n - 1]
           f == [m \in 0..n |-> IF m = n THEN last ELSE g[m]]
<1>4. \A m \in 0..n : f[m] = IF m = 0 THEN <<>>
                             ELSE IF lines[m].kind \in kinds THEN Append(f[m - 1], lines[m].of)
                             ELSE f[m - 1]
  <2> TAKE m \in 0..n
  <2>1. CASE m = n
    BY <1>2, <2>1
  <2>2. CASE m # n
    <3>1. m \in 0..n - 1 /\ (m # 0 => m - 1 \in 0..n /\ m - 1 # n)
      BY <2>2
    <3> HIDE DEF last
    <3> QED
      BY <1>3, <2>2, <3>1 DEF Grows
  <2> QED
    BY <2>1, <2>2
<1>5. Grows(f, lines, kinds, n)
  <2> HIDE DEF last
  <2> QED
    BY <1>4, Zenon DEF Grows
<1> QED
  BY <1>5

LEMMA AllOfGrows ==
  ASSUME NEW lines, NEW kinds, Len(lines) \in Nat
  PROVE  \E f : Grows(f, lines, kinds, Len(lines)) /\ AllOf(lines, kinds) = f[Len(lines)]
<1> DEFINE f == CHOOSE f : Grows(f, lines, kinds, Len(lines))
<1>1. Grows(f, lines, kinds, Len(lines))
  BY GrowthExists
<1>2. AllOf(lines, kinds) = f[Len(lines)]
  BY Zenon DEF AllOf, Grows
<1> QED
  BY <1>1, <1>2

\* Of a listing that has been read to its "250 OK", Parse keeps every circuit but
\* those whose id begins with 250, in order.
LEMMA ParseIsWhole ==
  ASSUME NEW lines \in Seq(Lines), listing \in Seq(Ids), Len(lines) = Len(listing) + 1,
         \A c \in 1..Len(listing) : lines[c] = Line(listing[c], c),
         lines[Len(lines)] = Ok
  PROVE  LET circuits == Parse(lines)
         IN  /\ circuits \in Seq(1..Len(listing))
             /\ {circuits[i] : i \in 1..Len(circuits)}
                  = {c \in 1..Len(listing) : listing[c] # "two50"}
             /\ \A i, j \in 1..Len(circuits) : i < j => circuits[i] < circuits[j]
<1> DEFINE N == Len(listing)
           K == {"short", "three"}
<1>1. N \in Nat /\ Len(lines) = N + 1
  OBVIOUS
<1>2. PICK f : Grows(f, lines, K, N + 1) /\ AllOf(lines, K) = f[N + 1]
  BY <1>1, AllOfGrows
<1>3. /\ f[0] = <<>>
      /\ \A m \in 1..N + 1 :
           f[m] = IF lines[m].kind \in K THEN Append(f[m - 1], lines[m].of) ELSE f[m - 1]
  <2> HIDE DEF K
  <2>1. f = [m \in 0..N + 1 |->
               IF m = 0 THEN <<>>
               ELSE IF lines[m].kind \in K THEN Append(f[m - 1], lines[m].of)
               ELSE f[m - 1]]
    BY <1>2 DEF Grows
  <2>2. 0 \in 0..N + 1 /\ \A m \in 1..N + 1 : m \in 0..N + 1 /\ m # 0
    BY <1>1
  <2> HIDE DEF N
  <2>3. f[0] = <<>>
    BY <2>1, <2>2, Zenon
  <2>4. ASSUME NEW m \in 1..N + 1
        PROVE  f[m] = IF lines[m].kind \in K THEN Append(f[m - 1], lines[m].of) ELSE f[m - 1]
    <3>1. m \in 0..N + 1 /\ m # 0
      BY <2>2
    <3> QED
      BY <2>1, <3>1, Zenon
  <2> QED
    BY <2>3, <2>4
<1> DEFINE Good(m) ==
             /\ f[m] \in Seq(1..m)
             /\ {f[m][i] : i \in 1..Len(f[m])} = {c \in 1..m : listing[c] # "two50"}
             /\ \A i, j \in 1..Len(f[m]) : i < j => f[m][i] < f[m][j]
<1>4. Good(0)
  BY <1>3
<1>5. ASSUME NEW m \in 1..N, Good(m - 1)
      PROVE  Good(m)
  <2> DEFINE g == f[m - 1]
  <2>1. m - 1 \in Nat /\ m \in 1..N + 1 /\ m \in Nat
    BY <1>1
  <2>2. lines[m].kind = listing[m] /\ lines[m].of = m /\ listing[m] \in Ids
    <3>1. lines[m] = [kind |-> listing[m], of |-> m]
      BY DEF Line
    <3>2. listing[m] \in Ids
      BY ElementOfSeq
    <3> QED
      BY <3>1, <3>2
  <2>3. f[m] = IF listing[m] \in K THEN Append(g, m) ELSE g
    BY <1>3, <2>1, <2>2
  <2>4. /\ g \in Seq(1..m - 1)
        /\ {g[i] : i \in 1..Len(g)} = {c \in 1..m - 1 : listing[c] # "two50"}
        /\ \A i, j \in 1..Len(g) : i < j => g[i] < g[j]
    BY <1>5
  <2> HIDE DEF g
  <2>5. g \in Seq(1..m)
    <3>1. 1..m - 1 \subseteq 1..m
      BY <2>1
    <3> QED
      BY <2>4, <3>1, SeqMonotonic
  <2>6. CASE listing[m] \in K
    <3>1. f[m] = Append(g, m)
      BY <2>3, <2>6
    <3>2. /\ f[m] \in Seq(1..m) /\ Len(f[m]) = Len(g) + 1 /\ Len(g) \in Nat
          /\ \A i \in 1..Len(g) : f[m][i] = g[i]
          /\ f[m][Len(g) + 1] = m
      <4>1. m \in 1..m
        BY <2>1
      <4> QED
        BY <2>5, <3>1, <4>1
    <3>3. listing[m] # "two50"
      BY <2>6
    <3>4. {f[m][i] : i \in 1..Len(f[m])} = {c \in 1..m : listing[c] # "two50"}
      <4>1. \A i \in 1..Len(f[m]) : f[m][i] \in {c \in 1..m : listing[c] # "two50"}
        <5> TAKE i \in 1..Len(f[m])
        <5>1. CASE i = Len(g) + 1
          BY <2>1, <3>2, <3>3, <5>1
        <5>2. CASE i # Len(g) + 1
          <6>1. i \in 1..Len(g)
            BY <3>2, <5>2
          <6>2. g[i] \in {c \in 1..m - 1 : listing[c] # "two50"}
            BY <2>4, <6>1
          <6> QED
            BY <2>1, <3>2, <6>1, <6>2, SMTT(30)
        <5> QED
          BY <5>1, <5>2
      <4>2. \A c \in 1..m : listing[c] # "two50" => \E i \in 1..Len(f[m]) : f[m][i] = c
        <5> SUFFICES ASSUME NEW c \in 1..m, listing[c] # "two50"
                     PROVE  \E i \in 1..Len(f[m]) : f[m][i] = c
          OBVIOUS
        <5>1. CASE c = m
          <6>1. Len(g) + 1 \in 1..Len(f[m])
            BY <3>2
          <6> QED
            BY <3>2, <5>1, <6>1
        <5>2. CASE c # m
          <6>1. c \in {d \in 1..m - 1 : listing[d] # "two50"}
            BY <2>1, <5>2
          <6>2. PICK i \in 1..Len(g) : g[i] = c
            BY <2>4, <6>1
          <6>3. i \in 1..Len(f[m])
            BY <3>2
          <6> QED
            BY <3>2, <6>2, <6>3
        <5> QED
          BY <5>1, <5>2
      <4> QED
        BY <4>1, <4>2
    <3>5. ASSUME NEW i \in 1..Len(f[m]), NEW j \in 1..Len(f[m]), i < j
          PROVE  f[m][i] < f[m][j]
      <4>1. i \in 1..Len(g)
        BY <3>2, <3>5
      <4>2. g[i] \in 1..m - 1
        BY <2>4, <4>1
      <4>3. CASE j = Len(g) + 1
        <5>1. f[m][i] = g[i] /\ f[m][j] = m
          BY <3>2, <4>1, <4>3
        <5>2. g[i] < m
          BY <2>1, <4>2
        <5> QED
          BY <5>1, <5>2
      <4>4. CASE j # Len(g) + 1
        <5>1. j \in 1..Len(g)
          BY <3>2, <4>4
        <5> QED
          BY <2>4, <3>2, <3>5, <4>1, <5>1
      <4> QED
        BY <4>3, <4>4
    <3> QED
      BY <3>2, <3>4, <3>5
  <2>7. CASE listing[m] \notin K
    <3>1. f[m] = g
      BY <2>3, <2>7
    <3>2. listing[m] = "two50"
      BY <2>2, <2>7 DEF Ids
    <3>3. {c \in 1..m : listing[c] # "two50"} = {c \in 1..m - 1 : listing[c] # "two50"}
      BY <2>1, <3>2
    <3> QED
      BY <2>4, <2>5, <3>1, <3>3
  <2> QED
    BY <2>6, <2>7
<1>6. \A m \in 0..N : Good(m)
  <2> DEFINE bad == {m \in 0..N : ~Good(m)}
  <2> HIDE DEF Good
  <2> SUFFICES ASSUME bad # {} PROVE FALSE
    OBVIOUS
  <2>1. PICK m \in bad : \A y \in bad : m <= y
    <3>1. bad \subseteq Nat
      BY <1>1
    <3> QED
      BY <3>1, LeastNatural
  <2>2. m # 0 /\ m \in 0..N
    BY <1>4
  <2>3. m - 1 \in 0..N /\ ~(m <= m - 1) /\ m \in 1..N
    BY <1>1, <2>2
  <2>4. Good(m - 1)
    BY <2>1, <2>3
  <2> QED
    BY <1>5, <2>3, <2>4
<1>7. Parse(lines) = f[N]
  <2>1. N + 1 \in 1..N + 1 /\ (N + 1) - 1 = N
    BY <1>1
  <2>2. lines[N + 1].kind \notin K
    BY <1>1 DEF Ok, Line
  <2>3. f[N + 1] = f[N]
    BY <1>3, <2>1, <2>2
  <2> QED
    BY <1>2, <2>3 DEF Parse
<1>8. Good(N)
  BY <1>1, <1>6
<1> QED
  BY <1>7, <1>8

-----------------------------------------------------------------------------
(* Replies, and how command() reads one.                                   *)

\* A data block, line by line.
LEMMA BlockIsFramed ==
  ASSUME NEW lines \in Seq(Lines), \A i \in 1..Len(lines) : lines[i].kind # "dot"
  PROVE  /\ Framed(Block(lines)) /\ Len(Block(lines)) = Len(lines) + 3
         /\ Block(lines)[1].kind = "open"
         /\ \A i \in 1..Len(lines) : Block(lines)[i + 1] = lines[i]
         /\ \A i \in 1..Len(Block(lines)) :
              Block(lines)[i].of = Nobody \/ \E c \in 1..Len(lines) : Block(lines)[i] = lines[c]
<1> DEFINE open == Line("open", Nobody)
           dot  == Line("dot", Nobody)
           body == <<open>> \o lines
           N    == Len(lines)
<1>1. open \in Lines /\ dot \in Lines /\ Ok \in Lines
  BY BoundsAssumption DEF Lines, Line, Ok, Kinds, Nobody, Bandwidth
<1>2. /\ <<open>> \in Seq(Lines) /\ Len(<<open>>) = 1 /\ <<open>>[1] = open
      /\ <<dot, Ok>> \in Seq(Lines) /\ Len(<<dot, Ok>>) = 2
      /\ <<dot, Ok>>[1] = dot /\ <<dot, Ok>>[2] = Ok
  BY <1>1
<1>3. /\ open.kind = "open" /\ dot.kind = "dot" /\ N \in Nat
      /\ open.of = Nobody /\ dot.of = Nobody /\ Ok.of = Nobody
  BY DEF Line, Ok
<1> HIDE DEF open, dot
<1>4. /\ body \in Seq(Lines) /\ Len(body) = N + 1 /\ body[1] = open
      /\ \A i \in 1..N : body[i + 1] = lines[i]
  <2>1. /\ body \in Seq(Lines) /\ Len(body) = 1 + N
        /\ \A i \in 1..1 + N : body[i] = IF i <= 1 THEN <<open>>[i] ELSE lines[i - 1]
    BY <1>2, ConcatProperties
  <2> HIDE DEF body
  <2> QED
    BY <1>2, <1>3, <2>1
<1>5. Block(lines) = body \o <<dot, Ok>>
  <2>1. Block(lines) = <<open>> \o (lines \o <<dot, Ok>>)
    BY <1>2, ConcatAssociative DEF Block, open, dot
  <2> QED
    BY <1>2, <2>1, ConcatAssociative
<1> HIDE DEF body
<1>6. /\ Block(lines) \in Seq(Lines) /\ Len(Block(lines)) = N + 3
      /\ \A i \in 1..N + 3 :
           Block(lines)[i] = IF i <= N + 1 THEN body[i] ELSE <<dot, Ok>>[i - (N + 1)]
  <2>1. /\ Block(lines) \in Seq(Lines) /\ Len(Block(lines)) = (N + 1) + 2
        /\ \A i \in 1..(N + 1) + 2 :
             Block(lines)[i] = IF i <= N + 1 THEN body[i] ELSE <<dot, Ok>>[i - (N + 1)]
    BY <1>2, <1>4, <1>5, ConcatProperties
  <2> QED
    BY <1>3, <2>1
<1> DEFINE B == Block(lines)
<1> HIDE DEF B
<1>7. /\ B[1] = open /\ B[N + 2] = dot /\ B[N + 3] = Ok
      /\ \A i \in 1..N : B[i + 1] = lines[i]
  <2>1. /\ 1 \in 1..N + 3 /\ N + 2 \in 1..N + 3 /\ N + 3 \in 1..N + 3
        /\ (N + 2) - (N + 1) = 1 /\ (N + 3) - (N + 1) = 2
        /\ \A i \in 1..N : i + 1 \in 1..N + 3 /\ i + 1 <= N + 1
    BY <1>3
  <2>2. \A i \in 1..N + 3 : B[i] = IF i <= N + 1 THEN body[i] ELSE <<dot, Ok>>[i - (N + 1)]
    BY <1>6 DEF B
  <2>3. B[1] = body[1] /\ \A i \in 1..N : B[i + 1] = body[i + 1]
    BY <1>3, <2>1, <2>2
  <2>4. B[N + 2] = <<dot, Ok>>[1]
    BY <1>3, <2>1, <2>2
  <2>5. B[N + 3] = <<dot, Ok>>[2]
    BY <1>3, <2>1, <2>2
  <2> QED
    BY <1>2, <1>4, <2>3, <2>4, <2>5
<1>8. \A i \in 2..N + 1 : B[i].kind # "dot"
  <2> TAKE i \in 2..N + 1
  <2>1. i - 1 \in 1..N /\ (i - 1) + 1 = i
    BY <1>3
  <2> QED
    BY <1>7, <2>1
<1>9. B \in Seq(Lines) /\ Len(B) = N + 3
  BY <1>6 DEF B
<1>11. ASSUME NEW i \in 1..Len(B)
       PROVE  B[i].of = Nobody \/ \E c \in 1..N : B[i] = lines[c]
  <2>1. CASE i \in 2..N + 1
    <3>1. i - 1 \in 1..N /\ (i - 1) + 1 = i
      BY <1>3, <2>1
    <3> QED
      BY <1>7, <3>1
  <2>2. CASE i \notin 2..N + 1
    <3>1. i = 1 \/ i = N + 2 \/ i = N + 3
      BY <1>3, <1>9, <2>2
    <3> QED
      BY <1>3, <1>7, <3>1
  <2> QED
    BY <2>1, <2>2
<1>10. Framed(B)
  <2>1. Len(B) - 1 = N + 2 /\ Len(B) - 2 = N + 1 /\ Len(B) > 2
    BY <1>3, <1>9
  <2> QED
    BY <1>3, <1>7, <1>8, <1>9, <2>1 DEF Framed
<1> QED
  BY <1>3, <1>7, <1>9, <1>10, <1>11 DEF B

\* What tor may say, in the client's terms.
LEMMA RepliesAreFramed ==
  ASSUME Typed, NEW q \in Questions, NEW reply \in Replies(q)
  PROVE  Framed(reply)
<1>1. /\ Ok \in Lines /\ Error \in Lines
      /\ \A of \in 0..MaxCircuits : Line("mid", of) \in Lines /\ Line("r", of) \in Lines
      /\ Line("w", Bandwidth) \in Lines
  BY BoundsAssumption DEF Lines, Line, Ok, Error, Kinds, Nobody, Bandwidth
<1>2. ASSUME NEW l \in {Ok, Error}
      PROVE  Framed(<<l>>)
  <2>1. l.kind \in {"ok", "error"}
    BY DEF Ok, Error, Line
  <2> QED
    BY <1>1, <2>1 DEF Framed, IsFinal
<1>3. ASSUME NEW of \in 0..MaxCircuits
      PROVE  Framed(<<Line("mid", of), Ok>>)
  <2> DEFINE mid == Line("mid", of)
             s == <<mid, Ok>>
  <2>1. mid.kind = "mid" /\ Ok.kind = "ok" /\ mid \in Lines
    BY <1>1 DEF Ok, Line
  <2> HIDE DEF mid
  <2>2. s \in Seq(Lines) /\ Len(s) = 2 /\ s[1] = mid /\ s[2] = Ok
    BY <1>1, <2>1
  <2> HIDE DEF s
  <2>3. \A i \in 1..Len(s) - 1 : i = 1
    BY <2>2
  <2>4. Framed(s)
    BY <2>1, <2>2, <2>3 DEF Framed, IsFinal
  <2> QED
    BY <2>4 DEF s, mid
<1>4. 0 \in 0..MaxCircuits /\ q.of \in 0..MaxCircuits /\ q.ask \in Commands
  BY BoundsAssumption DEF Questions
<1>5. CASE q.ask \in {"auth", "quit"}
  BY <1>2, <1>5 DEF Replies
<1>9. CASE q.ask = "list" /\ ~(Len(listing) > 1)
  <2>1. Len(listing) \in 0..MaxCircuits
    BY DEF Typed
  <2>2. reply = <<Line("mid", Len(listing)), Ok>>
    BY <1>9 DEF Replies, Listing
  <2> QED
    BY <1>3, <2>1, <2>2
<1>6. CASE q.ask = "list" /\ Len(listing) > 1
  <2> DEFINE lines == [c \in 1..Len(listing) |-> Line(listing[c], c)]
  <2>1. ASSUME NEW c \in 1..Len(listing)
        PROVE  Line(listing[c], c) \in Lines /\ Line(listing[c], c).kind # "dot"
    <3>1. listing[c] \in Ids
      BY ElementOfSeq DEF Typed
    <3>2. c \in 0..MaxCircuits /\ MaxCircuits \in Nat
      BY BoundsAssumption DEF Typed
    <3> QED
      BY <3>1, <3>2 DEF Lines, Line, Kinds, Ids, Bandwidth
  <2>2. Len(listing) \in Nat
    BY DEF Typed
  <2>3. lines \in Seq(Lines) /\ Len(lines) = Len(listing)
    BY <2>1, <2>2
  <2>4. \A i \in 1..Len(lines) : lines[i].kind # "dot"
    BY <2>1, <2>3
  <2>5. reply = Block(lines)
    BY <1>6 DEF Replies, Listing
  <2> HIDE DEF lines
  <2> QED
    BY <2>3, <2>4, <2>5, BlockIsFramed
<1>7. CASE q.ask = "addr"
  <2> DEFINE r == Line("r", q.of)
             w == Line("w", Bandwidth)
             lines == <<r, w>>
  <2>1. r \in Lines /\ w \in Lines /\ r.kind = "r" /\ w.kind = "w"
    BY <1>1, <1>4 DEF Line
  <2> HIDE DEF r, w
  <2>2. lines \in Seq(Lines) /\ Len(lines) = 2 /\ lines[1] = r /\ lines[2] = w
    BY <2>1
  <2>3. reply = <<Error>> \/ reply = Block(lines)
    BY <1>7 DEF Replies, r, w
  <2> HIDE DEF lines
  <2>4. \A i \in 1..Len(lines) : lines[i].kind # "dot"
    BY <2>1, <2>2
  <2> QED
    BY <1>2, <2>2, <2>3, <2>4, BlockIsFramed
<1>8. CASE q.ask = "country"
  BY <1>2, <1>3, <1>4, <1>8 DEF Replies, Nobody
<1> QED
  BY <1>4, <1>5, <1>6, <1>7, <1>8, <1>9 DEF Commands

\* The lines of a reply have to do with what was asked about, or with nobody.
LEMMA RepliesAreToTheQuestion ==
  ASSUME Typed, NEW q \in Questions, q.ask # "list", NEW reply \in Replies(q),
         NEW i \in 1..Len(reply)
  PROVE  reply[i].of \in {q.of, Nobody, Bandwidth}
<1>1. Ok.of = Nobody /\ Error.of = Nobody /\ \A kind, of : Line(kind, of).of = of
  BY DEF Ok, Error, Line
<1>2. CASE q.ask \in {"auth", "quit"}
  <2>1. reply \in {<<Ok>>, <<Error>>}
    BY <1>2 DEF Replies
  <2> QED
    BY <1>1, <2>1
<1>3. CASE q.ask = "country"
  <2>1. PICK of \in {q.of, Nobody} : reply = <<Error>> \/ reply = <<Line("mid", of), Ok>>
    BY <1>3 DEF Replies
  <2>2. CASE reply = <<Error>>
    BY <1>1, <2>2
  <2>3. CASE reply = <<Line("mid", of), Ok>>
    <3> DEFINE mid == Line("mid", of)
    <3>1. mid.of = of
      BY <1>1
    <3> HIDE DEF mid
    <3>2. reply = <<mid, Ok>>
      BY <2>3 DEF mid
    <3>3. Len(reply) = 2 /\ reply[1] = mid /\ reply[2] = Ok
      BY <3>2
    <3> QED
      BY <1>1, <3>1, <3>3
  <2> QED
    BY <2>1, <2>2, <2>3
<1>4. CASE q.ask = "addr"
  <2> DEFINE r == Line("r", q.of)
             w == Line("w", Bandwidth)
             lines == <<r, w>>
  <2>1. /\ r \in Lines /\ w \in Lines /\ r.kind # "dot" /\ w.kind # "dot"
        /\ r.of = q.of /\ w.of = Bandwidth
    BY BoundsAssumption DEF Lines, Line, Kinds, Bandwidth, Questions
  <2> HIDE DEF r, w
  <2>2. lines \in Seq(Lines) /\ Len(lines) = 2 /\ lines[1] = r /\ lines[2] = w
    BY <2>1
  <2>3. reply = <<Error>> \/ reply = Block(lines)
    BY <1>4 DEF Replies, r, w
  <2> HIDE DEF lines
  <2>4. \A c \in 1..Len(lines) : lines[c] = r \/ lines[c] = w
    BY <2>2
  <2>5. CASE reply = Block(lines)
    <3>1. reply[i].of = Nobody \/ \E c \in 1..Len(lines) : reply[i] = lines[c]
      BY <2>1, <2>2, <2>4, <2>5, BlockIsFramed
    <3> QED
      BY <2>1, <2>4, <3>1
  <2> QED
    BY <1>1, <2>3, <2>5
<1> QED
  BY <1>2, <1>3, <1>4 DEF Questions, Commands

\* The line that is read, when a framed reply is being read.
LEMMA NextLine ==
  ASSUME Typed, NEW reply, Framed(reply), NEW k \in 0..Len(reply) - 1, Read(reply, k), ReadLine
  PROVE  /\ Len(reply) \in Nat /\ Head(wire) = reply[k + 1] /\ Head(wire) \in Lines
         /\ wire' \in Seq(Lines) /\ Len(wire') <= Len(reply) - (k + 1)
         /\ ~closed' => Len(wire') = Len(reply) - (k + 1)
         /\ \A i \in 1..Len(wire') : wire'[i] = reply[(k + 1) + i]
         /\ Append(out, Head(wire)) \in Seq(Lines)
         /\ Len(Append(out, Head(wire))) = Len(out) + 1
         /\ \A i \in 1..Len(out) : Append(out, Head(wire))[i] = out[i]
         /\ Append(out, Head(wire))[Len(out) + 1] = Head(wire)
<1>1. /\ Len(reply) \in Nat /\ Len(wire) <= Len(reply) - k
      /\ ~closed => Len(wire) = Len(reply) - k
      /\ \A i \in 1..Len(wire) : wire[i] = reply[k + i]
  BY DEF Framed, Read
<1>2. /\ wire \in Seq(Lines) /\ out \in Seq(Lines) /\ wire # <<>> /\ wire' = Tail(wire)
      /\ closed' = closed
  BY DEF Typed, ReadLine
<1>3. /\ Head(wire) = wire[1] /\ Head(wire) \in Lines
      /\ Tail(wire) \in Seq(Lines) /\ Len(Tail(wire)) = Len(wire) - 1
      /\ \A i \in 1..Len(Tail(wire)) : Tail(wire)[i] = wire[i + 1]
  BY <1>2, HeadTailProperties
<1>4. 1 \in 1..Len(wire)
  BY <1>2
<1>5. ASSUME NEW i \in 1..Len(wire')
      PROVE  wire'[i] = reply[(k + 1) + i]
  <2>1. i + 1 \in 1..Len(wire) /\ k + (i + 1) = (k + 1) + i
    BY <1>1, <1>2, <1>3
  <2> QED
    BY <1>1, <1>2, <1>3, <2>1
<1>6. /\ Len(wire') <= Len(reply) - (k + 1)
      /\ ~closed' => Len(wire') = Len(reply) - (k + 1)
  BY <1>1, <1>2, <1>3
<1>7. /\ Append(out, Head(wire)) \in Seq(Lines)
      /\ Len(Append(out, Head(wire))) = Len(out) + 1
      /\ \A i \in 1..Len(out) : Append(out, Head(wire))[i] = out[i]
      /\ Append(out, Head(wire))[Len(out) + 1] = Head(wire)
  BY <1>2, <1>3, AppendProperties
<1>8. k \in Nat /\ Head(wire) = reply[k + 1]
  BY <1>1, <1>3, <1>4
<1> QED
  BY <1>1, <1>2, <1>3, <1>5, <1>6, <1>7, <1>8

\* One turn of command()'s loop reads one more line of the reply, or the last one,
\* and then the reply is used.
LEMMA ReadOn ==
  ASSUME Typed, NEW reply, Framed(reply), NEW k \in 0..Len(reply) - 1, Read(reply, k), ReadLine
  PROVE  \/ /\ k < Len(reply) - 1 /\ Read(reply, k + 1)'
            /\ UNCHANGED <<questions, pc, hop, found, address, country>>
         \/ /\ wire' = <<>> /\ Whole(reply, Append(out, Head(wire)))
            /\ ~in_data_block /\ IsFinal(Head(wire)) /\ Use(Append(out, Head(wire)))
<1> DEFINE l == Head(wire)
           more == Append(out, l)
           N == Len(reply)
<1>1. /\ N \in Nat /\ l = reply[k + 1] /\ l \in Lines
      /\ wire' \in Seq(Lines) /\ Len(wire') <= N - (k + 1)
      /\ ~closed' => Len(wire') = N - (k + 1)
      /\ \A i \in 1..Len(wire') : wire'[i] = reply[(k + 1) + i]
      /\ more \in Seq(Lines) /\ Len(more) = Len(out) + 1
      /\ \A i \in 1..Len(out) : more[i] = out[i]
      /\ more[Len(out) + 1] = l
  BY NextLine
<1>2. /\ in_data_block /\ l.kind = "dot" =>
           /\ in_data_block' = FALSE
           /\ UNCHANGED <<questions, pc, hop, out, found, address, country>>
      /\ ~in_data_block /\ l.kind = "open" =>
           /\ in_data_block' = TRUE
           /\ UNCHANGED <<questions, pc, hop, out, found, address, country>>
      /\ ~in_data_block /\ l.kind # "open" /\ IsFinal(l) => Use(more)
      /\ (in_data_block /\ l.kind # "dot") \/ (~in_data_block /\ l.kind # "open" /\ ~IsFinal(l)) =>
           /\ out' = more
           /\ UNCHANGED <<questions, pc, hop, in_data_block, found, address, country>>
  <2>1. in_data_block \in BOOLEAN
    BY DEF Typed
  <2> HIDE DEF more
  <2>2. CASE in_data_block /\ l.kind = "dot"
    BY <2>2 DEF ReadLine
  <2>3. CASE ~in_data_block /\ l.kind = "open"
    BY <2>3 DEF ReadLine, IsFinal
  <2>4. CASE ~in_data_block /\ l.kind # "open" /\ IsFinal(l)
    BY <2>4 DEF ReadLine, more
  <2>5. CASE (in_data_block /\ l.kind # "dot") \/ (~in_data_block /\ l.kind # "open" /\ ~IsFinal(l))
    BY <2>5 DEF ReadLine, more
  <2> QED
    BY <2>1, <2>2, <2>3, <2>4, <2>5
<1>3. k = N - 1 => wire' = <<>>
  BY <1>1
<1>4. k \in Nat /\ k + 1 \in Nat /\ in_data_block \in BOOLEAN /\ out \in Seq(Lines)
  BY DEF Typed
<1> HIDE DEF l, more, N
<1>5. CASE reply[1].kind = "open"
  <2>1. /\ N > 2 /\ reply[N - 1].kind = "dot" /\ reply[N] = Ok
        /\ \A i \in 2..N - 2 : reply[i].kind # "dot"
    BY <1>5 DEF Framed, N
  <2>2. /\ in_data_block <=> k \in 1..N - 2
        /\ Len(out) = IF k = 0 THEN 0 ELSE IF k = N - 1 THEN k - 2 ELSE k - 1
        /\ \A i \in 1..Len(out) : out[i] = reply[i + 1]
    BY <1>5 DEF Read, N
  <2>3. SUFFICES
          \/ /\ k < N - 1
             /\ in_data_block' <=> k + 1 \in 1..N - 2
             /\ Len(out') = IF k + 1 = 0 THEN 0
                            ELSE IF k + 1 = N - 1 THEN (k + 1) - 2 ELSE (k + 1) - 1
             /\ \A i \in 1..Len(out') : out'[i] = reply[i + 1]
             /\ UNCHANGED <<questions, pc, hop, found, address, country>>
          \/ /\ k = N - 1 /\ ~in_data_block /\ IsFinal(l) /\ Use(more)
             /\ Len(more) = N - 2 /\ more[Len(more)] = Ok
             /\ \A i \in 1..Len(more) - 1 : more[i] = reply[i + 1]
    BY <1>1, <1>3, <1>5 DEF Read, Whole, l, more, N
  <2>4. CASE k = 0
    <3>1. ~in_data_block /\ l.kind = "open"
      BY <1>1, <1>5, <2>2, <2>4
    <3> QED
      BY <1>1, <1>2, <2>1, <2>2, <2>4, <3>1
  <2>5. CASE k \in 1..N - 3
    <3>1. in_data_block /\ l.kind # "dot" /\ Len(out) = k - 1
      <4>1. N \in Nat /\ k \in 1..N - 2 /\ k + 1 \in 2..N - 2 /\ k # 0 /\ k # N - 1
        <5>1. N \in Nat
          BY <1>1
        <5> QED
          BY <2>5, <5>1
      <4>2. reply[k + 1].kind # "dot"
        BY <2>1, <4>1
      <4>3. l = reply[k + 1]
        BY <1>1
      <4> QED
        BY <2>2, <4>1, <4>2, <4>3
    <3>2. out' = more /\ UNCHANGED <<questions, pc, hop, in_data_block, found, address, country>>
      BY <1>2, <3>1
    <3>3. ASSUME NEW i \in 1..Len(more)
          PROVE  more[i] = reply[i + 1]
      <4>1. CASE i = Len(out) + 1
        <5>1. more[i] = l /\ l = reply[k + 1]
          BY <1>1, <4>1
        <5>2. i = k /\ k + 1 = i + 1
          BY <1>4, <3>1, <4>1
        <5> QED
          BY <5>1, <5>2
      <4>2. CASE i # Len(out) + 1
        <5>1. i \in 1..Len(out)
          BY <1>1, <1>4, <3>1, <4>2
        <5> QED
          BY <1>1, <2>2, <5>1
      <4> QED
        BY <4>1, <4>2
    <3>4. k < N - 1 /\ k + 1 \in 1..N - 2 /\ k + 1 # 0 /\ k + 1 # N - 1 /\ (k + 1) - 1 = k
      BY <1>1, <1>4, <2>1, <2>5
    <3>5. Len(out') = (k + 1) - 1 /\ in_data_block'
      BY <1>1, <1>4, <3>1, <3>2
    <3> QED
      BY <3>2, <3>3, <3>4, <3>5
  <2>6. CASE k = N - 2
    <3>1. k + 1 = N - 1 /\ k \in 1..N - 2 /\ k # 0 /\ k # N - 1 /\ k < N - 1
      <4>1. N \in Nat /\ N > 2 /\ k \in Nat
        BY <1>1, <1>4, <2>1
      <4> QED
        BY <2>6, <4>1
    <3>2. in_data_block /\ l.kind = "dot" /\ Len(out) = k - 1
      BY <1>1, <2>1, <2>2, <3>1
    <3>3. /\ ~in_data_block' /\ out' = out
          /\ UNCHANGED <<questions, pc, hop, found, address, country>>
      BY <1>2, <3>2
    <3>4. k + 1 \notin 1..N - 2 /\ Len(out') = (k + 1) - 2
      <4>1. N \in Nat /\ k \in Nat
        BY <1>1, <1>4
      <4>2. k + 1 \notin 1..N - 2
        BY <2>6, <4>1
      <4>3. (k + 1) - 2 = k - 1
        BY <4>1
      <4> QED
        BY <3>2, <3>3, <4>2, <4>3
    <3> QED
      BY <2>2, <3>1, <3>3, <3>4
  <2>7. CASE k = N - 1
    <3>1. ~in_data_block /\ l = Ok /\ Len(out) = N - 3
      BY <1>1, <2>1, <2>2, <2>7
    <3>2. l.kind # "open" /\ IsFinal(l)
      BY <3>1 DEF Ok, Line, IsFinal
    <3>3. Len(more) - 1 = Len(out) /\ Len(more) = N - 2
      BY <1>1, <2>1, <3>1
    <3> QED
      BY <1>1, <1>2, <2>2, <2>7, <3>1, <3>2, <3>3
  <2>8. k = 0 \/ k \in 1..N - 3 \/ k = N - 2 \/ k = N - 1
    <3>1. N \in Nat /\ N > 2 /\ k \in 0..N - 1
      BY <1>1, <2>1 DEF N
    <3> QED
      BY <3>1
  <2> QED
    BY <2>4, <2>5, <2>6, <2>7, <2>8
<1>6. CASE reply[1].kind # "open"
  <2>1. /\ IsFinal(reply[N]) /\ reply[N].kind # "open"
        /\ \A i \in 1..N - 1 : ~IsFinal(reply[i]) /\ reply[i].kind # "open"
    BY <1>6 DEF Framed, N
  <2>2. ~in_data_block /\ Len(out) = k /\ \A i \in 1..k : out[i] = reply[i]
    BY <1>6 DEF Read
  <2>3. ASSUME NEW i \in 1..Len(more)
        PROVE  more[i] = reply[i]
    <3>1. CASE i = k + 1
      BY <1>1, <2>2, <3>1
    <3>2. CASE i # k + 1
      <4>1. i \in 1..k
        BY <1>1, <1>4, <2>2, <3>2
      <4> QED
        BY <1>1, <2>2, <4>1
    <3> QED
      BY <3>1, <3>2
  <2>4. CASE k = N - 1
    <3>1. l.kind # "open" /\ IsFinal(l) /\ Len(more) = N
      BY <1>1, <2>1, <2>2, <2>4
    <3> QED
      BY <1>1, <1>2, <1>3, <1>6, <2>2, <2>3, <2>4, <3>1 DEF Whole, l, more, N
  <2>5. CASE k # N - 1
    <3>1. k < N - 1 /\ k + 1 \in 1..N - 1
      BY <1>1, <2>5 DEF N
    <3>2. l.kind # "open" /\ ~IsFinal(l)
      BY <1>1, <2>1, <3>1
    <3>3. out' = more /\ UNCHANGED <<questions, pc, hop, in_data_block, found, address, country>>
      BY <1>2, <2>2, <3>2
    <3>4. Len(out') = k + 1 /\ \A i \in 1..k + 1 : out'[i] = reply[i]
      BY <1>1, <2>2, <2>3, <3>3
    <3> QED
      BY <1>1, <1>6, <2>2, <3>1, <3>3, <3>4 DEF Read, N
  <2> QED
    BY <2>4, <2>5
<1> QED
  BY <1>5, <1>6

-----------------------------------------------------------------------------
(* What a whole reply says.                                                *)

\* The listing.
LEMMA ListingIsParsed ==
  ASSUME Typed, pc = "list", NEW reply \in Replies(Question),
         NEW lines, Whole(reply, lines)
  PROVE  LET circuits == Parse(lines)
         IN  /\ circuits \in Seq(1..Len(listing))
             /\ {circuits[i] : i \in 1..Len(circuits)} = Kept
             /\ \A i, j \in 1..Len(circuits) : i < j => circuits[i] < circuits[j]
<1>10. CASE ~(Len(listing) > 1)
  <2>1. reply = <<Line("mid", Len(listing)), Ok>>
    BY <1>10 DEF Question, Replies, Listing
  <2>2. Len(listing) \in Nat /\ lines \in Seq(Lines)
    BY DEF Typed, Whole
  <2> HIDE DEF Question, Replies
  <2>3. Len(lines) = 2 /\ lines[1] = Line("mid", Len(listing)) /\ lines[2] = Ok
    <3> DEFINE mid == Line("mid", Len(listing))
    <3>1. mid.kind # "open"
      BY DEF Line
    <3> HIDE DEF mid
    <3>2. Len(reply) = 2 /\ reply[1] = mid /\ reply[2] = Ok
      BY <2>1 DEF mid
    <3>3. Len(lines) = Len(reply) /\ \A k \in 1..Len(lines) : lines[k] = reply[k]
      BY <3>1, <3>2 DEF Whole
    <3>4. 1 \in 1..Len(lines) /\ 2 \in 1..Len(lines)
      BY <3>2, <3>3
    <3> QED
      BY <3>2, <3>3, <3>4, Zenon DEF mid
  <2>4. /\ lines[1].kind \notin {"short", "three"}
        /\ lines[2].kind \notin {"short", "three"}
    BY <2>3 DEF Line, Ok
  <2>5. Parse(lines) = <<>>
    <3> DEFINE K == {"short", "three"}
    <3>1. PICK f : Grows(f, lines, K, 2) /\ AllOf(lines, K) = f[2]
      <4>1. Len(lines) = 2 /\ Len(lines) \in Nat
        BY <2>3
      <4>2. \E f : Grows(f, lines, K, Len(lines)) /\ AllOf(lines, K) = f[Len(lines)]
        BY <4>1, AllOfGrows
      <4> QED
        BY <4>1, <4>2
    <3>2. lines[1].kind \notin K /\ lines[2].kind \notin K
      BY <2>4
    <3>3. AllOf(lines, K) = Parse(lines)
      BY DEF Parse
    <3> HIDE DEF K
    <3>4. f = [m \in 0..2 |-> IF m = 0 THEN <<>>
                            ELSE IF lines[m].kind \in K THEN Append(f[m - 1], lines[m].of)
                            ELSE f[m - 1]]
      BY <3>1 DEF Grows
    <3>5. f[0] = <<>>
      BY <3>4
    <3>6. f[1] = f[0]
      <4>1. 1 \in 0..2 /\ 1 # 0 /\ 1 - 1 = 0
        OBVIOUS
      <4> QED
        BY <3>2, <3>4, <4>1
    <3>7. f[2] = f[1]
      <4>1. 2 \in 0..2 /\ 2 # 0 /\ 2 - 1 = 1
        OBVIOUS
      <4> QED
        BY <3>2, <3>4, <4>1
    <3> QED
      BY <3>1, <3>3, <3>5, <3>6, <3>7
  <2>6. Kept = {}
    BY <1>10 DEF Kept
  <2> DEFINE none == Parse(lines)
  <2>7. none = <<>>
    BY <2>5
  <2> HIDE DEF none
  <2>8. /\ none \in Seq(1..Len(listing)) /\ {none[i] : i \in 1..Len(none)} = Kept
        /\ \A i, j \in 1..Len(none) : i < j => none[i] < none[j]
    BY <2>6, <2>7
  <2> QED
    BY <2>8 DEF none
<1> SUFFICES ASSUME Len(listing) > 1
             PROVE  LET circuits == Parse(lines)
                    IN  /\ circuits \in Seq(1..Len(listing))
                        /\ {circuits[i] : i \in 1..Len(circuits)} = Kept
                        /\ \A i, j \in 1..Len(circuits) : i < j => circuits[i] < circuits[j]
  BY <1>10
<1> DEFINE block == [c \in 1..Len(listing) |-> Line(listing[c], c)]
<1>1. reply = Block(block)
  BY DEF Question, Replies, Listing
<1>2. ASSUME NEW c \in 1..Len(listing)
      PROVE  Line(listing[c], c) \in Lines /\ Line(listing[c], c).kind # "dot"
  <2>1. listing[c] \in Ids
    BY ElementOfSeq DEF Typed
  <2>2. c \in 0..MaxCircuits /\ MaxCircuits \in Nat
    BY BoundsAssumption DEF Typed
  <2> QED
    BY <2>1, <2>2 DEF Lines, Line, Kinds, Ids, Bandwidth
<1>3. Len(listing) \in Nat /\ listing \in Seq(Ids)
  BY DEF Typed
<1>4. /\ block \in Seq(Lines) /\ Len(block) = Len(listing)
      /\ \A c \in 1..Len(listing) : block[c] = Line(listing[c], c)
  BY <1>2, <1>3
<1>5. \A c \in 1..Len(block) : block[c].kind # "dot"
  BY <1>2, <1>4
<1> HIDE DEF block
<1>6. /\ Len(reply) = Len(block) + 3 /\ reply[1].kind = "open"
      /\ \A c \in 1..Len(block) : reply[c + 1] = block[c]
  BY <1>1, <1>4, <1>5, BlockIsFramed
<1>7. /\ lines \in Seq(Lines) /\ Len(lines) = Len(reply) - 2 /\ lines[Len(lines)] = Ok
      /\ \A c \in 1..Len(lines) - 1 : lines[c] = reply[c + 1]
  BY <1>6 DEF Whole
<1>8. Len(lines) = Len(listing) + 1 /\ Len(lines) - 1 = Len(listing)
  BY <1>3, <1>4, <1>6, <1>7
<1>9. \A c \in 1..Len(listing) : lines[c] = Line(listing[c], c)
  BY <1>4, <1>6, <1>7, <1>8
<1>11. Kept = {c \in 1..Len(listing) : listing[c] # "two50"}
  BY DEF Kept
<1> QED
  BY <1>3, <1>7, <1>8, <1>9, <1>11, ParseIsWhole

\* An address is that of the relay that was asked about.
LEMMA AddressIsItsOwn ==
  ASSUME Typed, pc = "addr", NEW reply \in Replies(Question),
         NEW lines, Whole(reply, lines)
  PROVE  FirstOf(lines, AddressKinds) \in {Nobody, found[hop]}
<1> DEFINE of == found[hop]
           block == <<Line("r", of), Line("w", Bandwidth)>>
<1>1. of \in 0..MaxCircuits
  <2>1. of \in 1..Len(listing)
    BY ElementOfSeq DEF Typed
  <2> QED
    BY <2>1, BoundsAssumption DEF Typed
<1>2. reply = <<Error>> \/ reply = Block(block)
  BY DEF Question, Replies
<1> HIDE DEF of
<1>3. lines \in Seq(Lines)
  BY DEF Whole
<1>4. SUFFICES ASSUME NEW i \in 1..Len(lines), lines[i].kind = "r"
               PROVE  lines[i].of = of
  BY <1>3, FirstIsOneOfThem DEF AddressKinds, of
<1>5. CASE reply = <<Error>>
  <2>1. Len(lines) = 1 /\ lines[1] = Error
    BY <1>5 DEF Whole, Error, Line
  <2>2. lines[i].kind = "error"
    BY <2>1 DEF Error, Line
  <2> QED
    BY <1>4, <2>2
<1>6. CASE reply = Block(block)
  <2>1. /\ block \in Seq(Lines) /\ Len(block) = 2
        /\ block[1] = Line("r", of) /\ block[2] = Line("w", Bandwidth)
    <3>1. Line("r", of) \in Lines /\ Line("w", Bandwidth) \in Lines
      BY <1>1, BoundsAssumption DEF Lines, Line, Kinds, Bandwidth
    <3> QED
      BY <3>1
  <2> HIDE DEF block
  <2>2. \A c \in 1..Len(block) : block[c].kind # "dot"
    BY <2>1 DEF Line
  <2>3. /\ Len(reply) = Len(block) + 3 /\ reply[1].kind = "open"
        /\ \A c \in 1..Len(block) : reply[c + 1] = block[c]
    BY <1>6, <2>1, <2>2, BlockIsFramed
  <2>4. /\ Len(lines) = Len(reply) - 2 /\ lines[Len(lines)] = Ok
        /\ \A c \in 1..Len(lines) - 1 : lines[c] = reply[c + 1]
    BY <2>3 DEF Whole
  <2>5. /\ Len(lines) = 3 /\ lines[3] = Ok
        /\ lines[1] = Line("r", of) /\ lines[2] = Line("w", Bandwidth)
    <3>1. Len(lines) = 3 /\ Len(lines) - 1 = 2
      BY <2>1, <2>3, <2>4
    <3>2. /\ 1 \in 1..Len(block) /\ 2 \in 1..Len(block)
          /\ 1 \in 1..Len(lines) - 1 /\ 2 \in 1..Len(lines) - 1
      BY <2>1, <3>1
    <3>3. /\ lines[1] = reply[1 + 1] /\ reply[1 + 1] = block[1]
          /\ lines[2] = reply[2 + 1] /\ reply[2 + 1] = block[2]
      BY <2>3, <2>4, <3>2
    <3> QED
      BY <2>1, <2>4, <3>1, <3>3
  <2>6. lines[1].of = of /\ lines[2].kind = "w" /\ lines[3].kind = "ok"
    BY <2>5 DEF Line, Ok
  <2>7. i = 1 \/ i = 2 \/ i = 3
    BY <2>5
  <2> QED
    BY <1>4, <2>6, <2>7
<1> QED
  BY <1>2, <1>5, <1>6

\* A country is that of the address that was asked about.
LEMMA CountryIsItsOwn ==
  ASSUME Typed, pc = "country", NEW reply \in Replies(Question),
         NEW lines, Whole(reply, lines)
  PROVE  FirstOf(lines, EqualsKinds) \in {Nobody, address[hop]}
<1> DEFINE of == address[hop]
<1>1. \/ reply = <<Error>>
      \/ reply = <<Line("mid", of), Ok>> \/ reply = <<Line("mid", Nobody), Ok>>
  BY DEF Question, Replies
<1> HIDE DEF of
<1>2. lines \in Seq(Lines)
  BY DEF Whole
<1>3. SUFFICES ASSUME NEW i \in 1..Len(lines), lines[i].kind \in EqualsKinds
               PROVE  lines[i].of \in {Nobody, of}
  BY <1>2, FirstIsOneOfThem DEF of
<1>4. CASE reply = <<Error>>
  <2>1. Len(lines) = 1 /\ lines[1] = Error
    BY <1>4 DEF Whole, Error, Line
  <2>2. lines[i].kind = "error"
    BY <2>1 DEF Error, Line
  <2> QED
    BY <1>3, <2>2 DEF EqualsKinds
<1>5. ASSUME NEW whom \in {Nobody, of}, reply = <<Line("mid", whom), Ok>>
      PROVE  lines[i].of \in {Nobody, of}
  <2>1. Len(lines) = 2 /\ lines[1] = Line("mid", whom) /\ lines[2] = Ok
    <3>1. Len(reply) = 2 /\ reply[1] = Line("mid", whom) /\ reply[2] = Ok
      BY <1>5
    <3>2. reply[1].kind # "open"
      BY <3>1 DEF Line
    <3>3. Len(lines) = Len(reply) /\ \A k \in 1..Len(lines) : lines[k] = reply[k]
      BY <3>2 DEF Whole
    <3>4. 1 \in 1..Len(lines) /\ 2 \in 1..Len(lines)
      BY <3>1, <3>3
    <3> QED
      BY <3>1, <3>3, <3>4, Zenon
  <2>2. lines[1].of = whom /\ lines[2].kind = "ok"
    BY <2>1 DEF Line, Ok
  <2>3. i = 1 \/ i = 2
    BY <2>1
  <2> QED
    BY <1>3, <1>5, <2>2, <2>3 DEF EqualsKinds
<1> QED
  BY <1>1, <1>4, <1>5

-----------------------------------------------------------------------------
(* What the steps of the client come to.                                   *)

LEMMA QuestionTyped ==
  ASSUME Typed, pc \in Commands
  PROVE  Question \in Questions
<1>1. Nobody \in 0..MaxCircuits
  BY BoundsAssumption DEF Nobody
<1>2. CASE pc = "addr"
  <2>1. found[hop] \in 1..Len(listing)
    BY <1>2, ElementOfSeq DEF Typed
  <2>2. found[hop] \in 0..MaxCircuits
    BY <2>1, BoundsAssumption DEF Typed
  <2> QED
    BY <1>2, <2>2 DEF Question, Questions
<1>3. CASE pc = "country"
  <2>1. address[hop] \in 0..MaxCircuits
    BY <1>3, ElementOfSeq DEF Typed
  <2> QED
    BY <1>3, <2>1 DEF Question, Questions
<1>4. CASE pc \notin {"addr", "country"}
  BY <1>1, <1>4 DEF Question, Questions
<1> QED
  BY <1>2, <1>3, <1>4

\* A question is put on a line of its own.
LEMMA AskTyped ==
  ASSUME Typed, NEW ask \in Commands, NEW of \in 0..MaxCircuits, Ask(ask, of)
  PROVE  /\ pc' = ask /\ in_data_block' = FALSE /\ out' = <<>> /\ out' \in Seq(Lines)
         /\ questions' \in Seq(Questions)
         /\ questions = <<>> =>
              questions' = IF closed THEN <<>> ELSE <<[ask |-> ask, of |-> of]>>
<1>1. [ask |-> ask, of |-> of] \in Questions
  BY DEF Questions
<1>2. questions \in Seq(Questions) /\ closed \in BOOLEAN
  BY DEF Typed
<1> DEFINE q == [ask |-> ask, of |-> of]
<1>3. /\ pc' = ask /\ in_data_block' = FALSE /\ out' = <<>>
      /\ questions' = IF closed THEN questions ELSE Append(questions, q)
  BY DEF Ask
<1>4. out' \in Seq(Lines)
  BY <1>3
<1> HIDE DEF q
<1>5. questions' \in Seq(Questions)
  BY <1>1, <1>2, <1>3 DEF q
<1>6. questions = <<>> => questions' = IF closed THEN <<>> ELSE <<q>>
  BY <1>3
<1> QED
  BY <1>3, <1>4, <1>5, <1>6 DEF q

\* The next hop, or the end.
LEMMA NextHopTyped ==
  ASSUME Typed, hop \in 1..Len(found), NextHop(hop + 1)
  PROVE  /\ hop' = hop + 1 /\ hop' \in Nat
         /\ pc' = IF hop' <= Len(found) THEN "addr" ELSE "quit"
         /\ in_data_block' = FALSE /\ out' = <<>> /\ out' \in Seq(Lines)
         /\ questions' \in Seq(Questions)
         /\ questions = <<>> =>
              questions' = IF closed THEN <<>>
                           ELSE <<[ask |-> pc', of |-> IF pc' = "addr" THEN found[hop'] ELSE Nobody]>>
<1>1. hop' = hop + 1 /\ hop' \in Nat /\ Len(found) \in Nat
  BY DEF NextHop, Typed
<1>2. Nobody \in 0..MaxCircuits
  BY BoundsAssumption DEF Nobody
<1>3. CASE hop' <= Len(found)
  <2>1. Ask("addr", found[hop'])
    BY <1>1, <1>3 DEF NextHop
  <2>2. hop' \in 1..Len(found)
    BY <1>1, <1>3
  <2>3. found[hop'] \in 1..Len(listing)
    BY <2>2, ElementOfSeq DEF Typed
  <2>4. found[hop'] \in 0..MaxCircuits
    BY <2>3, BoundsAssumption, SMTT(30) DEF Typed
  <2> QED
    BY <1>1, <1>3, <2>1, <2>4, AskTyped DEF Commands
<1>4. CASE ~(hop' <= Len(found))
  <2>1. Ask("quit", Nobody)
    BY <1>1, <1>4 DEF NextHop
  <2> QED
    BY <1>1, <1>2, <1>4, <2>1, AskTyped DEF Commands
<1> QED
  BY <1>3, <1>4

\* A turn of the loop keeps the line, or uses the reply that it ends.
LEMMA ReadLineKeepsOrUses ==
  ASSUME Typed, ReadLine
  PROVE  /\ wire' \in Seq(Lines) /\ Append(out, Head(wire)) \in Seq(Lines)
         /\ \/ /\ in_data_block' \in BOOLEAN /\ out' \in Seq(Lines)
               /\ out' \in {out, Append(out, Head(wire))}
               /\ UNCHANGED <<questions, pc, hop, found, address, country>>
            \/ Use(Append(out, Head(wire)))
<1> DEFINE l == Head(wire)
           more == Append(out, l)
<1>1. wire \in Seq(Lines) /\ wire # <<>> /\ wire' = Tail(wire) /\ out \in Seq(Lines)
  BY DEF Typed, ReadLine
<1>2. l \in Lines /\ wire' \in Seq(Lines) /\ more \in Seq(Lines)
  BY <1>1
<1>3. in_data_block \in BOOLEAN
  BY DEF Typed
<1> HIDE DEF l, more
<1>4. CASE in_data_block /\ l.kind = "dot"
  BY <1>1, <1>2, <1>4 DEF ReadLine, l, more
<1>5. CASE ~in_data_block /\ l.kind = "open"
  BY <1>1, <1>2, <1>5 DEF ReadLine, IsFinal, l, more
<1>6. CASE ~in_data_block /\ l.kind # "open" /\ IsFinal(l)
  BY <1>2, <1>6 DEF ReadLine, l, more
<1>7. CASE (in_data_block /\ l.kind # "dot") \/ (~in_data_block /\ l.kind # "open" /\ ~IsFinal(l))
  BY <1>2, <1>3, <1>7 DEF ReadLine, l, more
<1> QED
  BY <1>3, <1>4, <1>5, <1>6, <1>7

\* What a whole reply leads to, by the command it answers.
LEMMA UseByCommand ==
  ASSUME Typed, pc \in Commands, NEW lines \in Seq(Lines), Use(lines)
  PROVE  /\ pc = "auth" =>
              /\ Stop("failed") \/ Ask("list", Nobody)
              /\ UNCHANGED <<hop, found, address, country>>
         /\ pc = "list" =>
              /\ found' = Parse(lines)
              /\ address' = [c \in 1..Len(found') |-> Nobody] /\ country' = address'
              /\ hop' = 1
              /\ IF found' = <<>> THEN Ask("quit", Nobody) ELSE Ask("addr", found'[1])
         /\ pc = "addr" =>
              /\ address' = [address EXCEPT ![hop] = FirstOf(lines, AddressKinds)]
              /\ \/ NextHop(hop + 1)
                 \/ Ask("country", FirstOf(lines, AddressKinds)) /\ UNCHANGED hop
              /\ UNCHANGED <<found, country>>
         /\ pc = "country" =>
              /\ country' = [country EXCEPT ![hop] = FirstOf(lines, EqualsKinds)]
              /\ NextHop(hop + 1) /\ UNCHANGED <<found, address>>
         /\ pc = "quit" => Stop("done") /\ UNCHANGED <<hop, found, address, country>>
<1>1. CASE pc = "auth"
  BY <1>1 DEF Use
<1>2. CASE pc = "list"
  BY <1>2 DEF Use
<1>3. CASE pc = "addr"
  BY <1>3 DEF Use
<1>4. CASE pc = "country"
  BY <1>4 DEF Use
<1>5. CASE pc = "quit"
  BY <1>5 DEF Use
<1> QED
  BY <1>1, <1>2, <1>3, <1>4, <1>5 DEF Commands

\* An address is that of a relay, or of nobody, whatever was asked.
LEMMA AddressIsARelay ==
  ASSUME NEW lines \in Seq(Lines)
  PROVE  FirstOf(lines, AddressKinds) \in 0..MaxCircuits
<1>1. \A l \in Lines : l.kind = "r" => l.of \in 0..MaxCircuits
  BY BoundsAssumption DEF Lines, Bandwidth
<1>2. \A i \in 1..Len(lines) : lines[i] \in Lines
  BY ElementOfSeq
<1>3. \/ FirstOf(lines, AddressKinds) = Nobody
      \/ \E i \in 1..Len(lines) : /\ lines[i].kind = "r"
                                  /\ FirstOf(lines, AddressKinds) = lines[i].of
  BY FirstIsOneOfThem DEF AddressKinds
<1> QED
  BY <1>1, <1>2, <1>3, BoundsAssumption DEF Nobody

\* A line more in hand.
LEMMA ReadOneMore ==
  ASSUME NEW S, out \in Seq(Lines), NEW l \in Lines, l.of \in S,
         \A i \in 1..Len(out) : out[i].of \in S
  PROVE  /\ Append(out, l) \in Seq(Lines)
         /\ \A i \in 1..Len(Append(out, l)) : Append(out, l)[i].of \in S
<1> DEFINE more == Append(out, l)
<1>1. /\ more \in Seq(Lines) /\ Len(more) = Len(out) + 1 /\ Len(out) \in Nat
      /\ \A i \in 1..Len(out) : more[i] = out[i]
      /\ more[Len(out) + 1] = l
  BY AppendProperties
<1> HIDE DEF more
<1>2. ASSUME NEW i \in 1..Len(more)
      PROVE  more[i].of \in S
  <2>1. i \in 1..Len(out) \/ i = Len(out) + 1
    BY <1>1
  <2> QED
    BY <1>1, <2>1
<1> QED
  BY <1>1, <1>2 DEF more

\* A question more on its way.
LEMMA AskedOneMore ==
  ASSUME Typed, NEW ask, ask # "list", NEW S, NEW of \in S,
         \A i \in 1..Len(questions) : questions[i].ask # "list" /\ questions[i].of \in S,
         questions' = Append(questions, [ask |-> ask, of |-> of])
  PROVE  \A i \in 1..Len(questions') : questions'[i].ask # "list" /\ questions'[i].of \in S
<1> DEFINE q == [ask |-> ask, of |-> of]
<1>1. q.ask # "list" /\ q.of \in S
  OBVIOUS
<1> HIDE DEF q
<1>2. /\ questions \in Seq(Questions) /\ questions' = Append(questions, q)
  BY DEF Typed, q
<1>3. /\ Len(questions') = Len(questions) + 1 /\ Len(questions) \in Nat
      /\ \A i \in 1..Len(questions) : questions'[i] = questions[i]
      /\ questions'[Len(questions) + 1] = q
  BY <1>2
<1> TAKE i \in 1..Len(questions')
<1>4. i \in 1..Len(questions) \/ i = Len(questions) + 1
  BY <1>3
<1> QED
  BY <1>1, <1>3, <1>4

\* An address is of a relay that was asked about, if the lines are.
LEMMA AddressIsNotAhead ==
  ASSUME NEW lines \in Seq(Lines), NEW n,
         \A i \in 1..Len(lines) : lines[i].of \in Earlier(n) \cup {Bandwidth}
  PROVE  FirstOf(lines, AddressKinds) \in Earlier(n)
<1>1. \A l \in Lines : l.kind = "r" => l.of # Bandwidth
  BY DEF Lines
<1>2. \A i \in 1..Len(lines) : lines[i] \in Lines
  BY ElementOfSeq
<1>3. \/ FirstOf(lines, AddressKinds) = Nobody
      \/ \E i \in 1..Len(lines) : /\ lines[i].kind = "r"
                                  /\ FirstOf(lines, AddressKinds) = lines[i].of
  BY FirstIsOneOfThem DEF AddressKinds
<1>4. Nobody \in Earlier(n)
  BY DEF Earlier
<1> QED
  BY <1>1, <1>2, <1>3, <1>4

\* Using a reply leaves every variable of its type.
LEMMA UseTyped ==
  ASSUME Typed, pc \in Commands, NEW lines \in Seq(Lines), Use(lines),
         wire' \in Seq(Lines), UNCHANGED <<listing, closed, timeouts>>,
         pc = "list" => Parse(lines) \in Seq(1..Len(listing))
  PROVE  Typed'
<1>1. Nobody \in 0..MaxCircuits /\ Nobody \in 0..Bandwidth /\ Len(found) \in Nat
  BY BoundsAssumption DEF Nobody, Bandwidth, Typed
<1>2. /\ listing' \in Seq(Ids) /\ Len(listing') \in 0..MaxCircuits
      /\ closed' \in BOOLEAN /\ timeouts' \in 0..MaxTimeouts
  BY DEF Typed
<1>3. UNCHANGED <<found, address, country>> =>
        /\ found' \in Seq(1..Len(listing'))
        /\ address' \in Seq(0..MaxCircuits) /\ Len(address') = Len(found')
        /\ country' \in Seq(0..Bandwidth) /\ Len(country') = Len(found')
  BY DEF Typed
<1>4. ASSUME NEW how \in {"failed", "done"}, Stop(how)
      PROVE  /\ questions' \in Seq(Questions) /\ out' \in Seq(Lines)
             /\ in_data_block' \in BOOLEAN /\ pc' \in {"failed", "done"}
  <2>1. pc' = how /\ in_data_block' = FALSE /\ out' = <<>> /\ questions' = questions
    BY <1>4 DEF Stop
  <2>2. questions \in Seq(Questions)
    BY DEF Typed
  <2>3. out' \in Seq(Lines)
    BY <2>1
  <2> QED
    BY <2>1, <2>2, <2>3
<1>5. CASE pc = "auth"
  <2>1. UNCHANGED <<hop, found, address, country>> /\ hop \in Nat
    BY <1>5, UseByCommand DEF Typed
  <2>2. CASE Stop("failed")
    BY <1>2, <1>3, <1>4, <2>1, <2>2 DEF Typed
  <2>3. CASE Ask("list", Nobody)
    <3>1. /\ pc' = "list" /\ questions' \in Seq(Questions) /\ out' \in Seq(Lines)
          /\ in_data_block' \in BOOLEAN
      BY <1>1, <2>3, AskTyped DEF Commands
    <3> QED
      BY <1>2, <1>3, <2>1, <3>1 DEF Typed, Commands
  <2> QED
    BY <1>5, <2>2, <2>3, UseByCommand
<1>6. CASE pc = "list"
  <2>1. /\ found' = Parse(lines) /\ found' \in Seq(1..Len(listing'))
        /\ address' = [c \in 1..Len(found') |-> Nobody] /\ country' = address'
        /\ hop' = 1
        /\ IF found' = <<>> THEN Ask("quit", Nobody) ELSE Ask("addr", found'[1])
    BY <1>6, UseByCommand
  <2>2. Len(found') \in Nat
    BY <2>1
  <2>3. /\ address' \in Seq(0..MaxCircuits) /\ Len(address') = Len(found')
        /\ country' \in Seq(0..Bandwidth) /\ Len(country') = Len(found')
    BY <1>1, <2>1, <2>2
  <2>4. CASE found' = <<>>
    <3>1. /\ pc' = "quit" /\ questions' \in Seq(Questions) /\ out' \in Seq(Lines)
          /\ in_data_block' \in BOOLEAN
      BY <1>1, <2>1, <2>4, AskTyped DEF Commands
    <3> QED
      BY <1>2, <2>1, <2>3, <3>1 DEF Typed, Commands
  <2>5. CASE found' # <<>>
    <3>1. 1 \in 1..Len(found') /\ found'[1] \in 1..Len(listing)
      <4>1. 1 \in 1..Len(found')
        BY <2>1, <2>2, <2>5
      <4> QED
        BY <2>1, <4>1, ElementOfSeq
    <3>2. found'[1] \in 0..MaxCircuits
      BY <3>1, BoundsAssumption DEF Typed
    <3>3. /\ pc' = "addr" /\ questions' \in Seq(Questions) /\ out' \in Seq(Lines)
          /\ in_data_block' \in BOOLEAN
      BY <2>1, <2>5, <3>2, AskTyped DEF Commands
    <3> QED
      BY <1>2, <2>1, <2>3, <3>1, <3>3 DEF Typed, Commands
  <2> QED
    BY <2>4, <2>5
<1>7. CASE pc = "addr"
  <2> DEFINE a == FirstOf(lines, AddressKinds)
  <2>1. hop \in 1..Len(found)
    BY <1>7 DEF Typed
  <2>2. a \in 0..MaxCircuits
    BY AddressIsARelay
  <2>3. /\ address' = [address EXCEPT ![hop] = a]
        /\ NextHop(hop + 1) \/ (Ask("country", a) /\ UNCHANGED hop)
        /\ UNCHANGED <<found, country>>
    BY <1>7, UseByCommand
  <2> HIDE DEF a
  <2>4. /\ address' \in Seq(0..MaxCircuits) /\ Len(address') = Len(found')
        /\ country' \in Seq(0..Bandwidth) /\ Len(country') = Len(found')
        /\ found' \in Seq(1..Len(listing'))
    BY <2>1, <2>2, <2>3 DEF Typed
  <2>5. CASE NextHop(hop + 1)
    <3>1. /\ hop' = hop + 1 /\ hop' \in Nat
          /\ pc' = IF hop' <= Len(found) THEN "addr" ELSE "quit"
          /\ in_data_block' \in BOOLEAN /\ out' \in Seq(Lines)
          /\ questions' \in Seq(Questions)
      BY <2>1, <2>5, NextHopTyped
    <3>2. pc' = "addr" => hop' \in 1..Len(found')
      BY <1>1, <2>1, <2>3, <3>1
    <3> QED
      BY <1>2, <2>4, <3>1, <3>2 DEF Typed, Commands
  <2>6. CASE Ask("country", a) /\ UNCHANGED hop
    <3>1. /\ pc' = "country" /\ in_data_block' \in BOOLEAN /\ out' \in Seq(Lines)
          /\ questions' \in Seq(Questions)
      BY <2>2, <2>6, AskTyped DEF Commands
    <3>2. hop' \in Nat /\ hop' \in 1..Len(found')
      BY <2>1, <2>3, <2>6 DEF Typed
    <3> QED
      BY <1>2, <2>4, <3>1, <3>2 DEF Typed, Commands
  <2> QED
    BY <2>3, <2>5, <2>6
<1>8. CASE pc = "country"
  <2> DEFINE c == FirstOf(lines, EqualsKinds)
  <2>1. hop \in 1..Len(found)
    BY <1>8 DEF Typed
  <2>2. c \in 0..Bandwidth
    <3>1. \A i \in 1..Len(lines) : lines[i] \in Lines
      BY ElementOfSeq
    <3>2. \A l \in Lines : l.of \in 0..Bandwidth
      BY DEF Lines
    <3>3. c = Nobody \/ \E i \in 1..Len(lines) : c = lines[i].of
      BY FirstIsOneOfThem
    <3> QED
      BY <1>1, <3>1, <3>2, <3>3
  <2>3. /\ country' = [country EXCEPT ![hop] = c]
        /\ NextHop(hop + 1) /\ UNCHANGED <<found, address>>
    BY <1>8, UseByCommand
  <2> HIDE DEF c
  <2>4. /\ address' \in Seq(0..MaxCircuits) /\ Len(address') = Len(found')
        /\ country' \in Seq(0..Bandwidth) /\ Len(country') = Len(found')
        /\ found' \in Seq(1..Len(listing'))
    BY <2>1, <2>2, <2>3 DEF Typed
  <2>5. /\ hop' = hop + 1 /\ hop' \in Nat
        /\ pc' = IF hop' <= Len(found) THEN "addr" ELSE "quit"
        /\ in_data_block' \in BOOLEAN /\ out' \in Seq(Lines)
        /\ questions' \in Seq(Questions)
    BY <2>1, <2>3, NextHopTyped
  <2>6. pc' = "addr" => hop' \in 1..Len(found')
    BY <1>1, <2>1, <2>3, <2>5
  <2> QED
    BY <1>2, <2>4, <2>5, <2>6 DEF Typed, Commands
<1>9. CASE pc = "quit"
  <2>1. UNCHANGED <<hop, found, address, country>> /\ hop \in Nat /\ Stop("done")
    BY <1>9, UseByCommand DEF Typed
  <2> QED
    BY <1>2, <1>3, <1>4, <2>1 DEF Typed
<1> QED
  BY <1>5, <1>6, <1>7, <1>8, <1>9 DEF Commands

\* So does giving up on a command, and its hops stay as they are.
LEMMA CommandFailsTyped ==
  ASSUME Typed, pc \in Commands, CommandFails,
         UNCHANGED <<listing, wire, closed>>, timeouts' \in 0..MaxTimeouts
  PROVE  Typed' /\ UNCHANGED <<found, address, country>>
<1>1. /\ listing' \in Seq(Ids) /\ Len(listing') \in 0..MaxCircuits
      /\ closed' \in BOOLEAN /\ timeouts' \in 0..MaxTimeouts /\ wire' \in Seq(Lines)
  BY DEF Typed
<1>2. UNCHANGED <<found, address, country>>
  <2>1. CASE pc \in {"addr", "country"}
    BY <2>1 DEF CommandFails
  <2>2. CASE pc \notin {"addr", "country"}
    BY <2>2 DEF CommandFails
  <2> QED
    BY <2>1, <2>2
<1>3. /\ found' \in Seq(1..Len(listing'))
      /\ address' \in Seq(0..MaxCircuits) /\ Len(address') = Len(found')
      /\ country' \in Seq(0..Bandwidth) /\ Len(country') = Len(found')
  BY <1>2 DEF Typed
<1>4. CASE pc \in {"addr", "country"}
  <2>1. NextHop(hop + 1)
    BY <1>4 DEF CommandFails
  <2>2. hop \in 1..Len(found) /\ Len(found) \in Nat
    BY <1>4 DEF Typed
  <2>3. /\ hop' = hop + 1 /\ hop' \in Nat
        /\ pc' = IF hop' <= Len(found) THEN "addr" ELSE "quit"
        /\ in_data_block' \in BOOLEAN /\ out' \in Seq(Lines)
        /\ questions' \in Seq(Questions)
    BY <2>1, <2>2, NextHopTyped
  <2>4. pc' = "addr" => hop' \in 1..Len(found')
    BY <1>2, <2>2, <2>3
  <2> QED
    BY <1>1, <1>2, <1>3, <2>3, <2>4 DEF Typed, Commands
<1>5. CASE pc \notin {"addr", "country"}
  <2>1. /\ Stop(IF pc = "quit" THEN "done" ELSE "failed")
        /\ UNCHANGED <<hop, found, address, country>>
    BY <1>5 DEF CommandFails
  <2>2. /\ pc' \in {"done", "failed"} /\ in_data_block' = FALSE /\ out' = <<>>
        /\ questions' = questions
    BY <2>1 DEF Stop
  <2>3. questions \in Seq(Questions) /\ hop \in Nat /\ out' \in Seq(Lines)
    BY <2>2 DEF Typed
  <2> QED
    BY <1>1, <1>2, <1>3, <2>1, <2>2, <2>3 DEF Typed
<1> QED
  BY <1>4, <1>5

\* With nothing left of the last reply, the next question is the only one.
LEMMA UseAsksAnew ==
  ASSUME Typed, pc \in Commands, NEW lines \in Seq(Lines), Use(lines),
         questions = <<>>, wire' = <<>>, UNCHANGED <<listing, closed>>,
         pc = "list" => Parse(lines) \in Seq(1..Len(listing)),
         pc' \in Commands
  PROVE  Unanswered'
<1>1. Nobody \in 0..MaxCircuits /\ closed \in BOOLEAN
  BY BoundsAssumption DEF Nobody, Typed
<1>2. SUFFICES /\ out' = <<>> /\ in_data_block' = FALSE
               /\ questions' = IF closed THEN <<>> ELSE <<Question'>>
  BY DEF Unanswered
<1>3. /\ pc' = "addr" => Question' = [ask |-> "addr", of |-> found'[hop']]
      /\ pc' = "country" => Question' = [ask |-> "country", of |-> address'[hop']]
      /\ pc' \notin {"addr", "country"} => Question' = [ask |-> pc', of |-> Nobody]
  <2>1. CASE pc' = "addr"
    BY <2>1 DEF Question
  <2>2. CASE pc' = "country"
    BY <2>2 DEF Question
  <2>3. CASE pc' \notin {"addr", "country"}
    BY <2>3 DEF Question
  <2> QED
    BY <2>1, <2>2, <2>3
<1>4. \A how \in {"failed", "done"} : ~Stop(how)
  BY DEF Stop, Commands
<1>5. CASE pc = "auth"
  <2>1. Ask("list", Nobody)
    BY <1>4, <1>5, UseByCommand
  <2>2. /\ pc' = "list" /\ in_data_block' = FALSE /\ out' = <<>>
        /\ questions' = IF closed THEN <<>> ELSE <<[ask |-> "list", of |-> Nobody]>>
    BY <1>1, <2>1, AskTyped DEF Commands
  <2> QED
    BY <1>3, <2>2
<1>6. CASE pc = "list"
  <2>1. /\ found' \in Seq(1..Len(listing)) /\ hop' = 1
        /\ IF found' = <<>> THEN Ask("quit", Nobody) ELSE Ask("addr", found'[1])
    BY <1>6, UseByCommand
  <2>2. CASE found' = <<>>
    <3>1. /\ pc' = "quit" /\ in_data_block' = FALSE /\ out' = <<>>
          /\ questions' = IF closed THEN <<>> ELSE <<[ask |-> "quit", of |-> Nobody]>>
      BY <1>1, <2>1, <2>2, AskTyped DEF Commands
    <3> QED
      BY <1>3, <3>1
  <2>3. CASE found' # <<>>
    <3>1. found'[1] \in 0..MaxCircuits
      <4>1. 1 \in 1..Len(found')
        BY <2>1, <2>3
      <4>2. found'[1] \in 1..Len(listing)
        BY <2>1, <4>1, ElementOfSeq
      <4> QED
        BY <4>2, BoundsAssumption DEF Typed
    <3>2. /\ pc' = "addr" /\ in_data_block' = FALSE /\ out' = <<>>
          /\ questions' = IF closed THEN <<>> ELSE <<[ask |-> "addr", of |-> found'[1]]>>
      BY <2>1, <2>3, <3>1, AskTyped DEF Commands
    <3>3. Question' = [ask |-> "addr", of |-> found'[1]]
      BY <1>3, <2>1, <3>2
    <3> QED
      BY <3>2, <3>3
  <2> QED
    BY <2>2, <2>3
<1>7. ASSUME pc \in {"addr", "country"}, NextHop(hop + 1), UNCHANGED found
      PROVE  /\ out' = <<>> /\ in_data_block' = FALSE
             /\ questions' = IF closed THEN <<>> ELSE <<Question'>>
  <2>1. hop \in 1..Len(found)
    BY <1>7 DEF Typed
  <2>2. /\ pc' = IF hop' <= Len(found) THEN "addr" ELSE "quit"
        /\ in_data_block' = FALSE /\ out' = <<>>
        /\ questions' = IF closed THEN <<>>
             ELSE <<[ask |-> pc', of |-> IF pc' = "addr" THEN found[hop'] ELSE Nobody]>>
    BY <1>7, <2>1, NextHopTyped
  <2>3. Question' = [ask |-> pc', of |-> IF pc' = "addr" THEN found[hop'] ELSE Nobody]
    <3>1. CASE pc' = "addr"
      BY <1>3, <1>7, <3>1
    <3>2. CASE pc' = "quit"
      BY <1>3, <3>2
    <3> QED
      BY <2>2, <3>1, <3>2
  <2> QED
    BY <2>2, <2>3
<1>8. CASE pc = "addr"
  <2> DEFINE a == FirstOf(lines, AddressKinds)
  <2>1. /\ address' = [address EXCEPT ![hop] = a]
        /\ NextHop(hop + 1) \/ (Ask("country", a) /\ UNCHANGED hop)
        /\ UNCHANGED <<found, country>>
    BY <1>8, UseByCommand
  <2>2. a \in 0..MaxCircuits
    BY AddressIsARelay
  <2> HIDE DEF a
  <2>3. CASE Ask("country", a) /\ UNCHANGED hop
    <3>1. /\ pc' = "country" /\ in_data_block' = FALSE /\ out' = <<>>
          /\ questions' = IF closed THEN <<>> ELSE <<[ask |-> "country", of |-> a]>>
      BY <2>2, <2>3, AskTyped DEF Commands
    <3>2. address'[hop'] = a
      <4>1. hop \in 1..Len(address) /\ address \in Seq(0..MaxCircuits)
        BY <1>8 DEF Typed
      <4> QED
        BY <2>1, <2>3, <4>1
    <3> QED
      BY <1>3, <3>1, <3>2
  <2> QED
    BY <1>7, <1>8, <2>1, <2>3
<1>9. CASE pc = "country"
  BY <1>7, <1>9, UseByCommand
<1>10. CASE pc = "quit"
  BY <1>4, <1>10, UseByCommand
<1> QED
  BY <1>5, <1>6, <1>8, <1>9, <1>10 DEF Commands

\* In step, a line that is read is of the reply to the question.
LEMMA AnswerInHand ==
  ASSUME Typed, InStep, ReadLine, timeouts = 0 \/ pc \in {"auth", "list"}
  PROVE  /\ questions = <<>>
         /\ \E reply \in Replies(Question) :
              /\ Framed(reply)
              /\ \/ /\ \E k \in 0..Len(reply) - 2 : Read(reply, k + 1)'
                    /\ UNCHANGED <<questions, pc, hop, found, address, country>>
                 \/ /\ wire' = <<>> /\ Whole(reply, Append(out, Head(wire)))
                    /\ Use(Append(out, Head(wire)))
<1>1. pc \in Commands /\ wire # <<>>
  BY DEF ReadLine
<1>2. BeingRead
  BY <1>1 DEF InStep, Unanswered
<1>3. PICK reply \in Replies(Question) : \E k \in 0..Len(reply) - 1 : Read(reply, k)
  BY <1>2 DEF BeingRead
<1>4. PICK k \in 0..Len(reply) - 1 : Read(reply, k)
  BY <1>3
<1>5. Framed(reply)
  BY <1>1, QuestionTyped, RepliesAreFramed
<1>6. \/ /\ k < Len(reply) - 1 /\ Read(reply, k + 1)'
         /\ UNCHANGED <<questions, pc, hop, found, address, country>>
      \/ /\ wire' = <<>> /\ Whole(reply, Append(out, Head(wire)))
         /\ Use(Append(out, Head(wire)))
  BY <1>4, <1>5, ReadOn
<1>7. Len(reply) \in Nat /\ questions = <<>>
  BY <1>2, <1>5 DEF BeingRead, Framed
<1>8. k < Len(reply) - 1 => k \in 0..Len(reply) - 2
  BY <1>7
<1> QED
  BY <1>5, <1>6, <1>7, <1>8

\* The listing that has been read is the listing.
LEMMA ListingInHand ==
  ASSUME Typed, InStep, ReadLine, pc = "list", Use(Append(out, Head(wire)))
  PROVE  LET circuits == Parse(Append(out, Head(wire)))
         IN  /\ circuits \in Seq(1..Len(listing))
             /\ {circuits[i] : i \in 1..Len(circuits)} = Kept
             /\ \A i, j \in 1..Len(circuits) : i < j => circuits[i] < circuits[j]
<1>1. pc' # "list"
  BY DEF Use, Ask
<1>2. PICK reply \in Replies(Question) : Whole(reply, Append(out, Head(wire)))
  BY <1>1, AnswerInHand
<1> QED
  BY <1>2, ListingIsParsed

-----------------------------------------------------------------------------
(* The invariant.                                                          *)

\* At the start, the first question is on its way.
LEMMA InitEstablishesIInv == Init => IInv
<1> SUFFICES ASSUME Init PROVE IInv
  OBVIOUS
<1>1. listing \in Seq(Ids) /\ Len(listing) \in 0..MaxCircuits
  <2>1. listing \in UNION {[1..n -> Ids] : n \in 0..MaxCircuits}
    BY DEF Init, SeqOf
  <2>2. PICK n \in 0..MaxCircuits : listing \in [1..n -> Ids]
    BY <2>1
  <2>3. n \in Nat
    BY BoundsAssumption
  <2> HIDE DEF Ids
  <2>4. listing \in Seq(Ids) /\ Len(listing) = n
    BY <2>2, <2>3
  <2> QED
    BY <2>4
<1>2. Nobody \in 0..MaxCircuits /\ 0 \in 0..MaxTimeouts
  BY BoundsAssumption DEF Nobody
<1>3. [ask |-> "auth", of |-> Nobody] \in Questions
  BY <1>2 DEF Questions, Commands
<1>4. Typed
  <2> DEFINE q == [ask |-> "auth", of |-> Nobody]
  <2>1. questions = <<q>> /\ q \in Questions
    BY <1>3 DEF Init
  <2> HIDE DEF q
  <2>2. questions \in Seq(Questions)
    BY <2>1
  <2>3. \A S : <<>> \in Seq(S)
    OBVIOUS
  <2>4. /\ wire \in Seq(Lines) /\ out \in Seq(Lines) /\ found \in Seq(1..Len(listing))
        /\ address \in Seq(0..MaxCircuits) /\ country \in Seq(0..Bandwidth)
    BY <2>3, Zenon DEF Init
  <2>5. Len(address) = Len(found) /\ Len(country) = Len(found)
    BY DEF Init
  <2>6. /\ pc = "auth" /\ hop \in Nat /\ closed = FALSE /\ in_data_block = FALSE
        /\ timeouts = 0
    BY DEF Init
  <2> QED
    BY <1>1, <1>2, <2>2, <2>4, <2>5, <2>6 DEF Typed, Commands
<1>5. Question = [ask |-> "auth", of |-> Nobody]
  BY DEF Init, Question
<1>6. InStep
  BY <1>5 DEF Init, InStep, Unanswered
<1> QED
  BY <1>4, <1>6 DEF Init, IInv, Unfilled, NothingAhead, HopsAreTheirOwn, LateIsEarlier,
                     ListingIsWhole

\* A connection that ends leaves the first of the lines.
LEMMA WireIsCut ==
  ASSUME wire \in Seq(Lines), TorCloses
  PROVE  /\ wire' \in Seq(Lines) /\ Len(wire') <= Len(wire)
         /\ \A i \in 1..Len(wire') : i \in 1..Len(wire) /\ wire'[i] = wire[i]
<1>1. PICK n \in 0..Len(wire) : wire' = SubSeq(wire, 1, n)
  BY DEF TorCloses
<1> QED
  BY <1>1, SubSeqProperties

\* Every step leaves the variables of their types.
LEMMA TypedStep == IInv /\ [Next]_vars => Typed'
<1> SUFFICES ASSUME IInv, [Next]_vars PROVE Typed'
  OBVIOUS
<1>0. Typed /\ InStep
  BY DEF IInv
<1>1. CASE TorAnswers
  <2>1. UNCHANGED <<listing, closed, timeouts, pc, hop, in_data_block, out, found, address, country>>
    BY <1>1 DEF TorAnswers, client
  <2>2. questions # <<>> /\ questions \in Seq(Questions) /\ questions' = Tail(questions)
    BY <1>0, <1>1 DEF TorAnswers, Typed
  <2>3. Head(questions) \in Questions /\ questions' \in Seq(Questions)
    BY <2>2
  <2>4. wire' \in Seq(Lines)
    <3>1. PICK reply \in Replies(Head(questions)) : wire' = wire \o reply
      BY <1>1 DEF TorAnswers
    <3>2. reply \in Seq(Lines)
      BY <1>0, <2>3, RepliesAreFramed DEF Framed
    <3> QED
      BY <1>0, <3>1, <3>2, ConcatProperties DEF Typed
  <2> QED
    BY <1>0, <2>1, <2>3, <2>4 DEF Typed
<1>2. CASE TorCloses
  <2>1. questions' \in Seq(Questions) /\ closed' \in BOOLEAN
        /\ UNCHANGED <<listing, timeouts, pc, hop, in_data_block, out, found, address, country>>
    BY <1>2 DEF TorCloses, client
  <2>2. wire' \in Seq(Lines)
    BY <1>0, <1>2, WireIsCut DEF Typed
  <2> QED
    BY <1>0, <2>1, <2>2 DEF Typed
<1>3. CASE ReadLine
  <2>1. UNCHANGED <<listing, closed, timeouts>> /\ pc \in Commands
    BY <1>3 DEF ReadLine
  <2>2. wire' \in Seq(Lines) /\ Append(out, Head(wire)) \in Seq(Lines)
    BY <1>0, <1>3, ReadLineKeepsOrUses
  <2>3. CASE /\ in_data_block' \in BOOLEAN /\ out' \in Seq(Lines)
             /\ UNCHANGED <<questions, pc, hop, found, address, country>>
    BY <1>0, <2>1, <2>2, <2>3 DEF Typed
  <2>4. CASE Use(Append(out, Head(wire)))
    <3>1. pc = "list" => Parse(Append(out, Head(wire))) \in Seq(1..Len(listing))
      BY <1>0, <1>3, <2>4, ListingInHand
    <3> QED
      BY <1>0, <2>1, <2>2, <2>4, <3>1, UseTyped
  <2> QED
    BY <1>0, <1>3, <2>3, <2>4, ReadLineKeepsOrUses
<1>4. CASE Timeout
  <2>1. timeouts' \in 0..MaxTimeouts
    BY <1>0, <1>4, BoundsAssumption DEF Timeout, Typed
  <2> QED
    BY <1>0, <1>4, <2>1, CommandFailsTyped DEF Timeout
<1>5. CASE Eof
  <2>1. timeouts' \in 0..MaxTimeouts
    BY <1>0, <1>5 DEF Eof, Typed
  <2> QED
    BY <1>0, <1>5, <2>1, CommandFailsTyped DEF Eof
<1>6. CASE UNCHANGED vars
  BY <1>0, <1>6 DEF vars, client, Typed
<1> QED
  BY <1>1, <1>2, <1>3, <1>4, <1>5, <1>6 DEF Next, Client

\* Client and tor stay in step for as long as no read times out.
LEMMA InStepStep == IInv /\ [Next]_vars => InStep'
<1> SUFFICES ASSUME IInv, [Next]_vars, (timeouts' = 0 /\ pc' \in Commands) \/ pc' \in {"auth", "list"}
             PROVE  (Unanswered \/ BeingRead)'
  BY DEF InStep
<1>0. Typed /\ InStep /\ Len(found) \in Nat
  BY DEF IInv, Typed
<1>1. CASE TorAnswers
  <2>1. UNCHANGED <<listing, closed, timeouts, pc, hop, in_data_block, out, found, address, country>>
    BY <1>1 DEF TorAnswers, client
  <2>2. Unanswered /\ ~closed /\ pc \in Commands
    BY <1>0, <1>1, <2>1 DEF InStep, BeingRead, TorAnswers, Commands
  <2>3. questions = <<Question>> /\ wire = <<>> /\ out = <<>> /\ ~in_data_block
    BY <2>2 DEF Unanswered
  <2>4. Head(questions) = Question /\ questions' = <<>>
    <3> DEFINE q == Question
    <3> HIDE DEF q
    <3>1. questions = <<q>> /\ questions' = Tail(questions)
      BY <1>1, <2>3 DEF TorAnswers, q
    <3>2. Head(questions) = q /\ questions' = <<>>
      BY <3>1
    <3> QED
      BY <3>2 DEF q
  <2>5. PICK reply \in Replies(Question) : wire' = wire \o reply
    BY <1>1, <2>4 DEF TorAnswers
  <2>6. Framed(reply)
    BY <1>0, <2>2, QuestionTyped, RepliesAreFramed
  <2>7. reply \in Seq(Lines) /\ Len(reply) > 0 /\ Len(reply) \in Nat
    BY <2>6 DEF Framed
  <2>8. wire' = reply
    BY <2>3, <2>5, <2>7, ConcatEmptySeq
  <2>9. Read(reply, 0)'
    <3>1. /\ Len(wire') = Len(reply) - 0 /\ \A i \in 1..Len(wire') : wire'[i] = reply[0 + i]
          /\ Len(out') = 0 /\ ~in_data_block'
      BY <2>1, <2>3, <2>7, <2>8
    <3>2. 0 \notin 1..Len(reply) - 2
      BY <2>7
    <3>3. \A i \in 1..Len(out') : FALSE
      BY <3>1
    <3> QED
      BY <3>1, <3>2, <3>3 DEF Read
  <2>10. reply \in Replies(Question)' /\ 0 \in 0..Len(reply) - 1
    <3>1. Question' = Question
      BY <2>1 DEF Question
    <3>2. Replies(Question)' = Replies(Question)
      BY <2>1, <3>1 DEF Replies
    <3> QED
      BY <2>7, <3>2
  <2>11. BeingRead'
    BY <2>4, <2>9, <2>10 DEF BeingRead
  <2> QED
    BY <2>11
<1>2. CASE TorCloses
  <2>1. /\ questions' = <<>> /\ closed' = TRUE
        /\ UNCHANGED <<listing, timeouts, pc, hop, in_data_block, out, found, address, country>>
    BY <1>2 DEF TorCloses, client
  <2>4. /\ wire' \in Seq(Lines) /\ Len(wire') <= Len(wire)
        /\ \A i \in 1..Len(wire') : i \in 1..Len(wire) /\ wire'[i] = wire[i]
    BY <1>0, <1>2, WireIsCut DEF Typed
  <2>2. CASE Unanswered
    BY <2>1, <2>2, <2>4 DEF Unanswered
  <2>3. CASE BeingRead
    <3>1. Question' = Question
      BY <2>1 DEF Question
    <3>2. Replies(Question)' = Replies(Question)
      BY <2>1, <3>1 DEF Replies
    <3>3. ASSUME NEW reply \in Replies(Question), NEW k \in 0..Len(reply) - 1, Read(reply, k)
          PROVE  Read(reply, k)'
      <4>1. pc \in Commands
        BY <2>1, Zenon DEF Commands
      <4>2. Len(reply) \in Nat /\ Len(wire) \in Nat
        BY <1>0, <4>1, QuestionTyped, RepliesAreFramed DEF Framed, Typed
      <4>3. /\ Len(wire') <= Len(reply) - k
            /\ \A i \in 1..Len(wire') : wire'[i] = reply[k + i]
        BY <2>4, <3>3, <4>2 DEF Read
      <4> QED
        BY <2>1, <3>3, <4>3 DEF Read
    <3> QED
      BY <2>1, <2>3, <3>2, <3>3 DEF BeingRead
  <2> QED
    BY <1>0, <2>1, <2>2, <2>3 DEF InStep
<1>3. CASE ReadLine
  <2>1. UNCHANGED <<listing, closed, timeouts>> /\ pc \in Commands
    BY <1>3 DEF ReadLine
  <2>2. timeouts = 0 \/ pc \in {"auth", "list"}
    <3>1. pc' = pc \/ Use(Append(out, Head(wire)))
      BY <1>0, <1>3, ReadLineKeepsOrUses
    <3>2. Use(Append(out, Head(wire))) /\ pc' \in {"auth", "list"} => pc \in {"auth", "list"}
      <4>1. CASE pc \in {"addr", "country", "quit"}
        <5>1. Use(Append(out, Head(wire))) => pc' \notin {"auth", "list"}
          BY <4>1 DEF Use, NextHop, Ask, Stop
        <5> QED
          BY <5>1
      <4> QED
        BY <2>1, <4>1 DEF Commands
    <3> QED
      BY <2>1, <3>1, <3>2
  <2>3. questions = <<>>
    BY <1>0, <1>3, <2>2, AnswerInHand
  <2>4. PICK reply \in Replies(Question) :
          /\ Framed(reply)
          /\ \/ /\ \E k \in 0..Len(reply) - 2 : Read(reply, k + 1)'
                /\ UNCHANGED <<questions, pc, hop, found, address, country>>
             \/ /\ wire' = <<>> /\ Whole(reply, Append(out, Head(wire)))
                /\ Use(Append(out, Head(wire)))
    BY <1>0, <1>3, <2>2, AnswerInHand
  <2>5. CASE /\ \E k \in 0..Len(reply) - 2 : Read(reply, k + 1)'
             /\ UNCHANGED <<questions, pc, hop, found, address, country>>
    <3>1. PICK k \in 0..Len(reply) - 2 : Read(reply, k + 1)'
      BY <2>5
    <3>2. Len(reply) \in Nat
      BY <2>4 DEF Framed
    <3>3. k + 1 \in 0..Len(reply) - 1
      BY <3>2
    <3>4. Question' = Question
      BY <2>5 DEF Question
    <3>5. Replies(Question)' = Replies(Question)
      BY <2>1, <3>4 DEF Replies
    <3>6. BeingRead'
      BY <2>3, <2>5, <3>1, <3>3, <3>5 DEF BeingRead
    <3> QED
      BY <3>6
  <2>6. CASE /\ wire' = <<>> /\ Whole(reply, Append(out, Head(wire)))
             /\ Use(Append(out, Head(wire)))
    <3>1. pc = "list" => Parse(Append(out, Head(wire))) \in Seq(1..Len(listing))
      BY <1>0, <1>3, <2>6, ListingInHand
    <3>2. Append(out, Head(wire)) \in Seq(Lines)
      BY <2>6 DEF Whole
    <3>3. Unanswered'
      BY <1>0, <2>1, <2>3, <2>6, <3>1, <3>2, UseAsksAnew DEF Commands
    <3> QED
      BY <3>3
  <2> QED
    BY <2>4, <2>5, <2>6
<1>4. ASSUME Timeout \/ Eof
      PROVE  /\ pc' \notin {"auth", "list"}
             /\ pc' \in Commands => pc \in {"addr", "country"} /\ NextHop(hop + 1)
  <2>1. CommandFails /\ pc \in Commands
    BY <1>4 DEF Timeout, Eof
  <2>2. CASE pc \in {"addr", "country"}
    BY <2>1, <2>2 DEF CommandFails, NextHop, Ask
  <2>3. CASE pc \notin {"addr", "country"}
    BY <2>1, <2>3 DEF CommandFails, Stop, Commands
  <2> QED
    BY <2>2, <2>3
<1>5. CASE Timeout
  <2>1. timeouts' # 0
    BY <1>0, <1>5, BoundsAssumption DEF Timeout, Typed
  <2> QED
    BY <1>4, <1>5, <2>1
<1>6. CASE Eof
  <2>1. /\ pc \in {"addr", "country"} /\ NextHop(hop + 1) /\ closed /\ wire = <<>>
        /\ UNCHANGED <<listing, wire, closed, timeouts>> /\ timeouts = 0
    BY <1>4, <1>6 DEF Eof
  <2>2. Unanswered \/ BeingRead
    BY <1>0, <2>1 DEF InStep, Commands
  <2>3. questions = <<>> /\ hop \in 1..Len(found)
    BY <1>0, <2>1, <2>2 DEF Unanswered, BeingRead, Typed
  <2>4. questions' = <<>> /\ out' = <<>> /\ in_data_block' = FALSE
    BY <1>0, <2>1, <2>3, NextHopTyped
  <2>5. Unanswered'
    BY <2>1, <2>4 DEF Unanswered
  <2> QED
    BY <2>5
<1>7. CASE UNCHANGED vars
  <2>1. UNCHANGED <<listing, questions, wire, closed, timeouts, pc, hop, in_data_block, out, found, address, country>>
    BY <1>7 DEF vars, client
  <2>2. Question' = Question
    BY <2>1 DEF Question
  <2>3. Replies(Question)' = Replies(Question)
    BY <2>1, <2>2 DEF Replies
  <2>4. ASSUME NEW reply, NEW k, Read(reply, k)
        PROVE  Read(reply, k)'
    BY <2>1, <2>4 DEF Read
  <2>5. Unanswered => Unanswered'
    BY <2>1, <2>2 DEF Unanswered
  <2>6. BeingRead => BeingRead'
    BY <2>1, <2>3, <2>4 DEF BeingRead
  <2> QED
    BY <1>0, <2>1, <2>5, <2>6 DEF InStep
<1> QED
  BY <1>1, <1>2, <1>3, <1>5, <1>6, <1>7 DEF Next, Client

\* What a step may do to the hops: nothing, fill in the next address or country,
\* or, with the listing, begin them.
LEMMA HopsStep ==
  ASSUME IInv, [Next]_vars
  PROVE  \/ /\ UNCHANGED <<listing, found, address, country>>
            /\ timeouts' = 0 => timeouts = 0
            /\ pc' \in {"addr", "country"} =>
                 /\ pc \in {"addr", "country"}
                 /\ hop' \in {hop, hop + 1}
            /\ pc = "list" => pc' \in {"list", "failed"}
            /\ pc' = "quit" => pc \in {"addr", "country", "quit"}
         \/ /\ pc = "list" /\ ReadLine /\ Use(Append(out, Head(wire)))
         \/ /\ pc \in {"addr", "country"} /\ ReadLine /\ Use(Append(out, Head(wire)))
<1>0. Typed
  BY DEF IInv
<1>1. CASE UNCHANGED <<listing, found, address, country, pc, hop>> /\ timeouts' = timeouts
  BY <1>0, <1>1 DEF Typed
<1>2. CASE TorAnswers \/ TorCloses \/ UNCHANGED vars
  BY <1>1, <1>2 DEF TorAnswers, TorCloses, vars, client
<1>3. CASE ReadLine
  <2>1. UNCHANGED <<listing, closed, timeouts>> /\ pc \in Commands
    BY <1>3 DEF ReadLine
  <2>2. CASE UNCHANGED <<questions, pc, hop, found, address, country>>
    BY <1>1, <2>1, <2>2
  <2>3. CASE Use(Append(out, Head(wire))) /\ pc \in {"auth", "quit"}
    <3>1. /\ UNCHANGED <<hop, found, address, country>>
          /\ pc' \in {"list", "done", "failed"}
      BY <2>3 DEF Use, Stop, Ask
    <3> QED
      BY <2>1, <2>3, <3>1
  <2> QED
    BY <1>0, <1>3, <2>1, <2>2, <2>3, ReadLineKeepsOrUses DEF Commands
<1>4. CASE Timeout \/ Eof
  <2>1. CommandFails /\ pc \in Commands /\ UNCHANGED <<listing, wire, closed>>
    BY <1>4 DEF Timeout, Eof
  <2>2. timeouts' \in 0..MaxTimeouts /\ (timeouts' = 0 => timeouts = 0)
    BY <1>0, <1>4, BoundsAssumption DEF Timeout, Eof, Typed
  <2>3. UNCHANGED <<found, address, country>>
    BY <1>0, <2>1, <2>2, CommandFailsTyped
  <2>4. CASE pc \in {"addr", "country"}
    <3>1. hop' = hop + 1 /\ pc' \in {"addr", "quit"}
      BY <2>1, <2>4 DEF CommandFails, NextHop, Ask
    <3> QED
      BY <2>1, <2>2, <2>3, <2>4, <3>1
  <2>5. CASE pc \notin {"addr", "country"}
    <3>1. pc' = IF pc = "quit" THEN "done" ELSE "failed"
      BY <2>1, <2>5 DEF CommandFails, Stop
    <3> QED
      BY <2>1, <2>2, <2>3, <2>5, <3>1
  <2> QED
    BY <2>4, <2>5
<1> QED
  BY <1>2, <1>3, <1>4 DEF Next, Client

\* The address of one hop, or its country, is set, and no other.
LEMMA HopsAreFilledInTurn ==
  ASSUME IInv, ReadLine, pc \in {"addr", "country"}, NEW lines \in Seq(Lines), Use(lines)
  PROVE  /\ hop \in 1..Len(found) /\ UNCHANGED <<listing, found, timeouts>>
         /\ pc = "addr" =>
              /\ UNCHANGED country /\ hop' \in {hop, hop + 1}
              /\ \A i \in 1..Len(found) :
                   address'[i] = IF i = hop THEN FirstOf(lines, AddressKinds) ELSE address[i]
         /\ pc = "country" =>
              /\ UNCHANGED address /\ hop' = hop + 1
              /\ \A i \in 1..Len(found) :
                   country'[i] = IF i = hop THEN FirstOf(lines, EqualsKinds) ELSE country[i]
         /\ pc' \in {"addr", "country", "quit"}
<1>0. Typed
  BY DEF IInv
<1>1. /\ hop \in 1..Len(found) /\ UNCHANGED <<listing, timeouts>>
      /\ Len(address) = Len(found) /\ Len(country) = Len(found)
      /\ address \in Seq(0..MaxCircuits) /\ country \in Seq(0..Bandwidth) /\ Len(found) \in Nat
  BY <1>0 DEF Typed, ReadLine
<1>2. CASE pc = "addr"
  <2> DEFINE a == FirstOf(lines, AddressKinds)
  <2>1. /\ address' = [address EXCEPT ![hop] = a]
        /\ NextHop(hop + 1) \/ (Ask("country", a) /\ UNCHANGED hop)
        /\ UNCHANGED <<found, country>>
    BY <1>0, <1>2, UseByCommand DEF Commands
  <2> HIDE DEF a
  <2>2. \A i \in 1..Len(found) : address'[i] = IF i = hop THEN a ELSE address[i]
    BY <1>1, <2>1
  <2>3. hop' \in {hop, hop + 1} /\ pc' \in {"addr", "country", "quit"}
    BY <2>1 DEF NextHop, Ask
  <2> QED
    BY <1>1, <1>2, <2>1, <2>2, <2>3 DEF a
<1>3. CASE pc = "country"
  <2> DEFINE c == FirstOf(lines, EqualsKinds)
  <2>1. /\ country' = [country EXCEPT ![hop] = c]
        /\ NextHop(hop + 1) /\ UNCHANGED <<found, address>>
    BY <1>0, <1>3, UseByCommand DEF Commands
  <2> HIDE DEF c
  <2>2. \A i \in 1..Len(found) : country'[i] = IF i = hop THEN c ELSE country[i]
    BY <1>1, <2>1
  <2>3. hop' = hop + 1 /\ pc' \in {"addr", "country", "quit"}
    BY <2>1 DEF NextHop, Ask
  <2> QED
    BY <1>1, <1>3, <2>1, <2>2, <2>3 DEF c
<1> QED
  BY <1>2, <1>3

\* The listing begins the hops, with nothing filled in.
LEMMA HopsAreBegun ==
  ASSUME IInv, ReadLine, pc = "list", Use(Append(out, Head(wire)))
  PROVE  /\ UNCHANGED <<listing, timeouts>>
         /\ found' = Parse(Append(out, Head(wire))) /\ Len(found') \in Nat
         /\ \A i \in 1..Len(found') : address'[i] = Nobody /\ country'[i] = Nobody
         /\ hop' = 1 /\ pc' \in {"addr", "quit"}
<1>1. Append(out, Head(wire)) \in Seq(Lines)
  BY ReadLineKeepsOrUses DEF IInv
<1>2. /\ found' = Parse(Append(out, Head(wire)))
      /\ address' = [c \in 1..Len(found') |-> Nobody] /\ country' = address'
      /\ hop' = 1
      /\ IF found' = <<>> THEN Ask("quit", Nobody) ELSE Ask("addr", found'[1])
  BY <1>1, UseByCommand DEF IInv, Commands
<1>3. found' \in Seq(1..Len(listing))
  BY <1>2, ListingInHand DEF IInv
<1>4. pc' \in {"addr", "quit"}
  BY <1>2 DEF Ask
<1> QED
  BY <1>2, <1>3, <1>4 DEF ReadLine

LEMMA UnfilledStep == IInv /\ [Next]_vars => Unfilled'
<1> SUFFICES ASSUME IInv, [Next]_vars, pc' \in {"addr", "country"},
                    NEW i \in hop'..Len(found')
             PROVE  country'[i] = Nobody
  BY DEF Unfilled
<1>1. /\ hop \in Nat /\ Len(found) \in Nat /\ Unfilled
      /\ pc \in {"addr", "country"} => hop \in 1..Len(found)
  BY DEF IInv, Typed
<1>2. CASE /\ UNCHANGED <<found, country>> /\ pc \in {"addr", "country"}
           /\ hop' \in {hop, hop + 1}
  <2>1. i \in hop..Len(found)
    BY <1>1, <1>2
  <2> QED
    BY <1>1, <1>2, <2>1 DEF Unfilled
<1>3. CASE pc = "list" /\ ReadLine /\ Use(Append(out, Head(wire)))
  <2>1. i \in 1..Len(found')
    BY <1>3, HopsAreBegun
  <2> QED
    BY <1>3, <2>1, HopsAreBegun
<1>4. CASE pc \in {"addr", "country"} /\ ReadLine /\ Use(Append(out, Head(wire)))
  <2>1. Append(out, Head(wire)) \in Seq(Lines)
    BY <1>4, ReadLineKeepsOrUses DEF IInv
  <2>2. CASE pc = "addr"
    BY <1>2, <1>4, <2>1, <2>2, HopsAreFilledInTurn
  <2>3. CASE pc = "country"
    <3>1. /\ hop' = hop + 1 /\ UNCHANGED found
          /\ \A j \in 1..Len(found) : j # hop => country'[j] = country[j]
      BY <1>4, <2>1, <2>3, HopsAreFilledInTurn
    <3>2. i \in hop..Len(found) /\ i \in 1..Len(found) /\ i # hop
      BY <1>1, <1>4, <3>1
    <3> QED
      BY <1>1, <1>4, <3>1, <3>2 DEF Unfilled
  <2> QED
    BY <1>4, <2>2, <2>3
<1> QED
  BY <1>2, <1>3, <1>4, HopsStep

LEMMA HopsAreTheirOwnStep == IInv /\ [Next]_vars => HopsAreTheirOwn'
<1> SUFFICES ASSUME IInv, [Next]_vars, timeouts' = 0, NEW i \in 1..Len(found')
             PROVE  /\ address'[i] \in {Nobody, found'[i]}
                    /\ country'[i] \in {Nobody, address'[i]}
  BY DEF HopsAreTheirOwn
<1>1. Typed /\ InStep /\ Unfilled /\ HopsAreTheirOwn
  BY DEF IInv
<1>2. CASE UNCHANGED <<found, address, country>> /\ (timeouts' = 0 => timeouts = 0)
  BY <1>1, <1>2 DEF HopsAreTheirOwn
<1>3. CASE pc = "list" /\ ReadLine /\ Use(Append(out, Head(wire)))
  BY <1>3, HopsAreBegun
<1>4. CASE pc \in {"addr", "country"} /\ ReadLine /\ Use(Append(out, Head(wire)))
  <2> DEFINE lines == Append(out, Head(wire))
  <2>1. lines \in Seq(Lines)
    BY <1>1, <1>4, ReadLineKeepsOrUses
  <2>2. timeouts = 0 /\ UNCHANGED found /\ hop \in 1..Len(found)
    BY <1>4, <2>1, HopsAreFilledInTurn
  <2>3. address[i] \in {Nobody, found[i]} /\ country[i] \in {Nobody, address[i]}
    BY <1>1, <2>2 DEF HopsAreTheirOwn
  <2>4. PICK reply \in Replies(Question) :
          \/ UNCHANGED <<questions, pc, hop, found, address, country>>
          \/ Whole(reply, lines)
    BY <1>1, <1>4, <2>2, AnswerInHand
  <2> HIDE DEF lines
  <2>5. CASE UNCHANGED <<questions, pc, hop, found, address, country>>
    BY <1>2, <2>2, <2>5
  <2>6. CASE Whole(reply, lines) /\ pc = "addr"
    <3>1. FirstOf(lines, AddressKinds) \in {Nobody, found[hop]}
      BY <1>1, <2>6, AddressIsItsOwn
    <3>2. UNCHANGED country /\ address'[i] = IF i = hop THEN FirstOf(lines, AddressKinds) ELSE address[i]
      BY <1>4, <2>1, <2>2, <2>6, HopsAreFilledInTurn DEF lines
    <3>3. i = hop => country[i] = Nobody
      <4>1. hop \in hop..Len(found)
        BY <2>2
      <4> QED
        BY <1>1, <2>6, <4>1 DEF Unfilled
    <3> QED
      BY <2>2, <2>3, <3>1, <3>2, <3>3
  <2>7. CASE Whole(reply, lines) /\ pc = "country"
    <3>1. FirstOf(lines, EqualsKinds) \in {Nobody, address[hop]}
      BY <1>1, <2>7, CountryIsItsOwn
    <3>2. UNCHANGED address /\ country'[i] = IF i = hop THEN FirstOf(lines, EqualsKinds) ELSE country[i]
      BY <1>4, <2>1, <2>2, <2>7, HopsAreFilledInTurn DEF lines
    <3> QED
      BY <2>2, <2>3, <3>1, <3>2
  <2> QED
    BY <1>4, <2>4, <2>5, <2>6, <2>7
<1> QED
  BY <1>2, <1>3, <1>4, HopsStep

\* The relays asked about are more at each hop.
LEMMA EarlierGrows ==
  ASSUME NEW m \in Nat, NEW n \in Nat, m <= n
  PROVE  Earlier(m) \subseteq Earlier(n)
BY DEF Earlier

\* Going on to the next hop brings nothing that is ahead of it.
LEMMA NextHopIsNotAhead ==
  ASSUME Typed, NothingAhead, pc \in {"addr", "country"}, NextHop(hop + 1), UNCHANGED found,
         \A i \in 1..Len(wire') : wire'[i].of \in Earlier(hop) \cup {Bandwidth}
  PROVE  NothingAhead'
<1> SUFFICES ASSUME pc' \in {"addr", "country"} PROVE NothingAhead'
  BY DEF NothingAhead
<1>1. /\ hop' = hop + 1 /\ hop \in Nat /\ Len(found) \in Nat
      /\ \A n : Earlier(n)' = Earlier(n)
  BY DEF NextHop, Typed, Earlier
<1>2. Earlier(hop) \subseteq Earlier(hop + 1)
  BY <1>1, EarlierGrows
<1>3. Ask("addr", found[hop + 1]) /\ hop + 1 <= Len(found)
  <2>1. CASE hop + 1 <= Len(found)
    BY <2>1 DEF NextHop
  <2>2. CASE ~(hop + 1 <= Len(found))
    BY <2>2 DEF NextHop, Ask
  <2> QED
    BY <2>1, <2>2
<1>4. found[hop + 1] \in Earlier(hop + 1)
  BY <1>1 DEF Earlier
<1> HIDE DEF Earlier
<1>5. ASSUME NEW i \in 1..Len(questions')
      PROVE  questions'[i].ask # "list" /\ questions'[i].of \in Earlier(hop + 1)
  <2>1. \A j \in 1..Len(questions) :
          questions[j].ask # "list" /\ questions[j].of \in Earlier(hop + 1)
    BY <1>2 DEF NothingAhead
  <2>2. CASE questions' = questions
    BY <2>1, <2>2
  <2>3. CASE questions' = Append(questions, [ask |-> "addr", of |-> found[hop + 1]])
    BY <1>4, <2>1, <2>3, AskedOneMore
  <2> QED
    BY <1>3, <2>2, <2>3 DEF Ask
<1>6. out' = <<>> /\ \A i \in 1..Len(out') : FALSE
  BY <1>3 DEF Ask
<1> QED
  BY <1>1, <1>2, <1>5, <1>6 DEF NothingAhead

LEMMA NothingAheadStep == IInv /\ [Next]_vars => NothingAhead'
<1> SUFFICES ASSUME IInv, [Next]_vars, pc' \in {"addr", "country"} PROVE NothingAhead'
  BY DEF NothingAhead
<1>0. Typed /\ InStep /\ NothingAhead
  BY DEF IInv
<1>1. CASE TorAnswers
  <2>1. /\ UNCHANGED <<listing, pc, hop, out, found>> /\ questions # <<>>
        /\ questions' = Tail(questions) /\ questions \in Seq(Questions)
        /\ wire \in Seq(Lines)
    BY <1>0, <1>1 DEF TorAnswers, client, Typed
  <2>2. /\ \A i \in 1..Len(questions) :
             questions[i].ask # "list" /\ questions[i].of \in Earlier(hop)
        /\ \A i \in 1..Len(wire) : wire[i].of \in Earlier(hop) \cup {Bandwidth}
        /\ \A i \in 1..Len(out) : out[i].of \in Earlier(hop) \cup {Bandwidth}
    BY <1>0, <2>1 DEF NothingAhead
  <2>3. Earlier(hop)' = Earlier(hop) /\ Nobody \in Earlier(hop)
    BY <2>1 DEF Earlier
  <2>4. /\ Head(questions) = questions[1] /\ 1 \in 1..Len(questions)
        /\ Head(questions) \in Questions
        /\ Len(questions') = Len(questions) - 1
        /\ \A i \in 1..Len(questions') :
             i + 1 \in 1..Len(questions) /\ questions'[i] = questions[i + 1]
    BY <2>1, HeadTailProperties
  <2>5. PICK reply \in Replies(Head(questions)) : wire' = wire \o reply
    BY <1>1 DEF TorAnswers
  <2>6. reply \in Seq(Lines)
    BY <1>0, <2>4, RepliesAreFramed DEF Framed
  <2>7. \A i \in 1..Len(reply) : reply[i].of \in Earlier(hop) \cup {Bandwidth}
    <3>1. Head(questions).ask # "list" /\ Head(questions).of \in Earlier(hop)
      BY <2>2, <2>4
    <3>2. \A i \in 1..Len(reply) : reply[i].of \in {Head(questions).of, Nobody, Bandwidth}
      BY <1>0, <2>4, <3>1, RepliesAreToTheQuestion
    <3> QED
      BY <2>3, <3>1, <3>2
  <2>8. \A i \in 1..Len(wire') : wire'[i].of \in Earlier(hop) \cup {Bandwidth}
    <3> TAKE i \in 1..Len(wire')
    <3>1. /\ Len(wire') = Len(wire) + Len(reply) /\ Len(wire) \in Nat /\ Len(reply) \in Nat
          /\ wire'[i] = IF i <= Len(wire) THEN wire[i] ELSE reply[i - Len(wire)]
      BY <2>1, <2>5, <2>6, ConcatProperties
    <3>2. CASE i <= Len(wire)
      BY <2>2, <3>1, <3>2
    <3>3. CASE ~(i <= Len(wire))
      <4>1. i - Len(wire) \in 1..Len(reply)
        BY <3>1, <3>3
      <4> QED
        BY <2>7, <3>1, <3>3, <4>1
    <3> QED
      BY <3>2, <3>3
  <2>9. \A i \in 1..Len(questions') :
          questions'[i].ask # "list" /\ questions'[i].of \in Earlier(hop)
    BY <2>2, <2>4
  <2> QED
    BY <2>1, <2>2, <2>3, <2>8, <2>9 DEF NothingAhead
<1>2. CASE TorCloses
  <2>1. /\ UNCHANGED <<pc, hop, out, found>> /\ questions' = <<>>
        /\ \A i \in 1..Len(questions') : FALSE
    BY <1>2 DEF TorCloses, client
  <2>2. \A i \in 1..Len(wire') : i \in 1..Len(wire) /\ wire'[i] = wire[i]
    BY <1>0, <1>2, WireIsCut DEF Typed
  <2>3. Earlier(hop)' = Earlier(hop)
    BY <2>1 DEF Earlier
  <2> QED
    BY <1>0, <2>1, <2>2, <2>3 DEF NothingAhead
<1>3. CASE Timeout \/ Eof
  <2>1. CommandFails /\ pc \in Commands /\ UNCHANGED wire
    BY <1>3 DEF Timeout, Eof
  <2>2. CASE pc \in {"addr", "country"}
    <3>1. NextHop(hop + 1) /\ UNCHANGED found
      BY <2>1, <2>2 DEF CommandFails
    <3> QED
      BY <1>0, <2>1, <2>2, <3>1, NextHopIsNotAhead DEF NothingAhead
  <2>3. CASE pc \notin {"addr", "country"}
    BY <2>1, <2>3 DEF CommandFails, Stop
  <2> QED
    BY <2>2, <2>3
<1>4. CASE ReadLine /\ pc \in {"addr", "country"}
  <2> DEFINE more == Append(out, Head(wire))
  <2>1. /\ wire \in Seq(Lines) /\ wire # <<>> /\ wire' = Tail(wire) /\ out \in Seq(Lines)
        /\ UNCHANGED <<listing, closed, timeouts>>
    BY <1>0, <1>4 DEF ReadLine, Typed
  <2>2. /\ \A i \in 1..Len(questions) :
             questions[i].ask # "list" /\ questions[i].of \in Earlier(hop)
        /\ \A i \in 1..Len(wire) : wire[i].of \in Earlier(hop) \cup {Bandwidth}
        /\ \A i \in 1..Len(out) : out[i].of \in Earlier(hop) \cup {Bandwidth}
    BY <1>0, <1>4 DEF NothingAhead
  <2>3. /\ Head(wire) = wire[1] /\ 1 \in 1..Len(wire) /\ Head(wire) \in Lines
        /\ \A i \in 1..Len(wire') : i + 1 \in 1..Len(wire) /\ wire'[i] = wire[i + 1]
    BY <2>1, HeadTailProperties
  <2>4. \A i \in 1..Len(wire') : wire'[i].of \in Earlier(hop) \cup {Bandwidth}
    BY <2>2, <2>3
  <2>5. /\ more \in Seq(Lines)
        /\ \A i \in 1..Len(more) : more[i].of \in Earlier(hop) \cup {Bandwidth}
    BY <2>1, <2>2, <2>3, ReadOneMore
  <2> HIDE DEF more
  <2>6. CASE out' \in {out, more} /\ UNCHANGED <<questions, pc, hop, found>>
    <3>1. Earlier(hop)' = Earlier(hop)
      BY <2>6 DEF Earlier
    <3>2. \A i \in 1..Len(out') : out'[i].of \in Earlier(hop) \cup {Bandwidth}
      BY <2>2, <2>5, <2>6
    <3> QED
      BY <2>2, <2>4, <2>6, <3>1, <3>2 DEF NothingAhead
  <2>7. CASE Use(more)
    <3>1. UNCHANGED found
      BY <1>0, <1>4, <2>5, <2>7, UseByCommand DEF Commands
    <3>2. CASE NextHop(hop + 1)
      BY <1>0, <1>4, <2>4, <3>1, <3>2, NextHopIsNotAhead
    <3>3. CASE pc = "addr" /\ Ask("country", FirstOf(more, AddressKinds)) /\ UNCHANGED hop
      <4> DEFINE a == FirstOf(more, AddressKinds)
      <4>1. a \in Earlier(hop)
        BY <2>5, AddressIsNotAhead
      <4> HIDE DEF a
      <4>2. /\ pc' = "country" /\ out' = <<>> /\ hop' = hop
            /\ \/ questions' = questions
               \/ questions' = Append(questions, [ask |-> "country", of |-> a])
        BY <3>3 DEF Ask, a
      <4>3. \A i \in 1..Len(questions') :
              questions'[i].ask # "list" /\ questions'[i].of \in Earlier(hop)
        <5>1. CASE questions' = questions
          BY <2>2, <5>1
        <5>2. CASE questions' = Append(questions, [ask |-> "country", of |-> a])
          BY <1>0, <2>2, <4>1, <5>2, AskedOneMore
        <5> QED
          BY <4>2, <5>1, <5>2
      <4>4. Earlier(hop)' = Earlier(hop) /\ \A i \in 1..Len(out') : FALSE
        BY <3>1, <4>2 DEF Earlier
      <4> QED
        BY <2>4, <4>2, <4>3, <4>4 DEF NothingAhead
    <3> QED
      BY <1>0, <1>4, <2>5, <2>7, <3>2, <3>3, UseByCommand DEF Commands
  <2> QED
    BY <1>0, <1>4, <2>6, <2>7, ReadLineKeepsOrUses DEF more
<1>5. CASE ReadLine /\ pc \notin {"addr", "country"}
  <2>1. pc \in Commands /\ UNCHANGED <<listing, closed, timeouts>>
    BY <1>5 DEF ReadLine
  <2>2. Use(Append(out, Head(wire))) /\ pc = "list"
    <3>1. Use(Append(out, Head(wire)))
      BY <1>0, <1>5, ReadLineKeepsOrUses
    <3>2. CASE pc \in {"auth", "quit"}
      BY <3>1, <3>2 DEF Use, Stop, Ask
    <3> QED
      BY <1>5, <2>1, <3>1, <3>2 DEF Commands
  <2>3. PICK reply \in Replies(Question) : wire' = <<>> /\ Whole(reply, Append(out, Head(wire)))
    <3>1. pc' # pc
      BY <1>5
    <3> QED
      BY <1>0, <1>5, <2>2, <3>1, AnswerInHand
  <2>4. Parse(Append(out, Head(wire))) \in Seq(1..Len(listing)) /\ questions = <<>>
    BY <1>0, <1>5, <2>2, ListingInHand, AnswerInHand
  <2>5. /\ found' = Parse(Append(out, Head(wire))) /\ hop' = 1
        /\ IF found' = <<>> THEN Ask("quit", Nobody) ELSE Ask("addr", found'[1])
    BY <2>2 DEF Use
  <2>6. Ask("addr", found'[1])
    BY <2>5 DEF Ask
  <2>7. /\ out' = <<>> /\ wire' = <<>>
        /\ questions' = <<>> \/ questions' = <<[ask |-> "addr", of |-> found'[1]]>>
    BY <2>3, <2>4, <2>6 DEF Ask
  <2>8. found'[1] \in Earlier(hop)'
    BY <2>5 DEF Earlier
  <2>9. \A i \in 1..Len(questions') :
          questions'[i].ask # "list" /\ questions'[i].of \in Earlier(hop)'
    BY <2>7, <2>8
  <2>10. (\A i \in 1..Len(out') : FALSE) /\ (\A i \in 1..Len(wire') : FALSE)
    BY <2>7
  <2> QED
    BY <2>9, <2>10 DEF NothingAhead
<1>6. CASE UNCHANGED vars
  <2>1. UNCHANGED <<questions, wire, pc, hop, out, found>>
    BY <1>6 DEF vars, client
  <2>2. Earlier(hop)' = Earlier(hop)
    BY <2>1 DEF Earlier
  <2> QED
    BY <1>0, <2>1, <2>2 DEF NothingAhead
<1> QED
  BY <1>1, <1>2, <1>3, <1>4, <1>5, <1>6 DEF Next, Client

LEMMA LateIsEarlierStep == IInv /\ [Next]_vars => LateIsEarlier'
<1> SUFFICES ASSUME IInv, [Next]_vars, NEW i \in 1..Len(found')
             PROVE  address'[i] \in Earlier(i)' /\ country'[i] \in Earlier(i)' \cup {Bandwidth}
  BY DEF LateIsEarlier
<1>1. Typed /\ NothingAhead /\ LateIsEarlier
  BY DEF IInv
<1>2. CASE UNCHANGED <<found, address, country>>
  <2>1. Earlier(i)' = Earlier(i)
    BY <1>2 DEF Earlier
  <2> QED
    BY <1>1, <1>2, <2>1 DEF LateIsEarlier
<1>3. CASE pc = "list" /\ ReadLine /\ Use(Append(out, Head(wire)))
  <2>1. address'[i] = Nobody /\ country'[i] = Nobody
    BY <1>3, HopsAreBegun
  <2> QED
    BY <2>1 DEF Earlier
<1>4. CASE pc \in {"addr", "country"} /\ ReadLine /\ Use(Append(out, Head(wire)))
  <2> DEFINE lines == Append(out, Head(wire))
  <2>1. /\ wire \in Seq(Lines) /\ wire # <<>> /\ out \in Seq(Lines)
    BY <1>1, <1>4 DEF ReadLine, Typed
  <2>2. Head(wire) = wire[1] /\ 1 \in 1..Len(wire) /\ Head(wire) \in Lines
    BY <2>1, HeadTailProperties
  <2>3. /\ lines \in Seq(Lines)
        /\ \A j \in 1..Len(lines) : lines[j].of \in Earlier(hop) \cup {Bandwidth}
    BY <1>1, <1>4, <2>1, <2>2, ReadOneMore DEF NothingAhead
  <2>4. hop \in 1..Len(found) /\ UNCHANGED found /\ i \in 1..Len(found)
    BY <1>4, <2>3, HopsAreFilledInTurn
  <2>5. /\ address[i] \in Earlier(i) /\ country[i] \in Earlier(i) \cup {Bandwidth}
        /\ Earlier(i)' = Earlier(i)
    BY <1>1, <2>4 DEF LateIsEarlier, Earlier
  <2>6. CASE pc = "addr"
    <3>1. FirstOf(lines, AddressKinds) \in Earlier(hop)
      BY <2>3, AddressIsNotAhead
    <3>2. UNCHANGED country /\ address'[i] = IF i = hop THEN FirstOf(lines, AddressKinds) ELSE address[i]
      BY <1>4, <2>3, <2>4, <2>6, HopsAreFilledInTurn DEF lines
    <3> QED
      BY <2>5, <3>1, <3>2
  <2>7. CASE pc = "country"
    <3>1. FirstOf(lines, EqualsKinds) \in Earlier(hop) \cup {Bandwidth}
      <4>1. Nobody \in Earlier(hop)
        BY DEF Earlier
      <4>2. \/ FirstOf(lines, EqualsKinds) = Nobody
            \/ \E j \in 1..Len(lines) : FirstOf(lines, EqualsKinds) = lines[j].of
        BY <2>3, FirstIsOneOfThem
      <4> HIDE DEF lines
      <4> QED
        BY <2>3, <4>1, <4>2
    <3>2. UNCHANGED address /\ country'[i] = IF i = hop THEN FirstOf(lines, EqualsKinds) ELSE country[i]
      BY <1>4, <2>3, <2>4, <2>7, HopsAreFilledInTurn DEF lines
    <3> QED
      BY <2>5, <3>1, <3>2
  <2> QED
    BY <1>4, <2>6, <2>7
<1> QED
  BY <1>2, <1>3, <1>4, HopsStep

LEMMA ListingIsWholeStep == IInv /\ [Next]_vars => ListingIsWhole'
<1> SUFFICES ASSUME IInv, [Next]_vars, pc' \in {"addr", "country", "quit"}
             PROVE  /\ {found'[i] : i \in 1..Len(found')} = Kept'
                    /\ \A i, j \in 1..Len(found') : i < j => found'[i] < found'[j]
  BY DEF ListingIsWhole
<1>1. Typed /\ InStep /\ ListingIsWhole
  BY DEF IInv
<1>2. CASE UNCHANGED <<listing, found>> /\ pc \in {"addr", "country", "quit"}
  BY <1>1, <1>2 DEF ListingIsWhole, Kept
<1>3. CASE pc = "list" /\ ReadLine /\ Use(Append(out, Head(wire)))
  <2>1. Kept' = Kept
    BY <1>3, HopsAreBegun DEF Kept
  <2> QED
    BY <1>1, <1>3, <2>1, HopsAreBegun, ListingInHand
<1>4. CASE pc \in {"addr", "country"} /\ ReadLine /\ Use(Append(out, Head(wire)))
  <2>1. Append(out, Head(wire)) \in Seq(Lines)
    BY <1>1, <1>4, ReadLineKeepsOrUses
  <2> QED
    BY <1>2, <1>4, <2>1, HopsAreFilledInTurn
<1> QED
  BY <1>2, <1>3, <1>4, HopsStep

-----------------------------------------------------------------------------
(* The theorems.                                                           *)

\* The variables of circuits() and of its connection stay of their types, and
\* client and tor in step until a read times out.
THEOREM Invariance == Spec => []IInv
<1>1. IInv /\ [Next]_vars => IInv'
  BY TypedStep, InStepStep, UnfilledStep, NothingAheadStep, HopsAreTheirOwnStep,
     LateIsEarlierStep, ListingIsWholeStep DEF IInv
<1> QED
  BY InitEstablishesIInv, <1>1, PTL DEF Spec

\* There is an address and a country to fill in for each hop parsed, and every hop
\* is of the listing: no index of the loop over the hops is out of bounds.
THEOREM TypeCorrect == Spec => []TypeOK
<1>1. IInv => TypeOK
  <2> SUFFICES ASSUME IInv PROVE TypeOK
    OBVIOUS
  <2>1. Typed
    BY DEF IInv
  <2>2. \A i \in DOMAIN listing : listing[i] \in Ids
    BY <2>1 DEF Typed
  <2>3. ASSUME NEW i \in 1..Len(found)
        PROVE  /\ found[i] \in 1..Len(listing)
               /\ address[i] \in 0..MaxCircuits /\ country[i] \in 0..Bandwidth
    BY <2>1, ElementOfSeq DEF Typed
  <2> QED
    BY <2>1, <2>2, <2>3 DEF Typed, TypeOK
<1> QED
  BY Invariance, <1>1, PTL

\* Until a read has timed out, the address a hop is given is that of its relay and
\* the country that of its address: no reply is taken for another question's.
THEOREM HopsGetTheirOwn == Spec => []HopsAreTheirOwn
<1>1. IInv => HopsAreTheirOwn
  BY DEF IInv
<1> QED
  BY Invariance, <1>1, PTL

\* However many reads time out and however late the answers are, what a hop is given
\* is its own, that of an earlier relay, or a bandwidth in place of a country.
THEOREM LateAnswersAreEarlier == Spec => []LateIsEarlier
<1>1. IInv => LateIsEarlier
  BY DEF IInv
<1> QED
  BY Invariance, <1>1, PTL

\* Of several circuits the loop over them leaves out those whose id begins with 250,
\* and no other; of one alone, that one.
THEOREM ListingComesWhole == Spec => []ListingIsWhole
<1>1. IInv => ListingIsWhole
  BY DEF IInv
<1> QED
  BY Invariance, <1>1, PTL
===============================================================================
