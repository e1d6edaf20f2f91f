----------------------------- MODULE ControlPort -----------------------------
(***************************************************************************)
(* control::circuits (src/control.rs): one connection to tor's control     *)
(* port, a question at a time, read line by line. What can go wrong is the *)
(* framing: which line ends which reply, and whose reply it is.            *)
(*                                                                         *)
(* tor writes a reply and its lines arrive in their time: a read may time  *)
(* out, or the connection end, before any of them. A line comes whole.     *)
(*                                                                         *)
(* A circuit has one hop here, named after the circuit's place in tor's    *)
(* listing; a relay's address is named after the relay.                    *)
(***************************************************************************)
EXTENDS Naturals, Sequences, SequencesExt

CONSTANTS
  MaxCircuits,  \* bound: circuits tor lists
  MaxTimeouts   \* bound: read timeouts on the connection

ASSUME BoundsAssumption == MaxCircuits \in Nat /\ MaxTimeouts \in Nat

VARIABLES
  listing,   \* the circuits tor has, by what their id looks like
  questions, \* sent, and not yet answered by tor
  wire,      \* lines of the replies tor has begun, which the client has not read
  closed,    \* tor has closed the connection
  timeouts,  \* reads that timed out so far
  pc,        \* the command in progress, or how it all ended
  hop,       \* the hop being filled in
  in_data_block, out,  \* command()'s locals
  found,     \* the circuits parsed from the listing, by their place in it
  address,   \* of each of those, the address filled in: that of a relay, or 0
  country    \* and the country: that of an address, 0, or Bandwidth

client == <<pc, hop, in_data_block, out, found, address, country>>
vars   == <<listing, questions, wire, closed, timeouts, client>>

\* Circuit ids as the parser sees them: "7", "100", and "250" or "2501".
Ids       == {"short", "three", "two50"}
Nobody    == 0
Bandwidth == MaxCircuits + 1  \* what follows the `=` of a "w Bandwidth=" line

Commands == {"auth", "list", "addr", "country", "quit"}

Init ==
  /\ listing \in SeqOf(Ids, MaxCircuits)
  /\ questions = <<[ask |-> "auth", of |-> Nobody]>>
  /\ wire = <<>> /\ closed = FALSE /\ timeouts = 0
  /\ pc = "auth" /\ hop = 0 /\ in_data_block = FALSE /\ out = <<>>
  /\ found = <<>> /\ address = <<>> /\ country = <<>>

-----------------------------------------------------------------------------
(* tor.                                                                    *)

Line(kind, of) == [kind |-> kind, of |-> of]
Ok    == Line("ok", Nobody)     \* "250 OK"
Error == Line("error", Nobody)  \* "552 ...", "515 ..."
Block(lines) == <<Line("open", Nobody)>> \o lines \o <<Line("dot", Nobody), Ok>>

\* The value of a GETINFO: a block if it has several lines, and none otherwise.
Listing ==
  IF Len(listing) > 1
    THEN Block([c \in 1..Len(listing) |-> Line(listing[c], c)])
    ELSE <<Line("mid", Len(listing)), Ok>>  \* "250-circuit-status=", and the circuit

\* The replies tor may give to a question.
Replies(q) ==
  CASE q.ask = "auth"    -> {<<Ok>>, <<Error>>}
    [] q.ask = "list"    -> {Listing}
    [] q.ask = "addr"    -> {<<Error>>, Block(<<Line("r", q.of), Line("w", Bandwidth)>>)}
    [] q.ask = "country" -> {<<Error>>, <<Line("mid", q.of), Ok>>, <<Line("mid", Nobody), Ok>>}
    [] q.ask = "quit"    -> {<<Ok>>}

TorAnswers ==
  /\ ~closed /\ questions # <<>>
  /\ \E reply \in Replies(Head(questions)) : wire' = wire \o reply
  /\ questions' = Tail(questions)
  /\ UNCHANGED <<listing, closed, timeouts, client>>

\* The connection ends, after so many of the lines on their way.
TorCloses ==
  /\ ~closed /\ closed' = TRUE /\ questions' = <<>>
  /\ \E n \in 0..Len(wire) : wire' = SubSeq(wire, 1, n)
  /\ UNCHANGED <<listing, timeouts, client>>

-----------------------------------------------------------------------------
(* The client.                                                             *)

\* Writing the next question; a closed connection is met when reading.
Ask(ask, of) ==
  /\ pc' = ask /\ in_data_block' = FALSE /\ out' = <<>>
  /\ questions' = IF closed THEN questions ELSE Append(questions, [ask |-> ask, of |-> of])

Stop(how) ==
  /\ pc' = how /\ in_data_block' = FALSE /\ out' = <<>>
  /\ questions' = questions

\* The loop over the hops: on to the next one, or done.
NextHop(n) ==
  /\ hop' = n
  /\ IF n <= Len(found) THEN Ask("addr", found[n]) ELSE Ask("quit", Nobody)

\* The first line of a reply of one of these kinds, by what it is about.
FirstOf(lines, kinds) ==
  LET hits == {i \in DOMAIN lines : lines[i].kind \in kinds}
  IN IF hits = {} THEN Nobody ELSE lines[Min(hits)].of

AddressKinds == {"r"}
EqualsKinds  == {"mid", "w"}  \* lines with an "="

\* All lines of these kinds, by what they are about, in order.
AllOf(lines, kinds) ==
  LET upto[n \in 0..Len(lines)] ==
        IF n = 0 THEN <<>>
        ELSE IF lines[n].kind \in kinds THEN Append(upto[n - 1], lines[n].of)
        ELSE upto[n - 1]
  IN upto[Len(lines)]

\* Mutant: every line that shows a status code is skipped, not those of 250 only.
ParseByStatus(lines) == AllOf(lines, {"short"})

\* Mutant: the closing "250 OK" is taken for a circuit.
ParseAll(lines) == AllOf(lines, {"short", "three", "ok"})

\* circuits(): everything beginning with 250 is taken for scaffolding.
Parse(lines) == AllOf(lines, {"short", "three"})

\* What a whole reply leads to.
Use(reply) ==
  CASE pc = "auth" ->
         /\ IF reply[1].kind = "error" THEN Stop("failed") ELSE Ask("list", Nobody)
         /\ UNCHANGED <<hop, found, address, country>>
    [] pc = "list" ->
         /\ found' = Parse(reply)
         /\ address' = [c \in 1..Len(found') |-> Nobody]
         /\ country' = address'
         /\ hop' = 1
         /\ IF found' = <<>> THEN Ask("quit", Nobody) ELSE Ask("addr", found'[1])
    [] pc = "addr" ->
         LET a == FirstOf(reply, AddressKinds)
         IN /\ address' = [address EXCEPT ![hop] = a]
            /\ IF a = Nobody THEN NextHop(hop + 1) ELSE Ask("country", a) /\ UNCHANGED hop
            /\ UNCHANGED <<found, country>>
    [] pc = "country" ->
         /\ country' = [country EXCEPT ![hop] = FirstOf(reply, EqualsKinds)]
         /\ NextHop(hop + 1) /\ UNCHANGED <<found, address>>
    [] pc = "quit" ->
         Stop("done") /\ UNCHANGED <<hop, found, address, country>>

\* Mutant: any line with a status code ends the reply, "250-key=value" too.
IsFinalHasty(l) == l.kind \in {"ok", "error", "mid", "three", "two50"}

\* What command() takes for the last line of a reply: a status code and a space,
\* which a circuit numbered with three digits shows too.
IsFinal(l) == l.kind \in {"ok", "error", "three", "two50"}

\* One turn of command()'s loop.
ReadLine ==
  /\ pc \in Commands /\ wire # <<>> /\ wire' = Tail(wire)
  /\ LET l == Head(wire)
     IN CASE in_data_block /\ l.kind = "dot" ->
               /\ in_data_block' = FALSE
               /\ UNCHANGED <<questions, pc, hop, out, found, address, country>>
          [] ~in_data_block /\ l.kind = "open" ->
               /\ in_data_block' = TRUE
               /\ UNCHANGED <<questions, pc, hop, out, found, address, country>>
          [] ~in_data_block /\ IsFinal(l) -> Use(Append(out, l))
          [] OTHER -> /\ out' = Append(out, l)
                      /\ UNCHANGED <<questions, pc, hop, in_data_block, found, address, country>>
  /\ UNCHANGED <<listing, closed, timeouts>>

\* command() returning an error: fatal to circuits() until the hops, where it
\* only leaves the hop without its address or its country.
CommandFails ==
  IF pc \in {"addr", "country"}
    THEN NextHop(hop + 1) /\ UNCHANGED <<found, address, country>>
    ELSE /\ Stop(IF pc = "quit" THEN "done" ELSE "failed")
         /\ UNCHANGED <<hop, found, address, country>>

\* Mutant: the connection has no read timeout.
NoTimeout == FALSE /\ UNCHANGED vars

\* Mutant: a read that timed out sends the loop back to the first hop.
TimeoutStartsOver ==
  /\ pc \in Commands /\ ~closed /\ timeouts < MaxTimeouts
  /\ timeouts' = timeouts + 1
  /\ IF pc \in {"addr", "country"}
       THEN NextHop(1) /\ UNCHANGED <<found, address, country>>
       ELSE CommandFails
  /\ UNCHANGED <<listing, wire, closed>>

\* Ten seconds without a line: tor has not answered, or not all of it. The
\* connection, and the rest of the answer, stay.
Timeout ==
  /\ pc \in Commands /\ ~closed /\ timeouts < MaxTimeouts
  /\ timeouts' = timeouts + 1 /\ CommandFails
  /\ UNCHANGED <<listing, wire, closed>>

Eof ==
  /\ pc \in Commands /\ wire = <<>> /\ closed /\ CommandFails
  /\ UNCHANGED <<listing, wire, closed, timeouts>>

Client == ReadLine \/ Timeout \/ Eof

Next == TorAnswers \/ TorCloses \/ Client

Spec     == Init /\ [][Next]_vars
FairSpec == Spec /\ WF_vars(Client)

-----------------------------------------------------------------------------
(* Properties.                                                             *)

\* The relays that were asked about by the time a hop is.
Earlier(i) == {Nobody} \cup {found[j] : j \in 1..i}

\* The circuits that come through: the whole of a block, but for some ids.
Kept == {c \in 1..Len(listing) : Len(listing) > 1 /\ listing[c] # "two50"}

\* Types; there is an address and a country to fill in for each hop parsed.
TypeOK ==
  /\ \A i \in DOMAIN listing : listing[i] \in Ids
  /\ pc \in Commands \cup {"done", "failed"}
  /\ closed \in BOOLEAN /\ in_data_block \in BOOLEAN /\ timeouts \in 0..MaxTimeouts
  /\ Len(address) = Len(found) /\ Len(country) = Len(found)
  /\ pc \in {"addr", "country"} => hop \in 1..Len(found)
  /\ \A i \in 1..Len(found) : /\ found[i] \in 1..Len(listing)
                              /\ address[i] \in 0..MaxCircuits
                              /\ country[i] \in 0..Bandwidth

\* A hop's address is its own and its country that of its address, or a read
\* timed out before it was filled in.
HopsAreTheirOwn ==
  timeouts = 0 =>
    \A i \in 1..Len(found) : /\ address[i] \in {Nobody, found[i]}
                             /\ country[i] \in {Nobody, address[i]}

\* However late or lost the answers are, a hop is never given what was asked for
\* a later one: its address is that of its own relay or of an earlier one, and so
\* is its country, but for a bandwidth read out of an earlier answer.
LateIsEarlier ==
  \A i \in 1..Len(found) : /\ address[i] \in Earlier(i)
                            /\ country[i] \in Earlier(i) \cup {Bandwidth}

\* Of a listing of several circuits each comes through the parser, in order, those
\* with three-digit ids, which look like reply codes, too; those whose id begins
\* with 250 are lost. A lone circuit is lost whatever its id: it comes on a line
\* that begins with 250, and is taken for scaffolding (control.rs:148).
ListingIsWhole ==
  pc \in {"addr", "country", "quit"} =>
    /\ {found[i] : i \in 1..Len(found)} = Kept
    /\ \A i, j \in 1..Len(found) : i < j => found[i] < found[j]

\* circuits() comes back whatever tor does, so the accept loop does too.
Returns == <>(pc \in {"done", "failed"})
=============================================================================
