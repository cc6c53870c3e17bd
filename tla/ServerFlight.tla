---------------------------- MODULE ServerFlight ----------------------------
(***************************************************************************)
(* The plaintext start of a TLS server's reply (internal/domain:            *)
(* tls_server.go, Tick of stream.go): the version it chose and, for a       *)
(* client that named no server, the names of its certificate.               *)
(*                                                                         *)
(* The reply is a sequence of cells: a record's header <<kind, n>> with n   *)
(* cells of payload, a message of one cell, a certificate of two.  A segment*)
(* is a run of cells at its position; the arithmetic of sequence numbers is *)
(* that of Reassembly.                                                     *)
(***************************************************************************)
EXTENDS Integers, Sequences, SequencesExt, FiniteSets, Folds

CONSTANTS
  Replies,     \* what servers send
  MaxFlight,   \* maxServerFlight, in cells
  MaxParts     \* maxPendingParts

VARIABLES
  reply, sni,   \* what this server sends, and whether the client named it
  flight,       \* serverFlight
  said,         \* the server's part of Evidence
  heard,        \* what happened: positions captured since the flight started
  begun,        \* position of the segment that started it
  cut           \* a bound, a timeout or a capture in part ended it

fvars == <<reply, sni, flight, said, heard, begun, cut>>

None == 0
NoFlight == [started |-> FALSE, done |-> FALSE, expected |-> 0, record |-> <<>>, handshake |-> <<>>,
             pending |-> <<>>, bytes |-> 0]
stop(f) == [f EXCEPT !.done = TRUE, !.record = <<>>, !.handshake = <<>>, !.pending = <<>>, !.bytes = 0]
Nothing == [version |-> "", names |-> 0]
with(f, e) == [f |-> f, e |-> e]
after(s, n) == SubSeq(s, n + 1, Len(s))

parseServerHello(m) == [valid |-> m # "malformed", version |-> m]
certificateNames(leaf) == leaf[2]   \* how many names it has
RECURSIVE messages(_, _)
messages(f, e) ==
  IF f.handshake = <<>> \/ f.done THEN with(f, e)
  ELSE LET m == f.handshake[1][1]
           hello == parseServerHello(m)
           heardHello == [e EXCEPT !.version = hello.version]
       IN CASE m = "certificate" ->
                 IF Len(f.handshake) < 2 THEN with(f, e)
                 ELSE with(stop(f), [e EXCEPT !.names = certificateNames(f.handshake[2])])
            [] m \in {"1.2", "1.3", "malformed"} ->
                 IF ~hello.valid THEN with(stop(f), e)
                 ELSE IF hello.version = "1.3" \/ sni THEN with(stop(f), heardHello)
                 ELSE messages([f EXCEPT !.handshake = Tail(@)], heardHello)
            [] OTHER -> with(stop(f), e)

RECURSIVE records(_, _)
records(f, e) ==
  IF f.record = <<>> \/ f.done THEN with(f, e)
  ELSE LET h == f.record[1]
           r == messages([f EXCEPT !.handshake = @ \o SubSeq(f.record, 2, 1 + h[2]),
                                   !.record = after(@, 1 + h[2])], e)
       IN CASE h[1] \notin {"handshake", "alert", "encrypted"} -> with(stop(f), e)
            [] Len(f.record) < 1 + h[2] -> with(f, e)
            [] h[1] \in {"alert", "encrypted"} -> with(stop(f), e)
            [] OTHER -> records(r.f, r.e)
feed(f, data, e) ==
  IF Len(f.record) + Len(data) > MaxFlight THEN with(stop(f), e)
  ELSE records([f EXCEPT !.record = @ \o data], e)

cells(from, to) == SubSeq(reply, from, to - 1)
seenTwice(f, from) == 0   \* mutant: a retransmission is read again
seenBefore(f, from) == f.expected - from
add(f, from, to, truncated, e) ==
  LET overlap == seenBefore(f, from)
      r == feed([f EXCEPT !.expected = to], cells(from + overlap, to), e)
  IN IF from < f.expected /\ f.expected >= to THEN with(f, e)
     ELSE IF truncated THEN with(stop(r.f), r.e) ELSE r

RECURSIVE drain(_, _)
drain(f, e) ==
  LET ready == {i \in DOMAIN f.pending : f.pending[i].from <= f.expected}
      i == CHOOSE i \in ready : TRUE
      p == f.pending[i]
      r == add([f EXCEPT !.pending = RemoveAt(@, i), !.bytes = @ - (p.to - p.from)], p.from, p.to, FALSE, e)
  IN IF ready = {} \/ f.done THEN with(f, e) ELSE drain(r.f, r.e)

hold(f, from, to) ==
  LET same == {i \in DOMAIN f.pending : f.pending[i].from = from}
      longer == {i \in same : f.pending[i].to >= to}
      part == [from |-> from, to |-> to]
  IN CASE longer # {} -> f
       [] same = {} -> [f EXCEPT !.pending = Append(@, part), !.bytes = @ + (to - from)]
       [] OTHER -> LET i == CHOOSE i \in same : TRUE
                   IN [f EXCEPT !.pending[i] = part, !.bytes = @ + (to - f.pending[i].to)]

startsRecord(from) == reply[from][1] \in {"handshake", "alert"}

(***************************************************************************)
(* AddServer: a segment of the server, its captured part from..to-1.  The   *)
(* first that starts like a record starts the flight.                      *)
(***************************************************************************)
AddServer(from, to, truncated) ==
  LET f == IF flight.started THEN flight ELSE [flight EXCEPT !.started = TRUE, !.expected = from]
      first == add(f, from, to, truncated, said)
      r == drain(first.f, first.e)
  IN /\ ~flight.done
     /\ flight.started \/ startsRecord(from)
     /\ begun' = IF flight.started THEN begun ELSE from
     /\ heard' = heard \cup (from..(to - 1))
     /\ IF from > f.expected
        THEN LET over == truncated \/ Len(f.pending) >= MaxParts \/ f.bytes + (to - from) > MaxFlight
             IN /\ flight' = IF over THEN stop(f) ELSE hold(f, from, to)
                /\ cut' = over /\ said' = said
        ELSE flight' = r.f /\ said' = r.e /\ cut' = truncated
     /\ UNCHANGED <<reply, sni>>
Segment == \E from, to \in 1..(Len(reply) + 1), truncated \in BOOLEAN : from < to /\ AddServer(from, to, truncated)

(* Tick: a gap of ten seconds. *)
GapTimeout ==
  /\ flight.bytes > 0 /\ flight' = stop(flight)
  /\ cut' = TRUE /\ UNCHANGED <<reply, sni, said, heard, begun>>

Init ==
  /\ reply \in Replies /\ sni \in BOOLEAN
  /\ flight = NoFlight /\ said = Nothing /\ heard = {} /\ begun = None /\ cut = FALSE
Next == Segment \/ GapTimeout
Spec == Init /\ [][Next]_fvars

(***************************************************************************)
(* Properties.                                                             *)
(***************************************************************************)
start == CHOOSE i \in DOMAIN reply : startsRecord(i) /\ \A j \in 1..(i - 1) : ~startsRecord(j)
asSent(to) == feed([NoFlight EXCEPT !.started = TRUE], cells(start, to), Nothing)

(* What is said of a server whose reply was captured from its first record   *)
(* is what the reply says up to a position, the last that could be read      *)
(* while the flight goes on; nothing deliverable waits, and a flight that    *)
(* is over holds nothing (AddServer, add, feed, messages, stop).             *)
FlightAsSent ==
  begun = start =>
    /\ \E to \in start..(Len(reply) + 1) : said = asSent(to).e
    /\ ~flight.done =>
         /\ said = asSent(flight.expected).e
         /\ start..(flight.expected - 1) \subseteq heard /\ flight.expected \notin heard
         /\ flight.bytes = FoldSeq(LAMBDA p, n : n + p.to - p.from, 0, flight.pending)
    /\ flight.done => flight.pending = <<>> /\ flight.bytes = 0
=============================================================================
