----------------------------- MODULE Reassembly -----------------------------
(***************************************************************************)
(* TCP reassembly of a client's bytes (internal/domain/stream.go: New, Add, *)
(* AddSegment, drain, push, Fail, Tick).  A byte is its position in the     *)
(* client's stream; sequence numbers are positions in a space of Space      *)
(* numbers and wrap.  The protocol parser is reduced to what reassembly     *)
(* asks of it: how many bytes it wants, the byte it cannot parse, whether   *)
(* it can do without bytes, and whether an error stops it (the HTTP/2       *)
(* parser of http2.go sets stopped before it returns one).                  *)
(***************************************************************************)
EXTENDS Integers, Sequences, FiniteSets, SequencesExt, Folds

CONSTANTS
  Space,     \* 2^32
  First,     \* initial sequence number
  Length,    \* bytes the client sends
  MaxParts,  \* maxPendingParts
  MaxBytes,  \* maxPendingBytes
  Patience   \* 10 seconds, the longest a gap may stay

VARIABLES
  parser,   \* what the parser wants, cannot parse and can skip
  expected, pending, pendingBytes, failed,
  stopped,  \* the parser met an error and stopped: h2Parser.stopped
  gapAge,   \* time since gapSince, or None
  fed,      \* positions that went to the parser
  got       \* what happened: positions that were captured

rvars == <<parser, expected, pending, pendingBytes, failed, stopped, gapAge, fed, got>>

None == -1
seqOf(pos) == (First + pos) % Space
(* int32(seq - expected) *)
ahead(seq, from) == LET d == (seq - from) % Space IN IF d < Space \div 2 THEN d ELSE d - Space
finished(s) == s.stopped \/ Len(s.fed) >= parser.wants

Stream == [expected |-> expected, pending |-> pending, bytes |-> pendingBytes, failed |-> failed,
           stopped |-> stopped, gap |-> gapAge, fed |-> fed]
Become(s) ==
  /\ expected' = s.expected /\ pending' = s.pending /\ pendingBytes' = s.bytes
  /\ failed' = s.failed /\ stopped' = s.stopped /\ gapAge' = s.gap /\ fed' = s.fed

without(s, seqs) ==
  [s EXCEPT !.pending = [q \in DOMAIN @ \ seqs |-> @[q]],
            !.bytes = @ - MapThenFoldSet(+, 0, LAMBDA q : Len(s.pending[q]),
                                         LAMBDA Q : CHOOSE q \in Q : TRUE, seqs)]

(* A parser that has finished keeps its evidence. *)
Fail(s) == IF s.failed \/ finished(s) THEN s
           ELSE [s EXCEPT !.failed = TRUE, !.pending = <<>>, !.bytes = 0]

(* The bytes before the one in error do not end the parse, and a parser that *)
(* has stopped takes none.                                                   *)
errorIn(payload) == parser.bad \in ToSet(payload) /\ parser.bad < parser.wants
push(s, payload) ==
  LET upTo == IF s.stopped THEN <<>>
              ELSE IF errorIn(payload) THEN SelectSeq(payload, LAMBDA i : i < parser.bad) ELSE payload
      t == [s EXCEPT !.expected = (@ + Len(payload)) % Space,
                     !.gap = IF s.bytes > 0 THEN 0 ELSE @,
                     !.fed = @ \o upTo]
  IN IF errorIn(payload) /\ ~s.stopped THEN Fail([t EXCEPT !.stopped = parser.stops])
     ELSE IF finished(t) THEN [t EXCEPT !.pending = <<>>, !.bytes = 0] ELSE t

drainOnce(s) ==   \* mutant: one segment is delivered, the others stay
  LET ready == {q \in DOMAIN s.pending : ahead(q, s.expected) = 0}
  IN IF s.failed \/ ready = {} THEN s
     ELSE LET q == CHOOSE q \in ready : TRUE IN push(without(s, {q}), s.pending[q])
RECURSIVE drain(_)
(* What became contiguous, segment by segment; the order does not matter. *)
drain(s) ==
  LET d(q) == ahead(q, s.expected)
      ready == {q \in DOMAIN s.pending : d(q) <= 0 /\ -d(q) < Len(s.pending[q])}
      stale == {q \in DOMAIN s.pending : d(q) < 0 /\ -d(q) >= Len(s.pending[q])}
      rest == without(s, stale)
  IN IF s.failed THEN s
     ELSE IF ready = {} THEN [rest EXCEPT !.gap = IF rest.bytes = 0 THEN None ELSE @]
     ELSE LET q == CHOOSE q \in ready : TRUE
          IN drain(push(without(s, {q}), SubSeq(s.pending[q], 1 - d(q), Len(s.pending[q]))))

(* A segment from beyond a gap waits; of two with one number the longer.    *)
gapAnew(s) == 0   \* mutant: every segment restarts the clock of the gap
gapFrom(s) == IF s.gap = None THEN 0 ELSE s.gap
hold(s, seq, payload) ==
  LET t == [s EXCEPT !.gap = gapFrom(s)]
      old == IF seq \in DOMAIN s.pending THEN Len(s.pending[seq]) ELSE 0
  IN IF Cardinality(DOMAIN s.pending) >= MaxParts \/ s.bytes + Len(payload) > MaxBytes THEN Fail(t)
     ELSE IF old >= Len(payload) THEN t
     ELSE [t EXCEPT !.bytes = @ - old + Len(payload),
                    !.pending = [q \in DOMAIN @ \cup {seq} |-> IF q = seq THEN payload ELSE @[q]]]

Add(s, seq, payload) ==
  LET d == ahead(seq, s.expected)
  IN IF s.failed \/ finished(s) THEN s
     ELSE IF d > 0 THEN hold(s, seq, payload)
     ELSE IF -d >= Len(payload) THEN s
     ELSE drain(push(s, SubSeq(payload, 1 - d, Len(payload))))

(* The captured prefix of a longer segment. *)
AddSegment(s, seq, prefix, tail) ==
  LET length == Len(prefix) + Len(tail)
      t == IF prefix = <<>> THEN s ELSE push(s, prefix)
  IN IF tail = <<>> THEN Add(s, seq, prefix)
     ELSE IF s.failed \/ finished(s) \/ ahead((seq + length) % Space, s.expected) <= 0 THEN s
     ELSE IF seq # s.expected THEN Fail(s)
     ELSE IF t.failed \/ finished(t) THEN t
     ELSE IF ~parser.skips \/ Len(t.fed) + Len(tail) >= Min({parser.wants, parser.bad}) THEN Fail(t)
     ELSE drain([t EXCEPT !.expected = (@ + Len(tail)) % Space, !.fed = @ \o tail])

(* Positions from up to before to. *)
positions(from, to) == [i \in 1..(to - from) |-> from + i - 1]

Segment ==
  \E from \in 0..(Length - 1) : \E to \in (from + 1)..Length : \E cut \in from..to :
    /\ Become(AddSegment(Stream, seqOf(from), positions(from, cut), positions(cut, to)))
    /\ got' = got \cup (from..(IF parser.skips THEN to ELSE cut) - 1)
    /\ UNCHANGED parser

(* The clock, and Tick, which expire calls. *)
Wait ==
  /\ gapAge \in 0..Patience /\ gapAge' = gapAge + 1
  /\ UNCHANGED <<parser, expected, pending, pendingBytes, failed, stopped, fed, got>>
Tick ==
  /\ ~failed /\ ~finished(Stream) /\ pendingBytes > 0 /\ gapAge > Patience
  /\ Become(Fail(Stream))
  /\ UNCHANGED <<parser, got>>
(* 30 seconds without progress. *)
Silent ==
  /\ ~failed /\ ~finished(Stream) /\ fed # <<>>
  /\ Become(Fail(Stream))
  /\ UNCHANGED <<parser, got>>

Init ==
  /\ parser \in [wants : {2, Length + 1}, bad : {1, Length}, skips : BOOLEAN, stops : BOOLEAN]
  /\ expected = First /\ pending = <<>> /\ pendingBytes = 0 /\ failed = FALSE /\ stopped = FALSE
  /\ gapAge = None /\ fed = <<>> /\ got = {}

Next == Segment \/ Wait \/ Tick \/ Silent

(* Time passes and the collector expires its flows every second. *)
Fairness == WF_rvars(Wait) /\ WF_rvars(Tick)
Spec == Init /\ [][Next]_rvars /\ Fairness

(***************************************************************************)
(* Properties.                                                             *)
(***************************************************************************)
(* The parser gets the client's bytes in order and each once, whatever the   *)
(* segments, their order, repeats and overlaps and wherever the numbers wrap *)
(* (Add, AddSegment, drain, push).                                           *)
InOrder == fed = positions(0, Len(fed))

(* No byte that could be delivered is left in pending (drain).               *)
NothingStuck ==
  ~failed /\ ~finished(Stream) =>
    \A n \in 0..Length : 0..(n - 1) \subseteq got => Len(fed) >= n

(* The counter that bounds the memory of a stream is what pending holds, and *)
(* a stream that has failed or has its evidence holds nothing (hold, drain,  *)
(* push, Fail).                                                              *)
PendingExact ==
  /\ pendingBytes = MapThenFoldSet(+, 0, LAMBDA q : Len(pending[q]),
                                   LAMBDA Q : CHOOSE q \in Q : TRUE, DOMAIN pending)
  /\ pendingBytes <= MaxBytes /\ Cardinality(DOMAIN pending) <= MaxParts
  /\ failed \/ Len(fed) >= parser.wants => pendingBytes = 0

(* What waits behind a gap does not wait forever, whatever is sent again     *)
(* (gapSince, Tick).                                                         *)
PendingFreed == pendingBytes > 0 /\ ~parser.stops ~> pendingBytes = 0
=============================================================================
