---------------------------- MODULE ClientParser ----------------------------
(***************************************************************************)
(* What a client's bytes say (internal/domain: parser.feed, finished, skip  *)
(* and sniffStream of stream.go, http.go, http2.go, tls.go, upgrade.go).    *)
(* TCP cuts the bytes anywhere and long segments are captured in part: the  *)
(* evidence may not depend on either.                                      *)
(*                                                                         *)
(* A stream is a sequence of cells; a cell is a run of bytes that the       *)
(* grammar does not look into: a request up to its last empty line, half of *)
(* a preface, a frame's header.  What a field must look like to be valid is *)
(* left out but for the errors that end a parse.                           *)
(***************************************************************************)
EXTENDS Naturals, Sequences, SequencesExt, FiniteSets

CONSTANTS
  Scripts,      \* what clients send
  MaxHeader,    \* maxHTTPHeader, in cells
  MaxHosts,     \* maxHTTPHosts
  MaxUpgrade    \* maxUpgradeBytes

VARIABLES
  script, at,   \* what this client sends, and how much of it was seen
  parser,
  error,        \* of the parse: Stream.failed
  truncated     \* the error is a tail that was not captured

pvars == <<script, at, parser, error, truncated>>

Preface == <<<<"PRI">>, <<"SM">>>>
NoHTTP == [buffer |-> <<>>, remaining |-> 0, state |-> "headers", h2c |-> FALSE]
NoH2 == [header |-> <<>>, frame |-> <<>>, block |-> <<>>, remaining |-> 0, last |-> 0, stopped |-> FALSE]
New == [kind |-> "", hosts |-> <<>>, proxy |-> "", client |-> "", sni |-> "", noSNI |-> FALSE, upgraded |-> "",
        sniff |-> <<>>, opaque |-> FALSE, upgrade |-> [data |-> <<>>, ready |-> FALSE, bytes |-> 0],
        record |-> <<>>, handshake |-> <<>>, done |-> FALSE, http |-> NoHTTP, h2 |-> NoH2]

finished(p) ==
  \/ p.kind = "other"
  \/ p.kind = "tls" /\ p.done
  \/ p.kind = "http" /\ p.http.state = "stopped"
  \/ p.kind = "http2" /\ p.h2.stopped
  \/ p.kind = "proxy" /\ p.opaque

(* feed returns the parser and whether to go on, stop or stop with an error. *)
Go(p) == [p |-> p, then |-> "go"]
Stop(p) == [p |-> p, then |-> "stop"]
Err(p) == [p |-> p, then |-> "error"]
from(s, i) == SubSeq(s, i, Len(s))
upTo(s, n) == SubSeq(s, 1, IF n < Len(s) THEN n ELSE Len(s))
find(s, cell) == {i \in DOMAIN s : s[i] = cell}
first(I) == CHOOSE i \in I : \A j \in I : i <= j

(***************************************************************************)
(* sniffStream: what the start of a stream or of a tunnel is.  A request    *)
(* line without a version looks like HTTP until it is complete, a MySQL     *)
(* login in two parts like nothing known.                                  *)
(***************************************************************************)
Requests == {"get", "post", "chunked", "h2c", "websocket", "CONNECT", "twoHosts"}
Unknown(kind) == [kind |-> kind, used |-> 0]
(* A prefix of two cells, with what it is when they are there. *)
prefix(b, kind) == IF Len(b) < 2 THEN Unknown("") ELSE [kind |-> kind, used |-> 2]
sniffStream(b) ==
  CASE b = <<>> -> Unknown("")
    [] b[1] = <<"tls">> -> Unknown("tls")
    [] b[1] = <<"socks">> -> IF Len(b) > 1 /\ b[2] # <<"socks request">> THEN Unknown("other") ELSE prefix(b, "socks")
    [] b[1] = <<"PROXY">> -> prefix(b, "preamble")
    [] IsPrefix(b, Preface) /\ b # Preface -> Unknown("")
    [] IsPrefix(Preface, b) -> prefix(b, "http2")
    [] b[1][1] \in Requests -> Unknown("http")
    [] b[1] = <<"GET key">> -> IF Len(b) = 1 THEN Unknown("http") ELSE Unknown("other")
    [] b[1] \in {<<"EHLO">>, <<"SSLRequest">>} -> Unknown("upgrade")
    [] b[1] = <<"login">> -> IF Len(b) = 1 THEN Unknown("other") ELSE Unknown("upgrade")
    [] OTHER -> IF Len(b) = 1 THEN Unknown("") ELSE Unknown("other")

sniffed(p, data) == p.sniff \o data
classify(p, data) ==
  LET b == sniffed(p, data)
      s == sniffStream(b)
      rest == from(b, s.used + 1)
      q == [p EXCEPT !.sniff = <<>>]
  IN CASE s.kind = "" -> Stop([p EXCEPT !.sniff = b]) @@ [data |-> <<>>]
       [] s.kind = "other" ->
            Stop(IF p.kind = "proxy" THEN [q EXCEPT !.opaque = TRUE] ELSE [q EXCEPT !.kind = "other"]) @@ [data |-> <<>>]
       [] s.kind = "socks" -> Go([q EXCEPT !.kind = "proxy", !.proxy = "SOCKS"]) @@ [data |-> rest]
       [] s.kind = "preamble" ->
            IF b[2] = <<"bad TLV">> THEN Err([p EXCEPT !.client = "PROXY"]) @@ [data |-> <<>>]
            ELSE Go([q EXCEPT !.client = "PROXY"]) @@ [data |-> rest]
       [] OTHER -> Go([q EXCEPT !.kind = s.kind,
                                !.upgraded = IF s.kind = "upgrade" THEN b[1][1] ELSE @]) @@ [data |-> rest]

(***************************************************************************)
(* http.go.                                                                *)
(***************************************************************************)
(* The body of a request: cells of known length, or chunks. *)
bodyLength(cell) == IF cell[1] = "post" THEN 2 ELSE 0
hostOf(cell) == IF Len(cell) > 1 THEN cell[2] ELSE ""
counted(hosts, h) == IF h = "" THEN hosts ELSE Append(hosts, h)
overLimit(hosts, h) == h # "" /\ h \notin ToSet(hosts) /\ Cardinality(ToSet(hosts)) >= MaxHosts

httpHeader(p, b) ==
  LET end == find(b, <<"end">>)
      request == b[1]
      q == [p EXCEPT !.http.buffer = from(b, first(end) + 1), !.http.h2c = FALSE]
      with(state, n) == [q EXCEPT !.hosts = counted(@, hostOf(request)),
                                  !.http.state = state, !.http.remaining = n]
      upgrades == [with("headers", 0) EXCEPT !.http.h2c = TRUE]
  IN CASE end = {} -> IF Len(b) > MaxHeader THEN Err(p) ELSE Stop([p EXCEPT !.http.h2c = FALSE])
       [] first(end) > MaxHeader -> Err(p)
       [] request[1] \notin Requests \ {"twoHosts"} -> Err(p)
       [] request[1] = "CONNECT" -> Stop([q EXCEPT !.proxy = "CONNECT", !.http.state = "tunnel"])
       [] overLimit(p.hosts, hostOf(request)) -> Err(q)
       [] request[1] = "h2c" -> Go(upgrades)
       [] request[1] = "websocket" -> Stop([with("stopped", 0) EXCEPT !.http.buffer = <<>>])
       [] request[1] = "chunked" -> Go(with("chunk size", 0))
       [] bodyLength(request) > 0 -> Go(with("body", bodyLength(request)))
       [] OTHER -> Go(with("headers", 0))

httpStep(p) ==
  LET h == p.http
      b == h.buffer
      n == IF Len(b) < h.remaining THEN Len(b) ELSE h.remaining
      rest == [p EXCEPT !.http.buffer = from(b, 2)]
  IN CASE h.state = "headers" /\ h.h2c /\ IsPrefix(Preface, b) -> Stop([p EXCEPT !.http.state = "h2c"])
       [] h.state = "headers" /\ h.h2c /\ IsPrefix(b, Preface) /\ b # Preface -> Stop(p)
       [] h.state = "headers" /\ ~(h.h2c /\ IsPrefix(b, Preface)) /\ ~(h.h2c /\ IsPrefix(Preface, b)) -> httpHeader(p, b)
       [] h.state \in {"body", "chunk"} ->
            LET q == [p EXCEPT !.http.buffer = from(b, n + 1), !.http.remaining = @ - n]
            IN IF n < h.remaining THEN Stop(q)
               ELSE Go([q EXCEPT !.http.state = IF h.state = "body" THEN "headers" ELSE "chunk end"])
       [] h.state = "chunk size" ->
            IF b[1] = <<"last chunk">> THEN Go([rest EXCEPT !.http.state = "trailer"])
            ELSE IF b[1] = <<"chunk 2">> THEN Go([rest EXCEPT !.http.state = "chunk", !.http.remaining = 2])
            ELSE Err(p)
       [] h.state = "chunk end" -> IF b[1] = <<"crlf">> THEN Go([rest EXCEPT !.http.state = "chunk size"]) ELSE Err(p)
       [] h.state = "trailer" ->
            IF b[1] = <<"crlf">> THEN Go([rest EXCEPT !.http.state = "headers"])
            ELSE IF find(b, <<"end">>) # {}
            THEN Go([p EXCEPT !.http.buffer = from(b, first(find(b, <<"end">>)) + 1), !.http.state = "headers"])
            ELSE Stop(p)
RECURSIVE httpLoop(_)
httpNext(r) == IF r.then # "go" \/ r.p.http.buffer = <<>> THEN [r EXCEPT !.then = IF @ = "go" THEN "stop" ELSE @]
               ELSE httpLoop(r.p)
httpLoop(p) == httpNext(httpStep(p))
tunnelDropped(p) == <<>>   \* mutant: what came with the request is lost
tunnelData(p) == p.http.buffer
handOver(r) ==
  LET q == [r.p EXCEPT !.http = NoHTTP]
  IN CASE r.then = "error" -> r @@ [data |-> <<>>]
       [] r.p.http.state = "tunnel" -> Go([q EXCEPT !.kind = "proxy"]) @@ [data |-> tunnelData(r.p)]
       [] r.p.http.state = "h2c" -> Go([q EXCEPT !.kind = "http2"]) @@ [data |-> from(r.p.http.buffer, 3)]
       [] OTHER -> r @@ [data |-> <<>>]

feedHTTP(p, data) ==
  handOver(IF p.http.state = "stopped" THEN Stop(p) ELSE httpLoop([p EXCEPT !.http.buffer = @ \o data]))

(***************************************************************************)
(* http2.go.  A frame is two cells of header, the second of which is <<kind,*)
(* length, END_HEADERS, stream, host>>, and its payload.                   *)
(***************************************************************************)
isHeaders(h) == Len(h) = 2 /\ h[2][1] \in {"HEADERS", "CONTINUATION"}
h2Headers(p, h) ==
  LET f == h[2]
      block == (IF f[1] = "HEADERS" THEN <<>> ELSE p.h2.block) \o p.h2.frame
      q == [p EXCEPT !.h2.block = block]
      new == f[4] > p.h2.last
  IN CASE ~f[3] -> Go(q)
       [] <<"bad">> \in ToSet(block) -> Err([q EXCEPT !.h2.stopped = TRUE])
       [] new /\ overLimit(p.hosts, f[5]) -> Err([q EXCEPT !.h2.stopped = TRUE, !.h2.last = f[4]])
       [] new -> Go([q EXCEPT !.h2.last = f[4], !.hosts = counted(@, f[5])])
       [] OTHER -> Go(q)
RECURSIVE feedH2(_, _)
feedH2(p, data) ==
  LET h == p.h2.header \o upTo(data, 2 - Len(p.h2.header))
      body == IF Len(p.h2.header) = 2 THEN data ELSE from(data, 3 - Len(p.h2.header))
      want == IF Len(p.h2.header) = 2 THEN p.h2.remaining ELSE h[2][2]
      n == IF Len(body) < want THEN Len(body) ELSE want
      q == [p EXCEPT !.h2.header = h, !.h2.remaining = want - n,
                     !.h2.frame = IF isHeaders(h) THEN @ \o SubSeq(body, 1, n) ELSE @]
      r == IF isHeaders(h) THEN h2Headers(q, h) ELSE Go(q)
  IN CASE data = <<>> \/ p.h2.stopped -> Stop(p)
       [] data # <<>> /\ ~p.h2.stopped /\ Len(h) < 2 -> Stop([p EXCEPT !.h2.header = h])
       [] OTHER -> IF n < want THEN Stop(q)
                   ELSE IF r.then = "error" THEN r
                   ELSE feedH2([r.p EXCEPT !.h2.header = <<>>, !.h2.frame = <<>>], from(body, n + 1))

(***************************************************************************)
(* tls.go and upgrade.go.  A record is a header and a payload; a            *)
(* ClientHello here needs two.                                             *)
(***************************************************************************)
parseClientHello(handshake) == [valid |-> handshake[2][1] # "malformed", sni |-> handshake[2][2]]
RECURSIVE feedTLS(_)
feedTLS(p) ==
  LET handshake == Append(p.handshake, p.record[2])
      q == [p EXCEPT !.handshake = handshake, !.record = from(@, 3)]
      hello == parseClientHello(handshake)
  IN CASE p.record = <<>> -> Stop(p)
       [] p.record # <<>> /\ p.record[1] # <<"tls">> -> Err(p)
       [] Len(p.record) = 1 -> Stop(p)
       [] OTHER -> IF handshake[1] # <<"hello">> THEN Err(q)
                   ELSE IF Len(handshake) < 2 THEN feedTLS(q)
                   ELSE IF ~hello.valid THEN Err(q)
                   ELSE Stop([q EXCEPT !.sni = hello.sni, !.noSNI = hello.sni = "", !.done = TRUE,
                                       !.record = <<>>, !.handshake = <<>>])

upgradePoint(b, protocol) == IF protocol = "SSLRequest" THEN {1} ELSE find(b, <<"STARTTLS">>)
keepTail(b) == IF b = <<>> THEN b ELSE <<Last(b)>>
feedUpgrade(p, data) ==
  LET u == p.upgrade
      bytes == u.bytes + Len(data)
      seen == u.data \o data
      end == upgradePoint(seen, p.upgraded)
      ready == u.ready \/ end # {}
      b == IF u.ready \/ end = {} THEN seen ELSE from(seen, first(end) + 1)
      hello == {i \in 1..(Len(b) - 1) : b[i] = <<"tls">> /\ b[i + 1] = <<"hello">>}
  IN IF bytes > MaxUpgrade
     THEN Stop([p EXCEPT !.kind = "other", !.upgraded = "", !.upgrade = New.upgrade]) @@ [data |-> <<>>]
     ELSE IF ready /\ hello # {}
     THEN Go([p EXCEPT !.kind = "tls", !.upgrade = New.upgrade]) @@ [data |-> from(b, first(hello))]
     ELSE Stop([p EXCEPT !.upgrade = [data |-> IF ready THEN keepTail(b) ELSE b, ready |-> ready, bytes |-> bytes]])
          @@ [data |-> <<>>]

RECURSIVE feed(_, _)
feedNext(r) == IF r.then = "go" THEN feed(r.p, r.data) ELSE [p |-> r.p, then |-> r.then]
feed(p, data) == feedNext(
  CASE p.kind \in {"", "proxy"} -> classify(p, data)
    [] p.kind = "tls" -> IF p.done THEN Stop(p) ELSE feedTLS([p EXCEPT !.record = @ \o data])
    [] p.kind = "upgrade" -> feedUpgrade(p, data)
    [] p.kind = "http" -> feedHTTP(p, data)
    [] p.kind = "http2" -> feedH2(p, data)
    [] OTHER -> Stop(p))

(***************************************************************************)
(* skip: bytes that were not captured.                                     *)
(***************************************************************************)
canSkip(p, n) ==
  \/ /\ p.kind = "http" /\ p.http.buffer = <<>> /\ p.http.state \in {"body", "chunk"} /\ n <= p.http.remaining
  \/ /\ p.kind = "http2" /\ Len(p.h2.header) = 2 /\ ~isHeaders(p.h2.header) /\ n <= p.h2.remaining
skip(p, n) ==
  IF p.kind = "http"
  THEN LET left == p.http.remaining - n
       IN [p EXCEPT !.http.remaining = left,
                    !.http.state = IF left > 0 THEN @ ELSE IF @ = "body" THEN "headers" ELSE "chunk end"]
  ELSE LET left == p.h2.remaining - n
       IN [p EXCEPT !.h2.remaining = left, !.h2.header = IF left > 0 THEN @ ELSE <<>>]

(***************************************************************************)
(* A segment: its captured prefix and the tail that was not captured.  A    *)
(* stream that failed or has its evidence takes none (Stream.AddSegment).   *)
(***************************************************************************)
Taken(r, tail) ==
  LET skips == tail > 0 /\ r.then # "error" /\ ~finished(r.p)
  IN /\ error' = (r.then = "error" \/ (skips /\ ~canSkip(r.p, tail)))
     /\ truncated' = (skips /\ ~canSkip(r.p, tail))
     /\ parser' = IF skips /\ canSkip(r.p, tail) THEN skip(r.p, tail) ELSE r.p
Segment(n, tail) ==
  /\ ~error /\ ~finished(parser) /\ n + tail > 0 /\ at + n + tail <= Len(script)
  /\ at' = at + n + tail
  /\ Taken(IF n = 0 THEN Stop(parser) ELSE feed(parser, SubSeq(script, at + 1, at + n)), tail)
  /\ UNCHANGED script

Init == script \in Scripts /\ at = 0 /\ parser = New /\ error = FALSE /\ truncated = FALSE
Next == \E n \in 0..Len(script), tail \in 0..2 : Segment(n, tail)
Spec == Init /\ [][Next]_pvars

(***************************************************************************)
(* Properties.                                                             *)
(***************************************************************************)
(* Streams whose first bytes sniffStream decides on as they come, however    *)
(* few of them: its answer may differ with the cut.                          *)
Ambiguous == script # <<>> /\ script[1] \in {<<"GET key">>, <<"login">>}

(* What is known of a client after any segments, captured whole or in part,  *)
(* is what its bytes say when they come at once; an error is one of the      *)
(* bytes, or of a tail that could not be done without (feed, skip).          *)
evidence(p) == [kind |-> p.kind, hosts |-> p.hosts, proxy |-> p.proxy, client |-> p.client,
                sni |-> p.sni, noSNI |-> p.noSNI, upgraded |-> p.upgraded]
AsWhole(whole) ==
  /\ evidence(parser) = evidence(whole.p)
  /\ error <=> whole.then = "error"
  /\ ~error /\ ~finished(parser) => parser = whole.p
SplitIndependent == ~Ambiguous /\ ~truncated /\ at > 0 => AsWhole(feed(New, SubSeq(script, 1, at)))
=============================================================================
