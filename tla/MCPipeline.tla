----------------------------- MODULE MCPipeline ----------------------------
(* From captured bytes to written rows: TCP reassembly, the client's          *)
(* protocols, the server's TLS reply, the QUIC Initial, the readings of socket  *)
(* tables, the goroutines of a run and the change log.  Each is a behaviour   *)
(* of its own; part says which.                                              *)
EXTENDS Integers, Sequences, MainLoop, ChangeLog
VARIABLES part,
  wants, expected, pending, pendingBytes, refused, stopped, gapAge, fed, got,
  script, at, parser, error, truncated,
  reply, sni, flight, said, heard, begun, cut,
  cid, largestPN, crypto, parts, pendingSize, state, hello, read,
  loading, loader, loaded, flows, socket, exited, atStart, tracks, failures, ended, blind

reassembly == <<wants, expected, pending, pendingBytes, refused, stopped, gapAge, fed, got>>
client == <<script, at, parser, error, truncated>>
server == <<reply, sni, flight, said, heard, begun, cut>>
quic == <<cid, largestPN, crypto, parts, pendingSize, state, hello, read>>
run == rvars
log == lvars
inventory == <<loading, loader, loaded, flows, socket, exited, atStart, tracks, failures,
               ended, blind>>
all == <<part, reassembly, client, server, quic, run, log, inventory>>

(* A client's stream: TLS, tunnels, upgrades, bodies, frames, and errors.    *)
Preface == <<<<"PRI">>, <<"SM">>>>
ClientHello(kind, name) == <<<<"tls">>, <<"hello">>, <<"tls">>, <<kind, name>>>>
TLS == ClientHello("rest", "name")
Request(k) == <<<<k>>, <<"end">>>>
Get(h) == <<<<"get", h>>, <<"end">>>>
Frame(kind, n, ends, stream, h) == <<<<"frame">>, <<kind, n, ends, stream, h>>>>
MCScripts == {
  <<>>,
  TLS \o <<<<"data">>>>,
  ClientHello("rest", ""), ClientHello("malformed", ""),
  <<<<"tls">>, <<"alert">>, <<"data">>>>,
  <<<<"socks">>, <<"socks request">>>> \o TLS,
  <<<<"socks">>, <<"junk">>, <<"data">>>>,
  <<<<"PROXY">>, <<"v1">>>> \o Get("a") \o Get("b"),
  <<<<"PROXY">>, <<"bad TLV">>>> \o TLS,
  Request("CONNECT") \o TLS,
  Request("CONNECT") \o <<<<"x">>, <<"y">>, <<"z">>>>,
  <<<<"EHLO">>, <<"STARTTLS">>>> \o TLS,
  <<<<"SSLRequest">>>> \o TLS,
  <<<<"EHLO">>, <<"x">>, <<"x">>, <<"x">>, <<"x">>, <<"x">>, <<"x">>, <<"x">>>>,
  <<<<"post", "a">>, <<"end">>, <<"body">>, <<"body">>>> \o Get("b"),
  <<<<"chunked", "a">>, <<"end">>, <<"chunk 2">>, <<"d">>, <<"d">>, <<"crlf">>, <<"last chunk">>, <<"crlf">>>> \o Get("a"),
  <<<<"chunked", "a">>, <<"end">>, <<"last chunk">>, <<"field">>, <<"end">>>> \o Get("c"),
  <<<<"chunked", "a">>, <<"end">>, <<"chunk 2">>, <<"d">>, <<"d">>, <<"junk">>>>,
  Get("a") \o Get("b") \o Get("c"),
  Get("a") \o Request("twoHosts") \o Get("b"),
  <<<<"get", "a">>, <<"field">>, <<"field">>, <<"end">>>> \o Get("b"),
  <<<<"get", "a">>, <<"field">>, <<"field">>, <<"field">>, <<"end">>>>,
  <<<<"h2c", "a">>, <<"end">>>> \o Get("b"),
  <<<<"h2c", "a">>, <<"end">>>> \o Preface \o Frame("HEADERS", 1, TRUE, 1, "b") \o <<<<"p">>>>,
  <<<<"websocket", "a">>, <<"end">>, <<"x">>, <<"y">>>>,
  Preface \o Frame("HEADERS", 1, FALSE, 1, "") \o <<<<"p">>>> \o Frame("CONTINUATION", 1, TRUE, 1, "a") \o <<<<"p">>>>,
  Preface \o Frame("DATA", 2, FALSE, 1, "") \o <<<<"d">>, <<"d">>>> \o Frame("HEADERS", 1, TRUE, 1, "a") \o <<<<"p">>>>,
  Preface \o Frame("HEADERS", 1, TRUE, 1, "a") \o <<<<"p">>>> \o Frame("HEADERS", 1, TRUE, 1, "a") \o <<<<"p">>>>,
  Preface \o Frame("HEADERS", 2, TRUE, 1, "a") \o <<<<"p">>, <<"bad">>>> \o Frame("DATA", 0, FALSE, 1, ""),
  <<<<"GET key">>, <<"crlf">>>>, <<<<"login">>, <<"rest">>>> \o TLS, <<<<"x">>, <<"y">>>> }

(* A server's reply: both versions, one record or several, an alert.         *)
Rec(k, n) == <<<<k, n>>>>
MCReplies == {
  <<>>,
  <<<<"HTTP", 0>>>> \o Rec("handshake", 1) \o Rec("1.3", 0) \o Rec("encrypted", 1) \o Rec("x", 0),
  Rec("handshake", 3) \o <<<<"1.2", 0>>, <<"certificate", 0>>, <<"leaf", 1>>>>,
  Rec("handshake", 1) \o Rec("1.2", 0) \o Rec("handshake", 1) \o Rec("certificate", 0) \o Rec("handshake", 1) \o Rec("leaf", 1),
  Rec("handshake", 2) \o <<<<"1.2", 0>>, <<"finished", 0>>>>,
  Rec("handshake", 1) \o Rec("malformed", 0) \o Rec("alert", 1) \o Rec("fatal", 0) }

P == INSTANCE ClientParser WITH Scripts <- MCScripts, MaxHeader <- 4, MaxHosts <- 2, MaxUpgrade <- 6
R == INSTANCE Reassembly WITH parser <- wants, failed <- refused,
  Space <- 16, First <- 14, Length <- 5, MaxParts <- 2, MaxBytes <- 3, Patience <- 1
S == INSTANCE ServerFlight WITH Replies <- MCReplies, MaxFlight <- 6, MaxParts <- 2
Q == INSTANCE QUICInitial WITH Connections <- {"c1", "c2"}, Hello <- 4, Window <- 4, MaxPN <- 6,
  MaxCrypto <- 5, MaxParts <- 2
I == INSTANCE Inventory WITH stopped <- ended, Namespace <- {"n1", "n2"}, Flow <- {"f"}, In <- [f |-> "n1"],
  Accepted <- {"f"}, MaxFailures <- 1

(* A part that does not run has one initial state.                           *)
MCInit ==
  /\ part \in {"reassembly", "client", "server", "quic", "run", "log", "inventory"}
  /\ P!Init /\ R!Init /\ S!Init /\ Q!Init /\ RunInit /\ LogInit /\ I!Init
  /\ part = "client" <=> script # <<>>
  /\ part = "server" <=> reply # <<>>
  /\ part # "server" => ~sni
  /\ part # "inventory" => socket["f"] = "held" /\ ~tracks
  /\ part # "reassembly" => wants.wants = 2 /\ wants.bad = 1 /\ ~wants.skips /\ ~wants.stops
MCNext ==
  \/ part = "reassembly" /\ R!Next /\ UNCHANGED <<part, client, server, quic, run, log, inventory>>
  \/ part = "client" /\ P!Next /\ UNCHANGED <<part, reassembly, server, quic, run, log, inventory>>
  \/ part = "server" /\ S!Next /\ UNCHANGED <<part, reassembly, client, quic, run, log, inventory>>
  \/ part = "quic" /\ Q!Next /\ UNCHANGED <<part, reassembly, client, server, run, log, inventory>>
  \/ part = "run" /\ RunNext /\ UNCHANGED <<part, reassembly, client, server, quic, log, inventory>>
  \/ part = "log" /\ LogNext /\ UNCHANGED <<part, reassembly, client, server, quic, run, inventory>>
  \/ part = "inventory" /\ I!Next /\ UNCHANGED <<part, reassembly, client, server, quic, run, log>>

(* Time passes and the collector expires its flows every second; goroutines   *)
(* run, and the output is read.                                              *)
InReassembly(A) == part = "reassembly" /\ A /\ UNCHANGED <<part, client, server, quic, run, log, inventory>>
InRun(A) == part = "run" /\ A /\ UNCHANGED <<part, reassembly, client, server, quic, log, inventory>>
InInventory(A) == part = "inventory" /\ A /\ UNCHANGED <<part, reassembly, client, server, quic, run, log>>
Fairness ==
  /\ WF_all(InReassembly(R!Wait)) /\ WF_all(InReassembly(R!Tick))
  /\ \A s \in Capture : WF_all(InRun(CaptureGoes(s)))
  /\ \A p \in Probe : WF_all(InRun(ReaderGoes(p)))
  /\ WF_all(InInventory(I!LoopGoes)) /\ \A n \in {"n1", "n2"} : WF_all(InInventory(I!LoaderGoes(n)))
  /\ WF_all(InRun(LoopGoes)) /\ WF_all(InRun(WriterGoes))
MCSpec == MCInit /\ [][MCNext]_all /\ Fairness

(* The parser gets the client's bytes in order and each once, whatever the   *)
(* segments, their order, repeats and overlaps and wherever the numbers wrap,*)
(* no byte that could be delivered waits, and the counter that bounds what    *)
(* waits is what waits (Add, AddSegment, drain, push, Fail).                 *)
Delivered == part = "reassembly" => R!InOrder /\ R!NothingStuck /\ R!PendingExact

(* What waits behind a gap does not wait for ever, whatever is sent again    *)
(* (gapSince, Tick).                                                         *)
PendingFreed == R!PendingFreed

(* What is known of a client after any segments, captured whole or in part,  *)
(* is what its bytes say when they come at once (feed, skip).                *)
SplitIndependent == part = "client" => P!SplitIndependent

(* What is said of a server whose reply was captured from its first record   *)
(* is what the reply says as far as it could be read (AddServer, add, feed). *)
FlightAsSent == part = "server" => S!FlightAsSent

(* A QUIC hello is that of one connection, whole and in order; until then    *)
(* nothing that could be read waits, and packet numbers expand (Tracker).    *)
InitialRead == part = "quic" => Q!InitialRead

(* A flow that no probe named is named from the socket tables, on the side it *)
(* is on, as long as it, its socket and its process stay, however readings    *)
(* fail, come late and overlap (refresh, apply, refreshNow).                  *)
NamedInTheEnd == I!NamedInTheEnd
=============================================================================
