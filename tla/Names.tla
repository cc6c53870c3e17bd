------------------------------- MODULE Names -------------------------------
(* Which name does a connection show?  (internal/app: chooseDomain and those  *)
(* who call it.)  The client's bytes come from captured packets, a copy of    *)
(* them from the socket, the SNI from OpenSSL's process and hints from DNS,   *)
(* each through a queue of its own, before or after the flow exists.          *)
(*                                                                            *)
(* One TCP five-tuple is used by one TLS connection after another, each asks  *)
(* for one name: its number.  Nothing is captured of some connections but     *)
(* their start and end.                                                       *)
EXTENDS Naturals, Sequences
CONSTANTS
  LateWindow,        \* lateEventWindow
  PendingTLS, PendingSocket, \* how long evidence waits for its flow
  Reuse, Lag,        \* as in Attribution
  MaxConns, MaxNow   \* bounds of the environment
VARIABLES
  conns,        \* what happens: connections so far
  wire, tls, sockets, \* packets, TLS events and socket copies, not yet taken
  flow,         \* c.flows: the flow of the tuple, or None
  pendingTLS, pendingSocket,
  clock
vars == <<conns, wire, tls, sockets, flow, pendingTLS, pendingSocket, clock>>

NoPending == [of |-> 0, from |-> "client", ech |-> FALSE, seen |-> 0]
None == [of |-> 0]
NoDNS == "none"
(* A new flow: whose it is, whether its initiator is known, its evidence (the *)
(* connection whose name it is, 0: none), the choice.                         *)
newFlow(of, known) ==
  [of |-> of, known |-> known, closed |-> FALSE, last |-> clock, tls |-> FALSE,
   wire |-> 0, wireECH |-> FALSE, socket |-> 0, socketECH |-> FALSE, process |-> 0, dns |-> NoDNS, domain |-> "none", conflict |-> FALSE]

Init ==
  /\ conns = <<>> /\ wire = <<>> /\ tls = <<>> /\ sockets = <<>>
  /\ flow = None /\ pendingTLS = NoPending /\ pendingSocket = NoPending /\ clock = 0

(* ---- what happens: connections, their bytes, time ---- *)
last == conns[Len(conns)]
item(from, ech) == [of |-> Len(conns), from |-> from, ech |-> ech, at |-> clock]
packet(kind, ech) == [of |-> Len(conns), kind |-> kind, ech |-> ech, at |-> clock]
queued(queue, i) == \E seen \in BOOLEAN : queue' = IF seen THEN Append(queue, i) ELSE queue
loop == <<flow, pendingTLS, pendingSocket, clock>>

Connect ==
  /\ Len(conns) < MaxConns /\ (conns # <<>> => last.step = "ended" /\ clock - last.at >= Reuse)
  /\ conns' = Append(conns, [step |-> "open", at |-> clock])
  /\ wire' = Append(wire, [of |-> Len(conns) + 1, kind |-> "syn", ech |-> FALSE, at |-> clock])
  /\ UNCHANGED <<tls, sockets, loop>>
Hello == \* each of the three may miss it; ECH may hide the name in it
  /\ conns # <<>> /\ last.step = "open" /\ conns' = [conns EXCEPT ![Len(conns)].step = "hello"]
  /\ \E ech \in BOOLEAN :
       /\ queued(wire, packet("hello", ech)) /\ queued(tls, item("client", FALSE))
       /\ queued(sockets, item("client", ech))
  /\ UNCHANGED loop
ServerReply == \* the server's bytes can read like a request
  /\ conns # <<>> /\ last.step = "hello" /\ conns' = [conns EXCEPT ![Len(conns)].step = "reply"]
  /\ sockets' = Append(sockets, item("server", FALSE)) /\ UNCHANGED <<wire, tls, loop>>
End ==
  /\ conns # <<>> /\ last.step # "ended" /\ conns' = [conns EXCEPT ![Len(conns)] = [step |-> "ended", at |-> clock]]
  /\ wire' = Append(wire, packet("end", FALSE)) /\ UNCHANGED <<tls, sockets, loop>>
late(queue) == \E i \in DOMAIN queue : clock - queue[i].at >= Lag
Tick ==
  /\ clock < MaxNow /\ ~late(wire) /\ ~late(tls) /\ ~late(sockets)
  /\ clock' = clock + 1 /\ UNCHANGED <<conns, wire, tls, sockets, flow, pendingTLS, pendingSocket>>

(* ---- the choice ---- *)
(* clientBytes: what was captured, if it has a name, then the socket's copy.  *)
clientBytes(f) ==
  IF f.wire # 0 \/ f.socket = 0 THEN [from |-> "wire", name |-> f.wire, ech |-> f.wireECH]
  ELSE [from |-> "socket", name |-> f.socket, ech |-> f.socketECH]
chooseDomain(f) ==
  LET bytes == clientBytes(f)
      hidden == bytes.ech /\ (f.process # 0 \/ f.dns = "dns_process") IN
  IF bytes.name # 0 /\ ~hidden
  THEN [f EXCEPT !.domain = bytes.from, !.conflict = @ \/ f.process \notin {0, bytes.name}]
  ELSE [f EXCEPT !.domain = IF f.process # 0 THEN "process"
                            ELSE IF f.dns # NoDNS THEN f.dns
                            ELSE IF f.tls THEN "missed" ELSE "none"]

attachSocketDomain(f, s) ==
  IF f.known /\ s.from # "client" THEN f ELSE chooseDomain([f EXCEPT !.socket = s.of, !.socketECH = s.ech, !.tls = TRUE])
applyTLSEvent(f, e) ==
  IF f.process \notin {0, e.of} THEN [f EXCEPT !.conflict = TRUE]
  ELSE LET g == chooseDomain([f EXCEPT !.process = e.of]) IN [g EXCEPT !.tls = @ \/ g.domain = "process"]
takesEvents(f) == ~f.closed \/ clock - f.last < LateWindow

(* ---- what the main loop takes ---- *)
(* packetAt: a SYN retires the flow before, what waited is attached.          *)
retires(p) == p.kind = "syn" /\ flow # None
withHello(f, p) ==
  IF p.kind = "hello" THEN [f EXCEPT !.wire = p.of, !.wireECH = p.ech, !.tls = TRUE, !.known = TRUE] ELSE f
attachPending(f) ==
  LET s == IF pendingSocket.of # 0 /\ clock - pendingSocket.seen <= PendingSocket
           THEN attachSocketDomain(f, pendingSocket) ELSE f
      chosen == chooseDomain(s)
  IN IF pendingTLS.of # 0 /\ clock - pendingTLS.seen <= PendingTLS THEN applyTLSEvent(chosen, pendingTLS) ELSE chosen
Packet ==
  /\ wire # <<>> /\ wire' = Tail(wire)
  /\ LET p == Head(wire)
         f == IF flow = None \/ retires(p) THEN newFlow(p.of, p.kind = "syn") ELSE flow
     IN flow' = [attachPending(withHello([f EXCEPT !.last = clock], p)) EXCEPT !.closed = @ \/ p.kind = "end"]
  /\ pendingTLS' = NoPending /\ pendingSocket' = NoPending
  /\ UNCHANGED <<conns, tls, sockets, clock>>

tlsEvent ==
  /\ tls # <<>> /\ tls' = Tail(tls)
  /\ LET e == Head(tls) IN
     IF flow = None THEN pendingTLS' = [of |-> e.of, from |-> "client", ech |-> FALSE, seen |-> clock] /\ UNCHANGED flow
     ELSE flow' = (IF takesEvents(flow) THEN applyTLSEvent(flow, e) ELSE flow) /\ UNCHANGED pendingTLS
  /\ UNCHANGED <<conns, wire, sockets, pendingSocket, clock>>

socketEvidence ==
  /\ sockets # <<>> /\ sockets' = Tail(sockets)
  /\ LET s == Head(sockets) IN
     IF flow = None THEN pendingSocket' = [of |-> s.of, from |-> s.from, ech |-> s.ech, seen |-> clock] /\ UNCHANGED flow
     ELSE flow' = attachSocketDomain(flow, s) /\ UNCHANGED pendingSocket
  /\ UNCHANGED <<conns, wire, tls, pendingTLS, clock>>

(* attachDNSHints: for a flow without a name.                                 *)
attachDNSHints ==
  /\ flow # None /\ flow.dns = NoDNS /\ flow.domain \in {"none", "missed"}
  /\ flow' = chooseDomain([flow EXCEPT !.dns = "dns"])
  /\ UNCHANGED <<conns, wire, tls, sockets, pendingTLS, pendingSocket, clock>>

(* correlateProcessDNS: the process asked for a name and connects to an       *)
(* address of the answer; the hint ends when the answer does.                 *)
unlessSure(f) == (clientBytes(f).name = 0 \/ clientBytes(f).ech) /\ f.process = 0
dropUnchosen(f) == [f EXCEPT !.dns = NoDNS] \* mutant: the name stays although its evidence went
drop(f) == chooseDomain([f EXCEPT !.dns = NoDNS])
correlateProcessDNS ==
  /\ flow # None /\ unlessSure(flow)
  /\ \E asked \in BOOLEAN :
       flow' = IF asked THEN chooseDomain([flow EXCEPT !.dns = "dns_process"])
               ELSE IF flow.dns = "dns_process" THEN drop(flow) ELSE flow
  /\ UNCHANGED <<conns, wire, tls, sockets, pendingTLS, pendingSocket, clock>>

(* evict, expire.                                                             *)
Expire ==
  /\ \/ flow # None /\ flow.closed /\ flow' = None /\ UNCHANGED <<pendingTLS, pendingSocket>>
     \/ pendingTLS.of # 0 /\ clock - pendingTLS.seen > PendingTLS /\ pendingTLS' = NoPending /\ UNCHANGED <<flow, pendingSocket>>
     \/ pendingSocket.of # 0 /\ clock - pendingSocket.seen > PendingSocket /\ pendingSocket' = NoPending /\ UNCHANGED <<flow, pendingTLS>>
  /\ UNCHANGED <<conns, wire, tls, sockets, clock>>

Next ==
  \/ Connect \/ Hello \/ ServerReply \/ End \/ Tick
  \/ Packet \/ tlsEvent \/ socketEvidence \/ attachDNSHints \/ correlateProcessDNS \/ Expire

(* ---- properties ---- *)
(* What the sources say of the flow, from the strongest to the weakest: an    *)
(* ECH hello may carry only a provider's name; the process knows better.       *)
says(f, source) ==
  CASE source = "clear bytes" -> clientBytes(f).name # 0 /\ ~clientBytes(f).ech
    [] source = "process" -> f.process # 0
    [] source = "bytes" -> clientBytes(f).name # 0
    [] OTHER -> f.dns = source
ranks == <<"clear bytes", "process", "dns_process", "bytes", "dns">>
shown(f, source) == IF source \in {"clear bytes", "bytes"} THEN clientBytes(f).from ELSE source

(* In whatever order the evidence comes and goes, the flow shows the          *)
(* strongest it has at the time, and nothing it has no more.                  *)
ShowsTheStrongest ==
  flow # None =>
    IF \E i \in DOMAIN ranks : says(flow, ranks[i])
    THEN \E i \in DOMAIN ranks : /\ says(flow, ranks[i]) /\ flow.domain = shown(flow, ranks[i])
                                 /\ \A j \in 1..(i - 1) : ~says(flow, ranks[j])
    ELSE flow.domain \in {"none", "missed"}

(* A flow has the process's name of its own connection, not of the one before *)
(* or after on the five-tuple, and evidence of one connection is no conflict. *)
ProcessNameIsOwn ==
  flow # None =>
    /\ flow.process \in {0, flow.of}
    /\ flow.conflict => flow.socket \notin {0, flow.of}
=============================================================================
