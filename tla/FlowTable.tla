------------------------------ MODULE FlowTable ------------------------------
(***************************************************************************)
(* The flow table of one collector (internal/app): how captured packets,   *)
(* connect results and kernel drop reports create, update, retire, evict   *)
(* and expire flows, where the bytes of every packet end up, and which     *)
(* inbound attempts are counted against their source.                      *)
(*                                                                         *)
(* A *flow of the Go code is a slot: place says whether the pointer is in  *)
(* c.flows, in c.retired or nowhere.  Of the naming and process            *)
(* attribution of a flow this module keeps what decides who the initiator  *)
(* is; names, processes and socket I/O change nothing else kept here.  A   *)
(* packet key here is one that passes acceptPort.  The collector is not    *)
(* the loopback one.  The direction of an ICMP flow, which echo requests   *)
(* reset, is read by nothing here.                                         *)
(***************************************************************************)
EXTENDS Integers, FiniteSets, FiniteSetsExt, Functions

CONSTANTS
  Slot,         \* addresses of flow objects
  TCPKey, UDPKey, ICMPKey,   \* flow keys by protocol
  Addr,         \* remote addresses
  RemoteAddr,   \* RemoteAddr[k] is the address of the remote end of key k
  Seq32,        \* initial sequence numbers
  PacketBytes,  \* IP lengths of packets
  MaxFlows,     \* c.maxFlows
  FlowTTL,      \* idle time after which an open flow expires (5 minutes)
  ClosedTTL,    \* the same for a closed flow (1 minute)
  LateWindow,   \* lateEventWindow (2 seconds)
  AttemptIdle,  \* attemptIdle (10 minutes)
  BaseCollector,\* c.interfaceIndex = 0
  MaxPackets,   \* bound: packets captured
  MaxNow        \* bound: clock

Key == TCPKey \cup UDPKey \cup ICMPKey
NoKey == "no key"
End == {"local", "remote"}

ASSUME FlowTableAssumption ==
  /\ IsFiniteSet(Slot) /\ IsFiniteSet(Addr)
  /\ TCPKey \cap UDPKey = {} /\ TCPKey \cap ICMPKey = {} /\ UDPKey \cap ICMPKey = {}
  /\ NoKey \notin Key
  /\ RemoteAddr \in [Key -> Addr]
  /\ Seq32 \subseteq Nat /\ 0 \in Seq32 /\ PacketBytes \subseteq Nat
  /\ MaxFlows \in Nat \ {0}
  /\ Cardinality(Slot) > MaxFlows
  /\ FlowTTL \in Nat /\ ClosedTTL \in Nat /\ LateWindow \in Nat /\ AttemptIdle \in Nat
  /\ BaseCollector \in BOOLEAN
  /\ MaxPackets \in Nat /\ MaxNow \in Nat

VARIABLES
  place,           \* where each flow object is: "flows", "retired" or "free"
  flow,            \* the flow objects
  evictionBlocked, \* c.evictionBlocked
  attempts,        \* c.attempts
  packets, rxBytes, txBytes,    \* c.packets, c.rxBytes, c.txBytes
  unindexedRX, unindexedTX,     \* bytes of packets without a flow
  expiredRX, expiredTX,         \* bytes of removed flows
  droppedFlow,                  \* packets that found the table full
  now                           \* the clock

table == <<place, flow, evictionBlocked, attempts>>
counters == <<packets, rxBytes, txBytes, unindexedRX, unindexedTX,
              expiredRX, expiredTX, droppedFlow>>
vars == <<table, counters, now>>

(***************************************************************************)
(* Data.                                                                   *)
(***************************************************************************)
States == {"", "midstream", "syn", "established", "closing", "closed", "reset"}
Directions == {"unknown", "inbound", "outbound", "first-packet-in", "first-packet-out"}
(* CLIENT: a payload that only a client sends first, a TLS ClientHello, a   *)
(* request line or a QUIC client Initial.                                   *)
Flags == {"SYN", "SYN-ACK", "ACK", "RST", "FIN", "CLIENT", ""}

(* refusals is a history field: how often this flow was counted refused. *)
Flow == [key: Key \cup {NoKey}, TCPState: States, SYNSeen: BOOLEAN, SYNSeq: Seq32,
         SynAck: BOOLEAN, Fin: SUBSET End, Closed: BOOLEAN, Direction: Directions,
         Initiator: End \cup {"none"}, Last: Nat, RX: Nat, TX: Nat, Packets: Nat,
         ICMPError: BOOLEAN, refusals: Nat]

Blank == [key |-> NoKey, TCPState |-> "", SYNSeen |-> FALSE, SYNSeq |-> 0,
          SynAck |-> FALSE, Fin |-> {}, Closed |-> FALSE, Direction |-> "unknown",
          Initiator |-> "none", Last |-> 0, RX |-> 0, TX |-> 0, Packets |-> 0,
          ICMPError |-> FALSE, refusals |-> 0]

(* RST and FIN segments carry ACK too; it changes nothing they leave. *)
TCPPacket == {p \in [src: End, flags: Flags \ {""}, seq: Seq32, bytes: PacketBytes,
                     quoted: {NoKey}, unreachable: {FALSE}] :
                p.flags # "SYN" => p.seq = 0}
UDPPacket == [src: End, flags: {"", "CLIENT"}, seq: {0}, bytes: PacketBytes,
              quoted: {NoKey}, unreachable: {FALSE}]
(* An ICMP error: it quotes a TCP or UDP packet the sender could not deliver. *)
ICMPPacket == [src: End, flags: {""}, seq: {0}, bytes: PacketBytes,
               quoted: TCPKey \cup UDPKey, unreachable: BOOLEAN]
Packet(k) == CASE k \in TCPKey -> TCPPacket
               [] k \in UDPKey -> UDPPacket
               [] k \in ICMPKey -> ICMPPacket

Summary == [known: BOOLEAN, Refused: Nat, Unanswered: Nat, Last: Nat]
NoSummary == [known |-> FALSE, Refused |-> 0, Unanswered |-> 0, Last |-> 0]

Outgoing(p) == p.src = "local"
IsTCP(f) == f.key \in TCPKey
Target(f) == CASE f.Initiator = "local" -> "remote"
               [] f.Initiator = "remote" -> "local"
               [] OTHER -> "none"
Inbound(f) == f.Direction \in {"inbound", "first-packet-in"}
takesEvents(f) == ~f.Closed \/ now - f.Last < LateWindow

disposable(f) ==
  \/ f.key \in TCPKey /\ (f.Closed \/ (f.TCPState = "syn" /\ ~f.SynAck))
  \/ f.key \in UDPKey /\ f.Packets <= 2 /\ (f.RX = 0 \/ f.TX = 0)

(* The slot of c.flows[k], as a set of at most one element. *)
Indexed(pl, fl, k) == {s \in Slot : pl[s] = "flows" /\ fl[s].key = k}
Held(pl) == {s \in Slot : pl[s] # "free"}

(***************************************************************************)
(* noteAttempt, for one refused flow and for a set of unanswered ones.     *)
(* A source gets a summary only while fewer than maxFlows have one; the    *)
(* order in which a sweep reaches its flows is the map's, so any choice of *)
(* the new sources that still fit is possible.                             *)
(***************************************************************************)
Known(a) == {x \in Addr : a[x].known}

noteRefused(a, f) ==
  LET x == RemoteAddr[f.key] IN
  IF Inbound(f) /\ (a[x].known \/ Cardinality(Known(a)) < MaxFlows)
  THEN [a EXCEPT ![x] = [known |-> TRUE, Refused |-> a[x].Refused + 1,
                         Unanswered |-> a[x].Unanswered, Last |-> now]]
  ELSE a

Unanswered(S) == {s \in S : /\ IsTCP(flow[s]) /\ flow[s].TCPState = "syn"
                            /\ ~flow[s].SynAck /\ Inbound(flow[s])}

noteUnanswered(a, S) ==
  LET from(x) == {s \in Unanswered(S) : RemoteAddr[flow[s].key] = x}
      new == {x \in Addr : from(x) # {} /\ ~a[x].known}
      fits(A) == \/ A = new /\ Cardinality(new) + Cardinality(Known(a)) <= MaxFlows
                 \/ Cardinality(A) + Cardinality(Known(a)) = MaxFlows
  IN {[x \in Addr |->
         IF from(x) # {} /\ (a[x].known \/ x \in A)
         THEN [known |-> TRUE, Refused |-> a[x].Refused,
               Unanswered |-> a[x].Unanswered + Cardinality(from(x)), Last |-> now]
         ELSE a[x]] : A \in {B \in SUBSET new : fits(B)}}

(***************************************************************************)
(* expireFlow for a set of flows that leave the table.                     *)
(***************************************************************************)
removed(pl, S) == [s \in Slot |-> IF s \in S THEN "free" ELSE pl[s]]
blanked(S) == [s \in Slot |-> IF s \in S THEN Blank ELSE flow[s]]

received(fl) == [s \in Slot |-> fl[s].RX]
sent(fl) == [s \in Slot |-> fl[s].TX]

expireFlowsRXOnly(S) ==         \* mutant: sent bytes of a removed flow are lost
  /\ expiredRX' = expiredRX + SumFunctionOnSet(received(flow), S)
  /\ expiredTX' = expiredTX

expireFlows(S) ==
  /\ expiredRX' = expiredRX + SumFunctionOnSet(received(flow), S)
  /\ expiredTX' = expiredTX + SumFunctionOnSet(sent(flow), S)

(***************************************************************************)
(* evict: a full table gives up the oldest tenth, plus one, of its         *)
(* disposable flows, unless an earlier sweep found none and nothing became *)
(* disposable since.  Ties on Last are broken by map order.                *)
(***************************************************************************)
FullWithoutRetired(pl) ==       \* mutant: retired flows do not count
  Cardinality({s \in Slot : pl[s] = "flows"}) >= MaxFlows
Full(pl) == Cardinality(Held(pl)) >= MaxFlows
Candidates(pl) == {s \in Slot : pl[s] = "flows" /\ disposable(flow[s])}

evictTenth(pl) ==               \* mutant: a tenth of a small table is nothing
  IF ~Full(pl) \/ evictionBlocked THEN {{}}
  ELSE {E \in SUBSET Candidates(pl) :
          /\ Cardinality(E) = Min({Cardinality(Candidates(pl)), MaxFlows \div 10})
          /\ \A e \in E, c \in Candidates(pl) \ E : flow[e].Last <= flow[c].Last}

evict(pl) ==
  IF ~Full(pl) \/ evictionBlocked THEN {{}}
  ELSE {E \in SUBSET Candidates(pl) :
          /\ Cardinality(E) = Min({Cardinality(Candidates(pl)), MaxFlows \div 10 + 1})
          /\ \A e \in E, c \in Candidates(pl) \ E : flow[e].Last <= flow[c].Last}

blockedBy(pl) == evictionBlocked \/ (Full(pl) /\ Candidates(pl) = {})
neverUnblocked(b, f) == b       \* mutant: the cached flag is never cleared
unblockedBy(b, f) == b /\ ~disposable(f)

(***************************************************************************)
(* packetAt, what a packet does to its flow.                               *)
(***************************************************************************)
newFlow(k) == [Blank EXCEPT !.key = k, !.TCPState = IF k \in TCPKey THEN "midstream" ELSE ""]

countPacket(f, p) ==
  [f EXCEPT !.Last = now, !.Packets = @ + 1,
            !.RX = IF Outgoing(p) THEN @ ELSE @ + p.bytes,
            !.TX = IF Outgoing(p) THEN @ + p.bytes ELSE @]

observeStart(f, p) ==
  IF IsTCP(f) /\ p.flags = "SYN"
  THEN [f EXCEPT !.SYNSeen = TRUE, !.SYNSeq = p.seq, !.TCPState = "syn",
                 !.Initiator = p.src,
                 !.Direction = IF Outgoing(p) THEN "outbound" ELSE "inbound"]
  ELSE IF ~IsTCP(f) /\ f.Initiator = "none"
  THEN [f EXCEPT !.Initiator = p.src,
                 !.Direction = IF Outgoing(p) THEN "first-packet-out" ELSE "first-packet-in"]
  ELSE f

observeAnswer(f, p) ==
  [f EXCEPT !.SynAck = @ \/ (IsTCP(f) /\ p.flags = "SYN-ACK" /\ p.src = Target(f)),
            !.TCPState = IF IsTCP(f) /\ p.flags # "SYN" /\ f.SYNSeen /\ @ = "syn"
                         THEN "established" ELSE @]

(* The payload names the client: of a TCP connection whose SYN was not       *)
(* captured, of a QUIC flow always.                                          *)
observeClient(f, p) ==
  IF p.flags = "CLIENT" /\ (f.Initiator = "none" \/ ~IsTCP(f))
  THEN [f EXCEPT !.Initiator = p.src,
                 !.Direction = IF Outgoing(p) THEN "outbound" ELSE "inbound"]
  ELSE f

refusedByAnyReset(f, p) ==      \* mutant: every reset counts
  IsTCP(f) /\ p.flags = "RST" /\ f.SYNSeen /\ ~f.SynAck /\ p.src = Target(f)

refusedByReset(f, p) ==
  IsTCP(f) /\ p.flags = "RST" /\ ~f.Closed /\ f.SYNSeen /\ ~f.SynAck /\ p.src = Target(f)

refuse(f, yes) == [f EXCEPT !.refusals = IF yes /\ Inbound(f) THEN @ + 1 ELSE @]

observeEnd(f, p) ==
  IF p.flags = "RST" THEN [refuse(f, refusedByReset(f, p)) EXCEPT !.TCPState = "reset", !.Closed = TRUE]
  ELSE IF p.flags = "FIN"
  THEN LET fin == f.Fin \cup {p.src} IN
       [f EXCEPT !.Fin = fin, !.Closed = @ \/ fin = End,
                 !.TCPState = IF fin = End THEN "closed" ELSE "closing"]
  ELSE f

started(f, p) == observeClient(observeAnswer(observeStart(countPacket(f, p), p), p), p)
observe(f, p) == observeEnd(started(f, p), p)

(* icmp: an error also marks the flow it quotes. *)
refusedByICMP(f, p) ==
  p.unreachable /\ ~f.ICMPError /\ f.key \in UDPKey /\ p.src = Target(f)
markICMP(f, p) == [refuse(f, refusedByICMP(f, p)) EXCEPT !.ICMPError = TRUE]

(* The tail of packetAt: slot s takes packet p in the table <<pl, fl>>, with *)
(* a the attempts counted so far and b the eviction flag.                    *)
take(pl, fl, a, b, s, p) ==
  LET r == Indexed(pl, fl, p.quoted)
      f == started(fl[s], p)
  IN /\ place' = pl
     /\ flow' = [x \in Slot |-> IF x = s THEN observe(fl[s], p)
                                ELSE IF x \in r THEN markICMP(fl[x], p) ELSE fl[x]]
     /\ \/ refusedByReset(f, p) /\ attempts' = noteRefused(a, f)
        \/ \E x \in r : refusedByICMP(fl[x], p) /\ attempts' = noteRefused(a, fl[x])
        \/ /\ ~refusedByReset(f, p) /\ ~\E x \in r : refusedByICMP(fl[x], p)
           /\ attempts' = a
     /\ evictionBlocked' = unblockedBy(b, observe(fl[s], p))

(* Every accepted packet is counted first, whatever becomes of it. *)
capture(p) ==
  /\ packets < MaxPackets
  /\ packets' = packets + 1
  /\ rxBytes' = IF Outgoing(p) THEN rxBytes ELSE rxBytes + p.bytes
  /\ txBytes' = IF Outgoing(p) THEN txBytes + p.bytes ELSE txBytes
  /\ UNCHANGED now

priorUnseen(f, p) ==            \* mutant: the sequence number is not compared
  IsTCP(f) /\ p.flags = "SYN" /\ ~f.SYNSeen
(* A SYN that is not the one the flow began with: a new connection. *)
priorGeneration(f, p) == IsTCP(f) /\ p.flags = "SYN" /\ (~f.SYNSeen \/ f.SYNSeq # p.seq)

retire(k, p) ==
  [s \in Slot |-> IF s \in Indexed(place, flow, k) /\ priorGeneration(flow[s], p)
                  THEN "retired" ELSE place[s]]

(***************************************************************************)
(* Actions.                                                                *)
(***************************************************************************)
PacketOnFlow(k, p) ==
  /\ capture(p)
  /\ \E s \in Indexed(place, flow, k) :
       /\ ~priorGeneration(flow[s], p)
       /\ take(place, flow, attempts, evictionBlocked, s, p)
  /\ UNCHANGED <<unindexedRX, unindexedTX, expiredRX, expiredTX, droppedFlow>>

PacketNewFlow(k, p) ==
  /\ capture(p)
  /\ Indexed(retire(k, p), flow, k) = {}
  /\ \E E \in evict(retire(k, p)) :
       /\ ~Full(removed(retire(k, p), E))
       /\ expireFlows(E)
       /\ \E a \in noteUnanswered(attempts, E), s \in Slot :
            /\ place[s] = "free"
            /\ take([removed(retire(k, p), E) EXCEPT ![s] = "flows"],
                    [blanked(E) EXCEPT ![s] = newFlow(k)],
                    a, blockedBy(retire(k, p)), s, p)
  /\ UNCHANGED <<unindexedRX, unindexedTX, droppedFlow>>

(* The table stays full: the packet keeps only its bytes. *)
PacketUnindexed(k, p) ==
  /\ capture(p)
  /\ Indexed(retire(k, p), flow, k) = {}
  /\ \E E \in evict(retire(k, p)) :
       /\ Full(removed(retire(k, p), E))
       /\ expireFlows(E)
       /\ attempts' \in noteUnanswered(attempts, E)
       /\ place' = removed(retire(k, p), E)
       /\ flow' = blanked(E)
  /\ evictionBlocked' = blockedBy(retire(k, p))
  /\ droppedFlow' = droppedFlow + 1
  /\ unindexedRX' = IF Outgoing(p) THEN unindexedRX ELSE unindexedRX + p.bytes
  /\ unindexedTX' = IF Outgoing(p) THEN unindexedTX + p.bytes ELSE unindexedTX

(* connectResult: the outcome of a local connect.  A flow that closed too   *)
(* long ago belongs to an older connection; only the base collector keeps   *)
(* connections no packet was seen of.                                       *)
withResult(f, failed) == IF failed THEN [f EXCEPT !.Closed = TRUE, !.Last = now] ELSE f

ConnectResultOnFlow(k, failed) ==
  /\ \E s \in Indexed(place, flow, k) :
       /\ takesEvents(flow[s])
       /\ flow' = [flow EXCEPT ![s] = withResult(@, failed)]
       /\ evictionBlocked' = unblockedBy(evictionBlocked, withResult(flow[s], failed))
  /\ UNCHANGED <<place, attempts, counters, now>>

staleRetired(k) ==
  [s \in Slot |-> IF s \in Indexed(place, flow, k) /\ ~takesEvents(flow[s])
                  THEN "retired" ELSE place[s]]
probeFlow(k) == [Blank EXCEPT !.key = k, !.Initiator = "local", !.Last = now,
                              !.TCPState = "syn", !.Direction = "outbound"]

ConnectResultNewFlow(k, failed) ==
  /\ BaseCollector
  /\ Indexed(staleRetired(k), flow, k) = {}
  /\ \E E \in evict(staleRetired(k)) :
       /\ expireFlows(E)
       /\ attempts' \in noteUnanswered(attempts, E)
       /\ \/ /\ Full(removed(staleRetired(k), E))
             /\ place' = removed(staleRetired(k), E)
             /\ flow' = blanked(E)
             /\ evictionBlocked' = blockedBy(staleRetired(k))
          \/ /\ ~Full(removed(staleRetired(k), E))
             /\ \E s \in Slot :
                  /\ place[s] = "free"
                  /\ place' = [removed(staleRetired(k), E) EXCEPT ![s] = "flows"]
                  /\ flow' = [blanked(E) EXCEPT ![s] = withResult(probeFlow(k), failed)]
             /\ evictionBlocked' = unblockedBy(blockedBy(staleRetired(k)),
                                               withResult(probeFlow(k), failed))
  /\ UNCHANGED <<packets, rxBytes, txBytes, unindexedRX, unindexedTX, droppedFlow, now>>

(* recordDrop: a kernel drop report refreshes its flow; the first collector *)
(* of a namespace creates one for a socket it knows, and never evicts.      *)
RecordDropOnFlow(k) ==
  /\ \E s \in Indexed(place, flow, k) : flow' = [flow EXCEPT ![s].Last = now]
  /\ UNCHANGED <<place, evictionBlocked, attempts, counters, now>>

droppedPacketFlow(k, src) ==
  [newFlow(k) EXCEPT !.Initiator = src, !.Last = now]

RecordDropNewFlow(k, src) ==
  /\ BaseCollector
  /\ Indexed(place, flow, k) = {}
  /\ ~Full(place)
  /\ \E s \in Slot :
       /\ place[s] = "free"
       /\ place' = [place EXCEPT ![s] = "flows"]
       /\ flow' = [flow EXCEPT ![s] = droppedPacketFlow(k, src)]
  /\ evictionBlocked' = unblockedBy(evictionBlocked, droppedPacketFlow(k, src))
  /\ UNCHANGED <<attempts, counters, now>>

(* eventAt: the role a socket event reports settles what the packets of a   *)
(* TCP flow left open; an event of another process than the known one is    *)
(* ignored, which leaves the step out.                                      *)
withRole(f, initiator) ==
  [f EXCEPT !.Direction = IF @ # "unknown" THEN @
                          ELSE IF initiator = "local" THEN "outbound" ELSE "inbound",
            !.Initiator = IF @ = "none" THEN initiator ELSE @]

SocketEventOnFlow(k, initiator) ==
  /\ \E s \in Indexed(place, flow, k) :
       /\ takesEvents(flow[s])
       /\ flow' = [flow EXCEPT ![s] = withRole(@, initiator)]
  /\ UNCHANGED <<place, evictionBlocked, attempts, counters, now>>

(* applySocketInventory: one scan of the sockets names the initiator of the *)
(* TCP flows without one, as far as their sockets are found.                *)
uninitiated == {s \in Slot : place[s] = "flows" /\ IsTCP(flow[s]) /\ flow[s].Initiator = "none"}
withInventory(f, initiator) ==
  IF initiator = "none" THEN f
  ELSE [f EXCEPT !.Initiator = initiator,
                 !.Direction = IF initiator = "local" THEN "outbound" ELSE "inbound"]

ApplySocketInventory ==
  /\ \E initiator \in [uninitiated -> End \cup {"none"}] :
       flow' = [s \in Slot |-> IF s \in uninitiated THEN withInventory(flow[s], initiator[s])
                                ELSE flow[s]]
  /\ UNCHANGED <<place, evictionBlocked, attempts, counters, now>>

(* expire: the periodic sweep.  Attempt summaries go before the flows that  *)
(* may still add to them.                                                   *)
ttl(f) == IF f.Closed THEN ClosedTTL ELSE FlowTTL
idle == {s \in Slot : place[s] # "free" /\ now - flow[s].Last > ttl(flow[s])}
currentAttempts ==
  [x \in Addr |-> IF attempts[x].known /\ now - attempts[x].Last > AttemptIdle
                  THEN NoSummary ELSE attempts[x]]

Expire ==
  /\ place' = removed(place, idle)
  /\ flow' = blanked(idle)
  /\ expireFlows(idle)
  /\ attempts' \in noteUnanswered(currentAttempts, idle)
  /\ UNCHANGED <<evictionBlocked, packets, rxBytes, txBytes, unindexedRX, unindexedTX,
                 droppedFlow, now>>

Tick == now < MaxNow /\ now' = now + 1 /\ UNCHANGED <<table, counters>>

Init ==
  /\ place = [s \in Slot |-> "free"]
  /\ flow = [s \in Slot |-> Blank]
  /\ evictionBlocked = FALSE
  /\ attempts = [x \in Addr |-> NoSummary]
  /\ packets = 0 /\ rxBytes = 0 /\ txBytes = 0
  /\ unindexedRX = 0 /\ unindexedTX = 0
  /\ expiredRX = 0 /\ expiredTX = 0
  /\ droppedFlow = 0 /\ now = 0

Next ==
  \/ \E k \in Key : \E p \in Packet(k) : PacketOnFlow(k, p)
  \/ \E k \in Key : \E p \in Packet(k) : PacketNewFlow(k, p)
  \/ \E k \in Key : \E p \in Packet(k) : PacketUnindexed(k, p)
  \/ \E k \in TCPKey, failed \in BOOLEAN : ConnectResultOnFlow(k, failed)
  \/ \E k \in TCPKey, failed \in BOOLEAN : ConnectResultNewFlow(k, failed)
  \/ \E k \in TCPKey \cup UDPKey : RecordDropOnFlow(k)
  \/ \E k \in TCPKey \cup UDPKey, src \in End : RecordDropNewFlow(k, src)
  \/ \E k \in TCPKey, initiator \in End : SocketEventOnFlow(k, initiator)
  \/ ApplySocketInventory
  \/ Expire
  \/ Tick

Spec == Init /\ [][Next]_vars

(***************************************************************************)
(* Properties.                                                             *)
(***************************************************************************)

(* Every variable has its type.  The expired totals are sums over sets of   *)
(* flows; that they are numbers follows from BytesConserved.                *)
TypeOK ==
  /\ place \in [Slot -> {"free", "flows", "retired"}]
  /\ flow \in [Slot -> Flow]
  /\ evictionBlocked \in BOOLEAN
  /\ attempts \in [Addr -> Summary]
  /\ packets \in 0..MaxPackets
  /\ rxBytes \in Nat /\ txBytes \in Nat
  /\ unindexedRX \in Nat /\ unindexedTX \in Nat
  /\ droppedFlow \in Nat
  /\ now \in 0..MaxNow

(* c.flows is a map: a key never has two indexed flow objects, also across  *)
(* the retire-and-recreate of a reused five-tuple (packetAt, connectResult).*)
OneFlowPerKey ==
  \A s, t \in Slot : place[s] = "flows" /\ place[t] = "flows" /\ flow[s].key = flow[t].key
                     => s = t

(* The memory bound of the collector: indexed and retired flows together    *)
(* never exceed maxFlows, although retiring, evicting and creating are      *)
(* spread over packetAt, connectResult and recordDrop.                      *)
TableBound == Cardinality(Held(place)) <= MaxFlows

(* The attempt summaries obey the same bound (noteAttempt), also when one   *)
(* sweep adds several sources at once.                                      *)
AttemptsBound == Cardinality(Known(attempts)) <= MaxFlows

(* evictionBlocked caches "no indexed flow is disposable": evict skips its  *)
(* scan on it, so a stale TRUE would drop packets although room can be made.*)
BlockedMeansNoCandidate == evictionBlocked => Candidates(place) = {}

(* No byte is lost or counted twice: what the interface received is in an   *)
(* indexed flow, a retired flow, the expired totals or the unindexed totals *)
(* (packetAt, evict, expire, expireFlow).                                   *)
BytesConserved ==
  /\ rxBytes = expiredRX + unindexedRX + SumFunctionOnSet(received(flow), Held(place))
  /\ txBytes = expiredTX + unindexedTX + SumFunctionOnSet(sent(flow), Held(place))

(* One attempt is counted refused at most once, however often the target    *)
(* resets it or an ICMP error quotes it (packetAt, icmp).                   *)
RefusedOnce == \A s \in Slot : flow[s].refusals <= 1

(* A connection keeps its identity: the sequence number of the SYN that     *)
(* opened it never changes, a closed flow never reopens, and a retired flow *)
(* is frozen until it expires; a reused five-tuple gets a flow of its own.  *)
Generations ==
  [][\A s \in Slot :
       /\ place[s] = "flows" /\ place'[s] # "free" =>
            /\ flow'[s].key = flow[s].key
            /\ flow[s].SYNSeen => flow'[s].SYNSeen /\ flow'[s].SYNSeq = flow[s].SYNSeq
            /\ flow[s].Closed => flow'[s].Closed
       /\ place[s] = "retired" =>
            place'[s] = "free" \/ (place'[s] = "retired" /\ flow'[s] = flow[s])]_vars

(* A packet goes without a flow only when every indexed flow is worth       *)
(* keeping: neither the cached flag nor the size of one eviction sweep ever *)
(* turns away a packet that a disposable flow could have made room for.     *)
DropsOnlyWithoutCandidates ==
  [][droppedFlow' > droppedFlow => Candidates(place') = {}]_vars
=============================================================================
