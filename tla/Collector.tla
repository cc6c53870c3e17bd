------------------------------- MODULE Collector -------------------------------
(***************************************************************************)
(* What a collector keeps of its connections (internal/app): the bytes of   *)
(* processes and flows (SocketIO), and side by side with them the two        *)
(* participants of a five-tuple (Attribution), the name its connections show *)
(* (Names), the names of addresses (DNSCache), the health of a TCP           *)
(* connection (TCPHealth) and what the NAT table of the namespace says of    *)
(* tuples (NATTable).  They share no state.                                 *)
(***************************************************************************)
EXTENDS SocketIO

CONSTANTS
  Owner, Nobody, A_LateWindow, A_Reuse, A_Lag, RoleTTL, A_ClosedTTL, A_IdleTTL, A_MaxConns, A_MaxNow,
  N_LateWindow, PendingTLS, PendingSocket, N_Reuse, N_Lag, N_MaxConns, N_MaxNow,
  Addresses, DNSNames, MaxAddresses, MaxNames, HintAge, Slack, D_MaxConns, D_MaxNow,
  Space, First, Window, Gap, Longest, Tracked, Second, MaxHZ, MaxTop, MaxRepeats, MaxReports, H_MaxNow,
  FromClient, FromServer, NoTuple,  \* tuples of the client's packets and of those the server sees
  MaxEntries, Queue, Results, T_Idle, MaxOpens, MaxFails, T_MaxNow
VARIABLES
  A_conns, A_wire, ring, conn, role, roleSeen, A_clock,
  N_conns, N_wire, tls, sockets, flow, pendingTLS, pendingSocket, N_clock,
  answers, seen, D_conns, D_now,
  health, top, spans, repeats, firstSYN, H_now, kernel, socket, reports, taken,
  open, tracked, asked, T_answers, T_flows, requests, lookup, seq, results, entries, made, T_now,
  opens, fails, missed

A == INSTANCE Attribution WITH
  LateWindow <- A_LateWindow, Reuse <- A_Reuse, Lag <- A_Lag, ClosedTTL <- A_ClosedTTL,
  IdleTTL <- A_IdleTTL, MaxConns <- A_MaxConns, MaxNow <- A_MaxNow,
  conns <- A_conns, wire <- A_wire, clock <- A_clock
N == INSTANCE Names WITH
  LateWindow <- N_LateWindow, Reuse <- N_Reuse, Lag <- N_Lag, MaxConns <- N_MaxConns,
  MaxNow <- N_MaxNow, conns <- N_conns, wire <- N_wire, clock <- N_clock
D == INSTANCE DNSCache WITH
  Names <- DNSNames, MaxConns <- D_MaxConns, MaxNow <- D_MaxNow, conns <- D_conns, now <- D_now
H == INSTANCE TCPHealth WITH MaxNow <- H_MaxNow, now <- H_now
T == INSTANCE NATTable WITH
  Tuples <- FromClient \cup FromServer, None <- NoTuple,
  Translations <- [orig : FromClient, reply : FromServer],
  Idle <- T_Idle, MaxNow <- T_MaxNow, answers <- T_answers, flows <- T_flows, now <- T_now

participants == <<A_conns, A_wire, ring, conn, role, roleSeen, A_clock>>
names == <<N_conns, N_wire, tls, sockets, flow, pendingTLS, pendingSocket, N_clock>>
hints == <<answers, seen, D_conns, D_now>>
tcp == <<health, top, spans, repeats, firstSYN, H_now, kernel, socket, reports, taken>>
translations == <<open, tracked, asked, T_answers, T_flows, requests, lookup, seq, results, entries,
                  made, T_now, opens, fails, missed>>
all == <<vars, participants, names, hints, tcp, translations>>

(* A five-tuple is used again only when the packets and events of the         *)
(* connection before it have been read, and what waits for a flow is given up *)
(* by then: a port in TIME_WAIT is not used again for longer than these       *)
(* windows (lateEventWindow and its like are 2 seconds).  A segment is less    *)
(* than half of all sequence numbers late.                                   *)
ASSUME CollectorAssumption ==
  /\ {A_LateWindow, A_Reuse, A_Lag} \subseteq Nat
  /\ A_LateWindow > 0 /\ A_LateWindow + A_Lag <= A_Reuse
  /\ {N_LateWindow, PendingTLS, PendingSocket, N_Reuse, N_Lag} \subseteq Nat
  /\ N_LateWindow + N_Lag <= N_Reuse
  /\ PendingTLS + N_Lag < N_Reuse /\ PendingSocket + N_Lag < N_Reuse
  /\ Nobody \notin Owner
  /\ {Space, Tracked} \subseteq Nat \ {0} /\ {First, Window, Gap, Longest, MaxHZ} \subseteq Nat
  /\ Window <= H!Half
  /\ NoTuple \notin FromClient \cup FromServer

CollectorInit == Init /\ A!Init /\ N!Init /\ D!Init /\ H!Init /\ T!Init
CollectorNext ==
  \/ Next /\ UNCHANGED <<participants, names, hints, tcp, translations>>
  \/ A!Next /\ UNCHANGED <<vars, names, hints, tcp, translations>>
  \/ N!Next /\ UNCHANGED <<vars, participants, hints, tcp, translations>>
  \/ D!Next /\ UNCHANGED <<vars, participants, names, tcp, translations>>
  \/ H!Next /\ UNCHANGED <<vars, participants, names, hints, translations>>
  \/ T!Next /\ UNCHANGED <<vars, participants, names, hints, tcp>>
CollectorSpec == CollectorInit /\ [][CollectorNext]_all

(***************************************************************************)
(* Properties.                                                             *)
(***************************************************************************)

(* A participant that is known stays for as long as the flow does: an event  *)
(* of another generation of the tuple does not rename it (eventAt).          *)
KnownStays == [][A!keepsTheKnown]_participants

(* An inbound connection seen from its SYN is never shown with the process   *)
(* of an earlier connection of the five-tuple, in whatever order packets and *)
(* events are read and whichever events are lost (packetAt, eventAt).        *)
InboundOwn == A!InboundOwn

(* A flow shows the strongest name it has, in whatever order the evidence     *)
(* comes and goes, and the name its process gave is of its own connection,    *)
(* however five-tuples are used again (chooseDomain, tlsEvent).  A hint is a  *)
(* name its peer had resolved to by then (DNSCache.Lookup).                   *)
NameShown == N!ShowsTheStrongest /\ N!ProcessNameIsOwn /\ D!Hints

(* The guesses from captured packets count what came again, the round trip    *)
(* is that of the handshake, and a socket's counters and sample are the       *)
(* latest whatever the order of the events (tcpHealth).                       *)
HealthAsSeen == H!CaptureCounts /\ H!RoundTrip /\ H!KernelIsLatest

(* A translated connection is linked, or its lookup under way, unless that was *)
(* skipped, failed or too early (natFlow, resolve, Lookup).                   *)
NoneLost == T!NoneLost
=============================================================================
