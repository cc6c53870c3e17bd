---------------------------- MODULE Attribution ----------------------------
(***************************************************************************)
(* Whose connection is it?  (internal/app: the roles of eventAt, packetAt   *)
(* and expire, linked to the order in which tcp_v4_connect and accept of    *)
(* probe/pid.bpf.c report.)  One TCP five-tuple is used by one connection   *)
(* after another.  Packets and process events come through two queues that  *)
(* the main loop drains in no fixed order; events may be lost.              *)
(***************************************************************************)
EXTENDS Integers, Sequences, FiniteSets

CONSTANTS
  Owner,      \* processes, a PID with its start time
  Nobody,
  LateWindow, \* lateEventWindow; also the age at which a role is stale for an inbound SYN
  Reuse,      \* how soon a five-tuple is used again
  Lag,        \* how long packets and events stay in their queues
  RoleTTL,    \* how long roles stay (1 minute)
  ClosedTTL, IdleTTL,
  MaxConns,   \* bound: connections
  MaxNow      \* bound: clock

Side == {"client", "server"}
NoOne == [s \in Side |-> Nobody]
None == [gen |-> 0]

VARIABLES
  conns,    \* what happens: the connections on the tuple so far
  wire,     \* packets that are captured and not yet taken
  ring,     \* process events that are reported and not yet taken
  conn,     \* c.flows: the indexed flow, or None
  role, roleSeen, \* c.roles, c.roleSeen
  clock

avars == <<conns, wire, ring, conn, role, roleSeen, clock>>

(* The side of a connection that is on this host. *)
local(c) == IF c.outgoing THEN "client" ELSE "server"
takesEvents(f) == ~f.closed \/ clock - f.last < LateWindow

(***************************************************************************)
(* What the host does.                                                     *)
(***************************************************************************)
last == conns[Len(conns)]

(* tcp_v4_connect reports when it returns, the SYN has been sent then; an    *)
(* inbound connection is reported by accept.  The end that chose the port    *)
(* stays the same.                                                           *)
Open(p, outgoing) ==
  /\ Len(conns) < MaxConns
  /\ conns # <<>> => last.ended /\ clock - last.at >= Reuse /\ outgoing = last.outgoing
  /\ conns' = Append(conns, [outgoing |-> outgoing, owner |-> p, known |-> FALSE, ended |-> FALSE, at |-> clock])
  /\ wire' = Append(wire, [kind |-> "syn", gen |-> Len(conns) + 1, at |-> clock])
  /\ UNCHANGED <<ring, conn, role, roleSeen, clock>>

Report ==
  /\ conns # <<>> /\ ~last.known /\ ~last.ended
  /\ conns' = [conns EXCEPT ![Len(conns)].known = TRUE]
  /\ \E lost \in BOOLEAN :
       ring' = IF lost THEN ring ELSE Append(ring, [gen |-> Len(conns), at |-> clock])
  /\ UNCHANGED <<wire, conn, role, roleSeen, clock>>

Send(kind) ==
  /\ kind \in {"data", "end"}
  /\ conns # <<>> /\ ~last.ended
  /\ kind = "data" => \A i \in DOMAIN wire : wire[i].kind # "data"
  /\ conns' = [conns EXCEPT ![Len(conns)].ended = (kind = "end"), ![Len(conns)].at = clock]
  /\ \E lost \in {FALSE, kind = "data"} :
       wire' = IF lost THEN wire ELSE Append(wire, [kind |-> kind, gen |-> Len(conns), at |-> clock])
  /\ UNCHANGED <<ring, conn, role, roleSeen, clock>>

Tick ==
  /\ clock < MaxNow /\ clock' = clock + 1
  /\ \A i \in DOMAIN wire : clock - wire[i].at < Lag
  /\ \A i \in DOMAIN ring : clock - ring[i].at < Lag
  /\ UNCHANGED <<conns, wire, ring, conn, role, roleSeen>>

(***************************************************************************)
(* What the main loop does.                                                *)
(***************************************************************************)
inheritsAnyRole(prior, inboundSYN) == role # NoOne   \* mutant: no care for inbound
inheritsRole(prior, inboundSYN) ==
  role # NoOne /\ (inboundSYN => ~prior /\ clock - roleSeen < LateWindow)

(* packetAt: a SYN of another generation replaces the flow. *)
Packet ==
  /\ wire # <<>> /\ wire' = Tail(wire)
  /\ LET p == Head(wire)
         c == conns[p.gen]
         prior == conn # None /\ p.kind = "syn" /\ conn.syn # p.gen
         who == IF inheritsRole(prior, p.kind = "syn" /\ ~c.outgoing) THEN role ELSE NoOne
         fresh == [gen |-> p.gen, syn |-> IF p.kind = "syn" THEN p.gen ELSE 0, who |-> who,
                   closed |-> FALSE, last |-> clock]
         f == IF conn = None \/ prior THEN fresh ELSE conn
     IN conn' = [f EXCEPT !.last = clock, !.closed = @ \/ p.kind = "end"]
  /\ UNCHANGED <<conns, ring, role, roleSeen, clock>>

(* The role of the event is kept; the flow takes it unless it is known. *)
namedByAnyone(f, side, p) == TRUE   \* mutant: the last event wins
namedBy(f, side, p) == f.who[side] \in {Nobody, p}
roleAfter(side, p) == IF side = "client" THEN [NoOne EXCEPT !.client = p] ELSE [role EXCEPT !.server = p]
Event ==
  /\ ring # <<>> /\ ring' = Tail(ring)
  /\ LET c == conns[Head(ring).gen]
         side == local(c)
         r == roleAfter(side, c.owner)
     IN /\ role' = r /\ roleSeen' = clock
        /\ conn' = IF conn # None /\ takesEvents(conn) /\ namedBy(conn, side, c.owner)
                     THEN [conn EXCEPT !.who[side] = r[side]] ELSE conn
  /\ UNCHANGED <<conns, wire, clock>>

(* expire, and evict of a full table. *)
ExpireRoles ==
  /\ role # NoOne /\ clock - roleSeen > RoleTTL
  /\ role' = NoOne
  /\ UNCHANGED <<conns, wire, ring, conn, roleSeen, clock>>
ExpireFlow ==
  /\ conn # None /\ clock - conn.last > IF conn.closed THEN ClosedTTL ELSE IdleTTL
  /\ conn' = None
  /\ UNCHANGED <<conns, wire, ring, role, roleSeen, clock>>
Evict ==
  /\ conn # None /\ conn.closed
  /\ conn' = None
  /\ UNCHANGED <<conns, wire, ring, role, roleSeen, clock>>

Init ==
  /\ conns = <<>> /\ wire = <<>> /\ ring = <<>>
  /\ conn = None /\ role = NoOne /\ roleSeen = 0 /\ clock = 0

Next ==
  \/ \E p \in Owner, outgoing \in BOOLEAN : Open(p, outgoing)
  \/ Report
  \/ \E kind \in {"data", "end"} : Send(kind)
  \/ Tick
  \/ Packet
  \/ Event
  \/ ExpireRoles
  \/ ExpireFlow
  \/ Evict

Spec == Init /\ [][Next]_avars

(***************************************************************************)
(* Properties.                                                             *)
(***************************************************************************)
own == conns[conn.syn]

(* A participant that is known stays for as long as the flow does: an event  *)
(* of another generation of the tuple does not rename it (eventAt).          *)
keepsTheKnown ==
  \A s \in Side : conn # None /\ conn'.gen = conn.gen /\ conn.who[s] # Nobody
     => conn'.who[s] = conn.who[s]
KnownStays == [][keepsTheKnown]_conn

(* An inbound connection seen from its SYN is never shown with the process   *)
(* of an earlier connection of the five-tuple, in whatever order packets and *)
(* events are read and whichever events are lost (packetAt, eventAt).        *)
InboundOwn ==
  conn # None /\ conn.syn # 0 /\ ~own.outgoing => conn.who["server"] \in {Nobody, own.owner}
=============================================================================
