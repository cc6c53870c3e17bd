---------------------------- MODULE CollectorProofs ----------------------------
(***************************************************************************)
(* Theorems about a collector: whose a connection is, whatever five-tuples   *)
(* are used again; what the NAT table says of tuples; and where the bytes    *)
(* the probe reported went.  For any processes, five-tuples, windows, queues  *)
(* and numbers of connections and flows.                                    *)
(***************************************************************************)
EXTENDS Collector, Sums, Sequences

(***************************************************************************)
(* Sequences as the proofs use them: appending and taking the head.        *)
(***************************************************************************)
LEMMA Appended ==
  ASSUME NEW S, NEW s \in Seq(S), NEW x \in S
  PROVE  /\ Append(s, x) \in Seq(S) /\ Len(Append(s, x)) = Len(s) + 1 /\ Len(s) \in Nat
         /\ \A i \in 1..Len(s) : Append(s, x)[i] = s[i]
         /\ Append(s, x)[Len(s) + 1] = x
  OBVIOUS

LEMMA Tailed ==
  ASSUME NEW S, NEW s \in Seq(S), s # <<>>
  PROVE  /\ Tail(s) \in Seq(S) /\ Len(Tail(s)) = Len(s) - 1 /\ Len(s) \in Nat \ {0}
         /\ \A i \in 1..Len(Tail(s)) : Tail(s)[i] = s[i + 1]
         /\ Head(s) = s[1] /\ s[1] \in S
  OBVIOUS

LEMMA Elements ==
  ASSUME NEW S, NEW s \in Seq(S)
  PROVE  Len(s) \in Nat /\ DOMAIN s = 1..Len(s) /\ \A i \in 1..Len(s) : s[i] \in S
  OBVIOUS

(***************************************************************************)
(* The participants of a five-tuple: the inductive invariant.              *)
(***************************************************************************)
Party == Owner \cup {Nobody}
Connections == [outgoing : BOOLEAN, owner : Owner, known : BOOLEAN, ended : BOOLEAN, at : Nat]
Packets == [kind : {"syn", "data", "end"}, gen : Nat, at : Nat]
Events == [gen : Nat, at : Nat]
Conn == [gen : Nat \ {0}, syn : Nat, who : [A!Side -> Party], closed : BOOLEAN, last : Nat]

PartiesType ==
  /\ A_conns \in Seq(Connections) /\ A_wire \in Seq(Packets) /\ ring \in Seq(Events)
  /\ conn \in Conn \cup {A!None}
  /\ role \in [A!Side -> Party] /\ roleSeen \in Nat /\ A_clock \in Nat

(* Connections follow one another, far enough apart, in one direction. *)
Sequel ==
  /\ \A g \in 1..Len(A_conns) :
       A_conns[g].at <= A_clock /\ (g < Len(A_conns) => A_conns[g].ended)
  /\ \A g, h \in 1..Len(A_conns) :
       /\ A_conns[g].outgoing = A_conns[h].outgoing
       /\ h < g => A_conns[h].at + A_Reuse <= A_conns[g].at

(* What was sent at a time by connection g: after those before it, and no     *)
(* later than its end.                                                       *)
Sent(g, at) ==
  /\ g \in 1..Len(A_conns) /\ at <= A_clock
  /\ A_conns[g].ended => at <= A_conns[g].at
  /\ \A h \in 1..Len(A_conns) : h < g => A_conns[h].at + A_Reuse <= at
Fresh(queue) ==
  \A i \in 1..Len(queue) : Sent(queue[i].gen, queue[i].at) /\ A_clock <= queue[i].at + A_Lag

(* The wire has the packets of one connection after those of another, from    *)
(* the SYN to the end; the flow is of none that is still to come.            *)
InOrder ==
  /\ \A i, j \in 1..Len(A_wire) : i < j =>
       /\ A_wire[i].gen <= A_wire[j].gen
       /\ A_wire[j].kind = "syn" => A_wire[i].gen < A_wire[j].gen
  /\ \A i \in 1..Len(A_wire) :
       A_conns[A_wire[i].gen].ended /\ A_wire[i].kind # "end" =>
         \E j \in 1..Len(A_wire) : i < j /\ A_wire[j].kind = "end" /\ A_wire[j].gen = A_wire[i].gen
  /\ conn # A!None => \A i \in 1..Len(A_wire) :
       conn.gen <= A_wire[i].gen /\ (A_wire[i].kind = "syn" => conn.gen < A_wire[i].gen)

(* The SYN of connection g is before place j of the wire, or was taken and    *)
(* the flow, if there is one, is of g.                                       *)
Begun(g, j) ==
  \/ \E k \in 1..Len(A_wire) : k < j /\ A_wire[k].kind = "syn" /\ A_wire[k].gen = g
  \/ /\ \A i \in 1..Len(A_wire) : i < j => A_wire[i].gen = g
     /\ conn = A!None \/ conn.gen = g
AllBegun ==
  /\ \A j \in 1..Len(A_wire) : A_wire[j].kind # "syn" => Begun(A_wire[j].gen, j)
  /\ Len(A_conns) > 0 => Begun(Len(A_conns), Len(A_wire) + 1)

(* The flow: closed once its connection has ended and all of it was taken.   *)
FlowInTime ==
  conn # A!None =>
    /\ conn.gen \in 1..Len(A_conns) /\ conn.syn \in {0, conn.gen} /\ conn.last <= A_clock
    /\ A_conns[conn.gen].ended =>
         /\ conn.last <= A_conns[conn.gen].at + A_Lag
         /\ \/ conn.closed
            \/ \E i \in 1..Len(A_wire) : A_wire[i].kind = "end" /\ A_wire[i].gen = conn.gen

(* The role kept of inbound connections is of the last whose event was taken. *)
RoleInTime ==
  /\ roleSeen <= A_clock
  /\ role["server"] # Nobody /\ (\A g \in 1..Len(A_conns) : ~A_conns[g].outgoing) =>
      \E e \in 1..Len(A_conns) :
        /\ role["server"] = A_conns[e].owner
        /\ A_conns[e].ended => roleSeen <= A_conns[e].at + A_Lag
        /\ \A h \in 1..Len(A_conns) : h < e => A_conns[h].at + A_Reuse <= roleSeen

PartiesInv ==
  /\ PartiesType /\ Sequel /\ Fresh(A_wire) /\ Fresh(ring) /\ InOrder /\ AllBegun
  /\ FlowInTime /\ RoleInTime /\ InboundOwn

LEMMA PartiesInit == A!Init => PartiesInv
<1> SUFFICES ASSUME A!Init PROVE PartiesInv
  OBVIOUS
<1>1. /\ A_conns = <<>> /\ A_wire = <<>> /\ ring = <<>> /\ conn = A!None
      /\ role = [s \in A!Side |-> Nobody] /\ roleSeen = 0 /\ A_clock = 0
  BY DEF A!Init, A!NoOne
<1>2. Len(A_conns) = 0 /\ Len(A_wire) = 0 /\ Len(ring) = 0 /\ role["server"] = Nobody
  BY <1>1 DEF A!Side
<1>3. PartiesType
  BY <1>1 DEF PartiesType, Party
<1>4. Sequel /\ Fresh(A_wire) /\ Fresh(ring) /\ InOrder /\ AllBegun
  BY <1>1, <1>2 DEF Sequel, Fresh, InOrder, AllBegun
<1>5. QED BY <1>1, <1>2, <1>3, <1>4 DEF PartiesInv, FlowInTime, RoleInTime, InboundOwn, A!InboundOwn

LEMMA Windows ==
  /\ A_LateWindow \in Nat /\ A_Reuse \in Nat /\ A_Lag \in Nat
  /\ A_LateWindow > 0 /\ A_LateWindow + A_Lag <= A_Reuse
  BY CollectorAssumption

(* What was sent once was sent still when time passes and connections come.  *)
LEMMA SentStays ==
  ASSUME NEW g, NEW at \in Nat, Sent(g, at), PartiesType, PartiesType', A_clock <= A_clock',
         Len(A_conns) <= Len(A_conns'),
         \A h \in 1..Len(A_conns) : h < Len(A_conns) =>
            A_conns'[h].at = A_conns[h].at /\ A_conns'[h].ended = A_conns[h].ended,
         A_conns'[g].ended => at <= A_conns'[g].at
  PROVE  Sent(g, at)'
<1>1. Len(A_conns) \in Nat /\ Len(A_conns') \in Nat /\ A_clock \in Nat /\ A_clock' \in Nat
  BY Elements DEF PartiesType
<1>2. g \in 1..Len(A_conns) /\ at <= A_clock
      /\ \A h \in 1..Len(A_conns) : h < g => A_conns[h].at + A_Reuse <= at
  BY DEF Sent
<1>3. \A h \in 1..Len(A_conns') : h < g => h \in 1..Len(A_conns) /\ h < Len(A_conns)
  BY <1>1, <1>2
<1>4. \A h \in 1..Len(A_conns') : h < g => A_conns'[h].at + A_Reuse <= at
  BY <1>2, <1>3
<1>5. QED BY <1>1, <1>2, <1>4 DEF Sent

LEMMA FreshStays ==
  ASSUME NEW q \in Seq(Packets) \cup Seq(Events), Fresh(q), PartiesType, PartiesType', A_clock' = A_clock,
         Len(A_conns) <= Len(A_conns'),
         \A h \in 1..Len(A_conns) : h < Len(A_conns) =>
            A_conns'[h].at = A_conns[h].at /\ A_conns'[h].ended = A_conns[h].ended,
         \A h \in 1..Len(A_conns) : A_conns'[h].ended =>
            A_conns'[h].at = A_clock \/ (A_conns'[h].at = A_conns[h].at /\ A_conns[h].ended)
  PROVE  \A i \in 1..Len(q) : Sent(q[i].gen, q[i].at)' /\ A_clock' <= q[i].at + A_Lag
<1>1. ASSUME NEW i \in 1..Len(q) PROVE Sent(q[i].gen, q[i].at)' /\ A_clock' <= q[i].at + A_Lag
  <2>1. PICK at \in Nat : at = q[i].at
    <3>1. q[i] \in Packets \cup Events
      BY Elements
    <3>2. QED BY <3>1 DEF Packets, Events
  <2>2. PICK g : g = q[i].gen
    OBVIOUS
  <2>3. Sent(g, at) /\ A_clock <= at + A_Lag
    BY <2>1, <2>2 DEF Fresh
  <2>4. g \in 1..Len(A_conns) /\ at <= A_clock /\ (A_conns[g].ended => at <= A_conns[g].at)
    BY <2>3 DEF Sent
  <2>5. A_conns'[g].ended => at <= A_conns'[g].at
    BY <2>4
  <2>6. A_clock <= A_clock'
    BY DEF PartiesType
  <2>7. Sent(g, at)'
    BY <2>3, <2>5, <2>6, SentStays
  <2>8. QED BY <2>1, <2>2, <2>3, <2>7
<1>2. QED BY <1>1

LEMMA OpenStep ==
  ASSUME PartiesInv, NEW p \in Owner, NEW outgoing \in BOOLEAN, A!Open(p, outgoing)
  PROVE  PartiesInv'
<1> USE DEF PartiesInv
<1>a. PICK n \in Nat : n = Len(A_conns)
  BY Elements DEF PartiesType
<1>b. PICK m \in Nat : m = Len(A_wire)
  BY Elements DEF PartiesType
<1> DEFINE c == [outgoing |-> outgoing, owner |-> p, known |-> FALSE, ended |-> FALSE, at |-> A_clock]
           x == [kind |-> "syn", gen |-> n + 1, at |-> A_clock]
<1>1. /\ A_conns' = Append(A_conns, c) /\ A_wire' = Append(A_wire, x)
      /\ UNCHANGED <<ring, conn, role, roleSeen, A_clock>>
      /\ A_conns # <<>> => A_conns[n].ended /\ A_clock - A_conns[n].at >= A_Reuse
                           /\ outgoing = A_conns[n].outgoing
  BY <1>a DEF A!Open, A!last
<1>2. n \in Nat /\ m \in Nat /\ n = Len(A_conns) /\ m = Len(A_wire) /\ A_clock \in Nat /\ c \in Connections /\ x \in Packets
  BY <1>a, <1>b DEF PartiesType, Connections, Packets
<1>3. /\ A_conns' \in Seq(Connections) /\ Len(A_conns') = n + 1
      /\ \A g \in 1..n : A_conns'[g] = A_conns[g]
      /\ A_conns'[n + 1] = c
  BY <1>1, <1>2, Appended DEF PartiesType
<1>4. /\ A_wire' \in Seq(Packets) /\ Len(A_wire') = m + 1
      /\ \A i \in 1..m : A_wire'[i] = A_wire[i]
      /\ A_wire'[m + 1] = x
  BY <1>1, <1>2, Appended DEF PartiesType
<1>5. c.outgoing = outgoing /\ ~c.ended /\ c.at = A_clock /\ x.kind = "syn" /\ x.gen = n + 1 /\ x.at = A_clock
  OBVIOUS
<1> HIDE DEF c, x
<1>6. PartiesType'
  BY <1>1, <1>3, <1>4 DEF PartiesType
<1>7. \A g \in 1..n : A_conns[g] \in Connections /\ A_conns[g].at \in Nat
  <2>1. \A g \in 1..n : A_conns[g] \in Connections
    BY <1>2, Elements DEF PartiesType
  <2>2. QED BY <2>1 DEF Connections
<1>8. n > 0 => A_conns[n].ended /\ A_conns[n].at + A_Reuse <= A_clock /\ outgoing = A_conns[n].outgoing
  <2>1. n > 0 => A_conns # <<>>
    BY <1>2
  <2>2. QED BY <1>1, <1>2, <1>7, <2>1, Windows
<1>9. \A h \in 1..n : A_conns[h].at + A_Reuse <= A_clock
  BY <1>2, <1>7, <1>8, Windows DEF Sequel
<1>10. Sequel'
  <2>1. \A g \in 1..(n + 1) : g = n + 1 \/ g \in 1..n
    BY <1>2
  <2>2. \A g \in 1..Len(A_conns') :
          A_conns'[g].at <= A_clock' /\ (g < Len(A_conns') => A_conns'[g].ended)
    BY <1>1, <1>2, <1>3, <1>5, <1>8, <2>1 DEF Sequel
  <2>3. \A g, h \in 1..Len(A_conns') :
          /\ A_conns'[g].outgoing = A_conns'[h].outgoing
          /\ h < g => A_conns'[h].at + A_Reuse <= A_conns'[g].at
    BY <1>2, <1>3, <1>5, <1>8, <1>9, <2>1 DEF Sequel
  <2>4. QED BY <2>2, <2>3 DEF Sequel
<1>11. ASSUME NEW q \in Seq(Packets) \cup Seq(Events), Fresh(q)
       PROVE  \A i \in 1..Len(q) : Sent(q[i].gen, q[i].at)' /\ A_clock' <= q[i].at + A_Lag
  <2>1. \A h \in 1..n : A_conns'[h] = A_conns[h]
    BY <1>3
  <2>2. Len(A_conns) <= Len(A_conns') /\ A_clock' = A_clock
    BY <1>1, <1>2, <1>3
  <2>3. QED BY <1>2, <1>6, <1>11, <2>1, <2>2, FreshStays
<1>12. Sent(n + 1, A_clock)'
  BY <1>1, <1>2, <1>3, <1>5, <1>9 DEF Sent
<1>13. Fresh(A_wire)'
  <2>1. PICK q \in Seq(Packets) : q = A_wire
    BY DEF PartiesType
  <2>2. \A i \in 1..m : Sent(q[i].gen, q[i].at)' /\ A_clock' <= q[i].at + A_Lag
    BY <1>2, <1>11, <2>1
  <2>3. PICK r : r = A_wire'
    OBVIOUS
  <2>4. \A i \in 1..(m + 1) : Sent(r[i].gen, r[i].at)' /\ A_clock' <= r[i].at + A_Lag
    BY <1>1, <1>2, <1>4, <1>5, <1>12, <2>1, <2>2, <2>3, Windows
  <2>5. QED BY <1>4, <2>3, <2>4 DEF Fresh
<1>14. Fresh(ring)'
  <2>1. PICK q \in Seq(Events) : q = ring
    BY DEF PartiesType
  <2>2. \A i \in 1..Len(q) : Sent(q[i].gen, q[i].at)' /\ A_clock' <= q[i].at + A_Lag
    BY <1>11, <2>1
  <2>3. QED BY <1>1, <2>1, <2>2 DEF Fresh
<1>15. \A i \in 1..m : A_wire[i].gen \in 1..n
  BY <1>2 DEF Fresh, Sent
<1>16. conn # A!None => conn.gen \in 1..n
  BY <1>2 DEF FlowInTime
<1>17. InOrder'
  <2>1. \A i \in 1..(m + 1) : i = m + 1 \/ i \in 1..m
    BY <1>2
  <2>2. \A i, j \in 1..Len(A_wire') : i < j =>
          /\ A_wire'[i].gen <= A_wire'[j].gen
          /\ A_wire'[j].kind = "syn" => A_wire'[i].gen < A_wire'[j].gen
    <3>1. ASSUME NEW i \in 1..m, NEW j \in 1..m, i < j
          PROVE  /\ A_wire'[i].gen <= A_wire'[j].gen
                 /\ A_wire'[j].kind = "syn" => A_wire'[i].gen < A_wire'[j].gen
      BY <1>2, <1>4, <3>1 DEF InOrder
    <3>2. ASSUME NEW i \in 1..m PROVE A_wire'[i].gen < A_wire'[m + 1].gen
      <4>1. A_wire'[i].gen \in 1..n
        BY <1>4, <1>15
      <4>2. QED BY <1>2, <1>4, <1>5, <4>1
    <3>3. \A i, j \in 1..(m + 1) : i < j => i \in 1..m
      BY <1>2
    <3>4. \A i \in 1..m : A_wire'[i].gen <= A_wire'[m + 1].gen
      BY <1>2, <1>4, <1>5, <1>15, <3>2
    <3>5. QED BY <1>4, <2>1, <3>1, <3>2, <3>3, <3>4
  <2>3. \A i \in 1..Len(A_wire') :
          A_conns'[A_wire'[i].gen].ended /\ A_wire'[i].kind # "end" =>
            \E j \in 1..Len(A_wire') : i < j /\ A_wire'[j].kind = "end" /\ A_wire'[j].gen = A_wire'[i].gen
    <3>1. ASSUME NEW i \in 1..m, A_conns'[A_wire'[i].gen].ended, A_wire'[i].kind # "end"
          PROVE  \E j \in 1..(m + 1) : i < j /\ A_wire'[j].kind = "end" /\ A_wire'[j].gen = A_wire'[i].gen
      <4>1. A_wire'[i] = A_wire[i]
        BY <1>4
      <4>2. A_conns'[A_wire[i].gen] = A_conns[A_wire[i].gen]
        BY <1>3, <1>15
      <4>3. PICK j \in 1..m : i < j /\ A_wire[j].kind = "end" /\ A_wire[j].gen = A_wire[i].gen
        BY <1>2, <3>1, <4>1, <4>2 DEF InOrder
      <4>4. A_wire'[j] = A_wire[j] /\ j \in 1..(m + 1)
        BY <1>2, <1>4
      <4>5. QED BY <4>1, <4>3, <4>4
    <3>2. ~A_conns'[A_wire'[m + 1].gen].ended
      BY <1>2, <1>3, <1>4, <1>5
    <3>3. QED BY <1>2, <1>4, <2>1, <3>1, <3>2
  <2>4. conn # A!None => \A i \in 1..Len(A_wire') :
          conn.gen <= A_wire'[i].gen /\ (A_wire'[i].kind = "syn" => conn.gen < A_wire'[i].gen)
    BY <1>2, <1>4, <1>5, <1>16, <2>1 DEF InOrder
  <2>5. QED BY <1>1, <2>2, <2>3, <2>4 DEF InOrder
<1>18. AllBegun'
  <2>1. ASSUME NEW g \in 1..n, NEW j \in 1..(m + 1), Begun(g, j) PROVE Begun(g, j)'
    BY <1>1, <1>2, <1>4, <2>1 DEF Begun
  <2>2. Begun(n + 1, m + 2)'
    BY <1>2, <1>4, <1>5 DEF Begun
  <2>3. \A j \in 1..(m + 1) : j = m + 1 \/ j \in 1..m
    BY <1>2
  <2>4. \A j \in 1..Len(A_wire') : A_wire'[j].kind # "syn" => Begun(A_wire[j].gen, j)'
    <3>1. ASSUME NEW j \in 1..m, A_wire'[j].kind # "syn" PROVE Begun(A_wire[j].gen, j)'
      <4>1. PICK g \in 1..n : g = A_wire[j].gen
        BY <1>15
      <4>2. Begun(g, j)
        BY <1>2, <1>4, <3>1, <4>1 DEF AllBegun
      <4>3. Begun(g, j)'
        BY <1>2, <2>1, <4>2
      <4>4. A_wire'[j].gen = g
        BY <1>4, <4>1
      <4>5. QED BY <4>3, <4>4
    <3>2. QED BY <1>4, <1>5, <2>3, <3>1
  <2>5. QED BY <1>2, <1>3, <1>4, <2>2, <2>4 DEF AllBegun
<1>19. FlowInTime'
  <2>1. ASSUME conn # A!None
        PROVE  /\ conn.gen \in 1..(n + 1) /\ conn.syn \in {0, conn.gen} /\ conn.last <= A_clock
               /\ A_conns'[conn.gen].ended =>
                    /\ conn.last <= A_conns'[conn.gen].at + A_Lag
                    /\ \/ conn.closed
                       \/ \E i \in 1..(m + 1) : A_wire'[i].kind = "end" /\ A_wire'[i].gen = conn.gen
    <3>1. A_conns'[conn.gen] = A_conns[conn.gen] /\ conn.gen \in 1..(n + 1)
      BY <1>2, <1>3, <1>16, <2>1
    <3>2. \A i \in 1..m : i \in 1..(m + 1)
      BY <1>2
    <3>3. QED BY <1>2, <1>4, <2>1, <3>1, <3>2 DEF FlowInTime
  <2>2. QED BY <1>1, <1>3, <1>4, <2>1 DEF FlowInTime
<1>20. RoleInTime'
  <2>1. ASSUME role["server"] # Nobody, \A g \in 1..(n + 1) : ~A_conns'[g].outgoing
        PROVE  \E e \in 1..(n + 1) :
                 /\ role["server"] = A_conns'[e].owner
                 /\ A_conns'[e].ended => roleSeen <= A_conns'[e].at + A_Lag
                 /\ \A h \in 1..(n + 1) : h < e => A_conns'[h].at + A_Reuse <= roleSeen
    <3>1. \A g \in 1..n : ~A_conns[g].outgoing
      BY <1>2, <1>3, <2>1
    <3>2. PICK e \in 1..n :
            /\ role["server"] = A_conns[e].owner
            /\ A_conns[e].ended => roleSeen <= A_conns[e].at + A_Lag
            /\ \A h \in 1..n : h < e => A_conns[h].at + A_Reuse <= roleSeen
      BY <1>2, <2>1, <3>1 DEF RoleInTime
    <3>3. \A h \in 1..(n + 1) : h < e => h \in 1..n
      BY <1>2
    <3>4. e \in 1..(n + 1)
      BY <1>2
    <3>5. QED BY <1>2, <1>3, <3>2, <3>3, <3>4
  <2>2. QED BY <1>1, <1>3, <2>1 DEF RoleInTime
<1>21. InboundOwn'
  <2>1. conn # A!None /\ conn.syn # 0 => conn.syn \in 1..n
    BY <1>2 DEF FlowInTime
  <2>2. QED BY <1>1, <1>2, <1>3, <2>1 DEF InboundOwn, A!InboundOwn, A!own
<1>22. QED BY <1>6, <1>10, <1>13, <1>14, <1>17, <1>18, <1>19, <1>20, <1>21

LEMMA Changed ==
  ASSUME NEW S, NEW s \in Seq(S), NEW i \in 1..Len(s), NEW x \in S
  PROVE  /\ [s EXCEPT ![i] = x] \in Seq(S) /\ Len([s EXCEPT ![i] = x]) = Len(s)
         /\ \A j \in 1..Len(s) : [s EXCEPT ![i] = x][j] = IF j = i THEN x ELSE s[j]
  OBVIOUS

LEMMA ReportStep == PartiesInv /\ A!Report => PartiesInv'
<1> SUFFICES ASSUME PartiesInv, A!Report PROVE PartiesInv'
  OBVIOUS
<1> USE DEF PartiesInv
<1>a. PICK n \in Nat : n = Len(A_conns)
  BY Elements DEF PartiesType
<1>b. PICK c : c = [A_conns[n] EXCEPT !.known = TRUE]
  OBVIOUS
<1>c. PICK e : e = [gen |-> n, at |-> A_clock]
  OBVIOUS
<1>1. /\ A_conns # <<>> /\ ~A_conns[n].ended
      /\ A_conns' = [A_conns EXCEPT ![n] = c]
      /\ ring' \in {ring, Append(ring, e)}
      /\ UNCHANGED <<A_wire, conn, role, roleSeen, A_clock>>
  BY <1>a, <1>b, <1>c DEF A!Report, A!last
<1>2. n \in Nat /\ n = Len(A_conns) /\ A_clock \in Nat /\ e \in Events /\ n \in 1..n /\ n > 0
  BY <1>1, <1>a, <1>c DEF PartiesType, Events
<1>3. A_conns[n] \in Connections /\ \A g \in 1..n : A_conns[g] \in Connections
  BY <1>2, Elements DEF PartiesType
<1>4. /\ c \in Connections /\ c.outgoing = A_conns[n].outgoing /\ c.owner = A_conns[n].owner
      /\ c.ended = A_conns[n].ended /\ c.at = A_conns[n].at
  BY <1>3, <1>b DEF Connections
<1>5. /\ A_conns' \in Seq(Connections) /\ Len(A_conns') = n
      /\ \A g \in 1..n : A_conns'[g] = IF g = n THEN c ELSE A_conns[g]
  BY <1>1, <1>2, <1>4, Changed DEF PartiesType
<1>6. \A g \in 1..n : /\ A_conns'[g].outgoing = A_conns[g].outgoing /\ A_conns'[g].owner = A_conns[g].owner
                      /\ A_conns'[g].ended = A_conns[g].ended /\ A_conns'[g].at = A_conns[g].at
  BY <1>4, <1>5
<1>7. ring' \in Seq(Events) /\ PartiesType'
  <2>1. ring' \in Seq(Events)
    <3>1. ring \in Seq(Events) /\ Append(ring, e) \in Seq(Events)
      BY <1>2, Appended DEF PartiesType
    <3>2. QED BY <1>1, <3>1
  <2>2. QED BY <2>1, <1>1, <1>5 DEF PartiesType
<1>8. Sequel' /\ InOrder' /\ FlowInTime' /\ RoleInTime'
  <2>1. Sequel'
    BY <1>1, <1>2, <1>5, <1>6 DEF Sequel
  <2>2. \A i \in 1..Len(A_wire) : A_wire[i].gen \in 1..n
    BY <1>2 DEF Fresh, Sent
  <2>3. InOrder'
    BY <1>1, <1>2, <1>5, <1>6, <2>2 DEF InOrder
  <2>4. FlowInTime'
    BY <1>1, <1>2, <1>5, <1>6 DEF FlowInTime
  <2>5. RoleInTime'
    BY <1>1, <1>2, <1>5, <1>6 DEF RoleInTime
  <2>6. QED BY <2>1, <2>3, <2>4, <2>5
<1>9. AllBegun'
  BY <1>1, <1>2, <1>5 DEF AllBegun, Begun
<1>10. InboundOwn'
  <2>1. conn # A!None /\ conn.syn # 0 => conn.syn \in 1..n
    BY <1>2 DEF FlowInTime
  <2>2. QED BY <1>1, <1>2, <1>5, <1>6, <2>1 DEF InboundOwn, A!InboundOwn, A!own
<1>11. \A g, at : Sent(g, at) => Sent(g, at)'
  BY <1>1, <1>2, <1>5, <1>6 DEF Sent
<1>12. Fresh(A_wire)'
  BY <1>1, <1>11 DEF Fresh
<1>13. Sent(n, A_clock)'
  <2>1. \A h \in 1..n : h < n => A_conns[h].at + A_Reuse <= A_conns[n].at
    BY <1>2 DEF Sequel
  <2>2. A_conns[n].at \in Nat /\ A_conns[n].at <= A_clock
    BY <1>2, <1>3 DEF Sequel, Connections
  <2>3. \A h \in 1..n : A_conns[h].at \in Nat
    BY <1>3 DEF Connections
  <2>4. \A h \in 1..n : h < n => A_conns[h].at + A_Reuse <= A_clock
    BY <1>2, <2>1, <2>2, <2>3, Windows
  <2>5. QED BY <1>1, <1>2, <1>5, <1>6, <2>4 DEF Sent
<1>14. Fresh(ring)'
  <2>1. PICK q \in Seq(Events) : q = ring
    BY DEF PartiesType
  <2>2. PICK r : r = ring'
    OBVIOUS
  <2>3. \A i \in 1..Len(q) : Sent(q[i].gen, q[i].at)' /\ A_clock' <= q[i].at + A_Lag
    BY <1>1, <1>11, <2>1 DEF Fresh
  <2>4. \A i \in 1..Len(r) : Sent(r[i].gen, r[i].at)' /\ A_clock' <= r[i].at + A_Lag
    <3>1. CASE r = q
      BY <2>3, <3>1
    <3>2. CASE r = Append(q, e)
      <4>1. /\ Len(r) = Len(q) + 1 /\ Len(q) \in Nat
            /\ \A i \in 1..Len(q) : r[i] = q[i]
            /\ r[Len(q) + 1] = e
        BY <1>2, <3>2, Appended
      <4>2. e.gen = n /\ e.at = A_clock
        BY <1>c
      <4>3. \A i \in 1..Len(r) : i = Len(q) + 1 \/ i \in 1..Len(q)
        BY <4>1
      <4>4. Sent(e.gen, e.at)' /\ A_clock' <= e.at + A_Lag
        BY <1>1, <1>2, <1>13, <4>2, Windows
      <4>5. QED BY <2>3, <4>1, <4>3, <4>4
    <3>3. QED BY <1>1, <2>1, <2>2, <3>1, <3>2
  <2>5. QED BY <2>2, <2>4 DEF Fresh
<1>15. QED BY <1>7, <1>8, <1>9, <1>10, <1>12, <1>14

LEMMA TickStep == PartiesInv /\ A!Tick => PartiesInv'
<1> SUFFICES ASSUME PartiesInv, A!Tick PROVE PartiesInv'
  OBVIOUS
<1> USE DEF PartiesInv
<1>1. /\ A_clock' = A_clock + 1 /\ UNCHANGED <<A_conns, A_wire, ring, conn, role, roleSeen>>
      /\ \A i \in DOMAIN A_wire : A_clock - A_wire[i].at < A_Lag
      /\ \A i \in DOMAIN ring : A_clock - ring[i].at < A_Lag
  BY DEF A!Tick
<1>2. PartiesType' /\ A_clock \in Nat
  BY <1>1 DEF PartiesType
<1>3. \A g \in 1..Len(A_conns) : A_conns[g].at \in Nat
  <2>1. \A g \in 1..Len(A_conns) : A_conns[g] \in Connections
    BY Elements DEF PartiesType
  <2>2. QED BY <2>1 DEF Connections
<1>4. Sequel' /\ InOrder' /\ AllBegun'
  <2>1. Sequel'
    <3>1. \A g \in 1..Len(A_conns) : A_conns[g].at <= A_clock + 1
      BY <1>2, <1>3 DEF Sequel
    <3>2. QED BY <1>1, <3>1 DEF Sequel
  <2>2. QED BY <1>1, <2>1 DEF InOrder, AllBegun, Begun
<1>5. ASSUME NEW q \in Seq(Packets) \cup Seq(Events), Fresh(q), \A i \in DOMAIN q : A_clock - q[i].at < A_Lag
      PROVE  \A i \in 1..Len(q) : Sent(q[i].gen, q[i].at)' /\ A_clock' <= q[i].at + A_Lag
  <2>1. ASSUME NEW i \in 1..Len(q) PROVE Sent(q[i].gen, q[i].at)' /\ A_clock' <= q[i].at + A_Lag
    <3>1. i \in DOMAIN q /\ q[i] \in Packets \cup Events
      BY <1>5, Elements
    <3>2. PICK at \in Nat : at = q[i].at
      BY <3>1 DEF Packets, Events
    <3>3. A_clock - at < A_Lag /\ Sent(q[i].gen, at)
      BY <1>5, <3>1, <3>2 DEF Fresh
    <3>4. Sent(q[i].gen, at)'
      BY <1>1, <1>2, <3>3 DEF Sent
    <3>5. A_clock' <= at + A_Lag
      BY <1>1, <1>2, <3>3, Windows
    <3>6. QED BY <3>2, <3>4, <3>5
  <2>2. QED BY <2>1
<1>6. Fresh(A_wire)' /\ Fresh(ring)'
  <2>1. PICK q \in Seq(Packets) : q = A_wire
    BY DEF PartiesType
  <2>2. PICK r \in Seq(Events) : r = ring
    BY DEF PartiesType
  <2>3. \A i \in 1..Len(q) : Sent(q[i].gen, q[i].at)' /\ A_clock' <= q[i].at + A_Lag
    BY <1>1, <1>5, <2>1
  <2>4. \A i \in 1..Len(r) : Sent(r[i].gen, r[i].at)' /\ A_clock' <= r[i].at + A_Lag
    BY <1>1, <1>5, <2>2
  <2>5. QED BY <1>1, <2>1, <2>2, <2>3, <2>4 DEF Fresh
<1>7. FlowInTime' /\ RoleInTime' /\ InboundOwn'
  <2>1. conn # A!None => conn.last \in Nat
    BY DEF PartiesType, Conn
  <2>2. FlowInTime'
    BY <1>1, <1>2, <2>1 DEF FlowInTime
  <2>3. RoleInTime'
    BY <1>1, <1>2 DEF RoleInTime, PartiesType
  <2>4. QED BY <1>1, <2>2, <2>3 DEF InboundOwn, A!InboundOwn, A!own
<1>8. QED BY <1>2, <1>4, <1>6, <1>7

LEMMA SendStep ==
  ASSUME PartiesInv, NEW kind \in {"data", "end"}, A!Send(kind)
  PROVE  PartiesInv'
<1> USE DEF PartiesInv
<1>a. PICK n \in Nat : n = Len(A_conns)
  BY Elements DEF PartiesType
<1>b. PICK m \in Nat : m = Len(A_wire)
  BY Elements DEF PartiesType
<1>c. PICK c : c = [A_conns[n] EXCEPT !.ended = (kind = "end"), !.at = A_clock]
  OBVIOUS
<1>d. PICK x : x = [kind |-> kind, gen |-> n, at |-> A_clock]
  OBVIOUS
<1>1. /\ A_conns # <<>> /\ ~A_conns[n].ended
      /\ A_conns' = [A_conns EXCEPT ![n].ended = (kind = "end"), ![n].at = A_clock]
      /\ A_wire' = Append(A_wire, x) \/ (A_wire' = A_wire /\ kind = "data")
      /\ UNCHANGED <<ring, conn, role, roleSeen, A_clock>>
  BY <1>a, <1>d DEF A!Send, A!last
<1>2. n \in Nat /\ m \in Nat /\ n = Len(A_conns) /\ m = Len(A_wire) /\ A_clock \in Nat /\ n \in 1..n /\ n > 0
  BY <1>1, <1>a, <1>b DEF PartiesType
<1>3. x \in Packets /\ x.kind = kind /\ x.gen = n /\ x.at = A_clock
  BY <1>2, <1>d DEF Packets
<1>4. \A g \in 1..n : A_conns[g] \in Connections
  BY <1>2, Elements DEF PartiesType
<1>5. \A g \in 1..n : A_conns[g].at \in Nat
  BY <1>4 DEF Connections
<1>6. /\ c \in Connections /\ c.outgoing = A_conns[n].outgoing /\ c.owner = A_conns[n].owner
      /\ c.ended = (kind = "end") /\ c.at = A_clock
  BY <1>2, <1>4, <1>c DEF Connections
<1>7. /\ A_conns' \in Seq(Connections) /\ Len(A_conns') = n
      /\ \A g \in 1..n : A_conns'[g] = IF g = n THEN c ELSE A_conns[g]
  <2>1. A_conns' = [A_conns EXCEPT ![n] = c]
    BY <1>1, <1>2, <1>4, <1>c, Elements DEF PartiesType, Connections
  <2>2. QED BY <1>2, <1>6, <2>1, Changed DEF PartiesType
<1>8. \A g \in 1..n : A_conns'[g].outgoing = A_conns[g].outgoing /\ A_conns'[g].owner = A_conns[g].owner
  BY <1>6, <1>7
<1>9. \A g \in 1..n : A_conns[g].at <= A_conns'[g].at
  BY <1>2, <1>5, <1>6, <1>7 DEF Sequel
<1>10. \A h \in 1..n : h < n => A_conns'[h] = A_conns[h] /\ A_conns[h].at + A_Reuse <= A_clock
  <2>1. \A h \in 1..n : h < n => A_conns[h].at + A_Reuse <= A_conns[n].at
    BY <1>2 DEF Sequel
  <2>2. A_conns[n].at <= A_clock
    BY <1>2 DEF Sequel
  <2>3. QED BY <1>2, <1>5, <1>7, <2>1, <2>2, Windows
<1>11. A_wire' \in Seq(Packets) /\ PartiesType'
  <2>1. Append(A_wire, x) \in Seq(Packets) /\ A_wire \in Seq(Packets)
    BY <1>3, Appended DEF PartiesType
  <2>2. A_wire' \in Seq(Packets)
    BY <1>1, <2>1
  <2>3. QED BY <1>1, <1>7, <2>2 DEF PartiesType
<1>12. /\ \A i \in 1..m : A_wire'[i] = A_wire[i]
       /\ \/ Len(A_wire') = m + 1 /\ A_wire'[m + 1] = x
          \/ Len(A_wire') = m /\ kind = "data"
  <2>1. CASE A_wire' = Append(A_wire, x)
    BY <1>2, <1>3, <2>1, Appended DEF PartiesType
  <2>2. CASE A_wire' = A_wire /\ kind = "data"
    BY <1>2, <2>2
  <2>3. QED BY <1>1, <2>1, <2>2
<1>13. PICK k \in Nat : k = Len(A_wire')
  BY <1>2, <1>12
<1>14. /\ k \in Nat /\ k = Len(A_wire') /\ (k = m \/ k = m + 1) /\ m <= k
       /\ \A i \in 1..m : i \in 1..k /\ A_wire'[i] = A_wire[i]
       /\ \A i \in 1..k : i \in 1..m \/ (i = m + 1 /\ k = m + 1)
       /\ k = m + 1 => A_wire'[m + 1] = x
       /\ kind = "end" => k = m + 1
  <2>1. k \in Nat /\ k = Len(A_wire') /\ (k = m \/ k = m + 1) /\ m <= k
    BY <1>2, <1>12, <1>13
  <2>2. \A i \in 1..k : i \in 1..m \/ (i = m + 1 /\ k = m + 1)
    BY <1>2, <2>1
  <2>3. k = m + 1 => A_wire'[m + 1] = x
    BY <1>2, <1>12, <2>1
  <2>4. kind = "end" => k = m + 1
    BY <1>2, <1>12, <2>1
  <2>5. QED BY <1>2, <1>12, <2>1, <2>2, <2>3, <2>4
<1>15. Sequel'
  <2>1. \A g \in 1..n : A_conns'[g].at <= A_clock /\ (g < n => A_conns'[g].ended)
    BY <1>2, <1>6, <1>7 DEF Sequel
  <2>2. ASSUME NEW g \in 1..n, NEW h \in 1..n, h < g PROVE A_conns'[h].at + A_Reuse <= A_conns'[g].at
    <3>1. CASE g = n
      BY <1>2, <1>5, <1>6, <1>7, <1>10, <2>2, <3>1
    <3>2. CASE g < n
      <4>1. h < n
        BY <1>2, <2>2, <3>2
      <4>2. A_conns'[h] = A_conns[h] /\ A_conns'[g] = A_conns[g]
        BY <1>10, <3>2, <4>1
      <4>3. QED BY <1>2, <2>2, <4>2 DEF Sequel
    <3>3. QED BY <1>2, <3>1, <3>2
  <2>3. \A g, h \in 1..n : A_conns'[g].outgoing = A_conns'[h].outgoing
    BY <1>2, <1>8 DEF Sequel
  <2>4. QED BY <1>1, <1>7, <2>1, <2>2, <2>3 DEF Sequel
<1>16. ASSUME NEW q \in Seq(Packets) \cup Seq(Events), Fresh(q)
       PROVE  \A i \in 1..Len(q) : Sent(q[i].gen, q[i].at)' /\ A_clock' <= q[i].at + A_Lag
  <2>1. \A h \in 1..Len(A_conns) : h < Len(A_conns) =>
           A_conns'[h].at = A_conns[h].at /\ A_conns'[h].ended = A_conns[h].ended
    BY <1>2, <1>10
  <2>2. \A h \in 1..Len(A_conns) : A_conns'[h].ended =>
           A_conns'[h].at = A_clock \/ (A_conns'[h].at = A_conns[h].at /\ A_conns[h].ended)
    BY <1>2, <1>6, <1>7
  <2>3. Len(A_conns) <= Len(A_conns') /\ A_clock' = A_clock
    BY <1>1, <1>2, <1>7
  <2>4. QED BY <1>11, <1>16, <2>1, <2>2, <2>3, FreshStays
<1>17. Sent(n, A_clock)'
  <2>1. A_conns'[n].at = A_clock
    BY <1>2, <1>6, <1>7
  <2>2. \A h \in 1..n : h < n => A_conns'[h].at + A_Reuse <= A_clock
    BY <1>10
  <2>3. QED BY <1>1, <1>2, <1>7, <2>1, <2>2 DEF Sent
<1>18. Fresh(A_wire)'
  <2>1. PICK q \in Seq(Packets) : q = A_wire
    BY DEF PartiesType
  <2>2. \A i \in 1..m : Sent(q[i].gen, q[i].at)' /\ A_clock' <= q[i].at + A_Lag
    BY <1>2, <1>16, <2>1
  <2>3. PICK r : r = A_wire'
    OBVIOUS
  <2>4. Sent(x.gen, x.at)' /\ A_clock' <= x.at + A_Lag
    BY <1>1, <1>2, <1>3, <1>17, Windows
  <2>5. \A i \in 1..k : Sent(r[i].gen, r[i].at)' /\ A_clock' <= r[i].at + A_Lag
    BY <1>14, <2>1, <2>2, <2>3, <2>4
  <2>6. QED BY <1>14, <2>3, <2>5 DEF Fresh
<1>19. Fresh(ring)'
  <2>1. PICK q \in Seq(Events) : q = ring
    BY DEF PartiesType
  <2>2. \A i \in 1..Len(q) : Sent(q[i].gen, q[i].at)' /\ A_clock' <= q[i].at + A_Lag
    BY <1>16, <2>1
  <2>3. QED BY <1>1, <2>1, <2>2 DEF Fresh
<1>20. \A i \in 1..m : A_wire[i].gen \in 1..n
  BY <1>2 DEF Fresh, Sent
<1>21. conn # A!None => conn.gen \in 1..n
  BY <1>2 DEF FlowInTime
<1>22. InOrder'
  <2>1. \A i, j \in 1..Len(A_wire') : i < j =>
          /\ A_wire'[i].gen <= A_wire'[j].gen
          /\ A_wire'[j].kind = "syn" => A_wire'[i].gen < A_wire'[j].gen
    <3>1. ASSUME NEW i \in 1..m, NEW j \in 1..m, i < j
          PROVE  /\ A_wire'[i].gen <= A_wire'[j].gen
                 /\ A_wire'[j].kind = "syn" => A_wire'[i].gen < A_wire'[j].gen
      BY <1>2, <1>14, <3>1 DEF InOrder
    <3>2. \A i, j \in 1..k : i < j => i \in 1..m
      BY <1>2, <1>14
    <3>3. \A i \in 1..m : A_wire'[i].gen <= n
      BY <1>2, <1>14, <1>20
    <3>4. x.kind # "syn"
      BY <1>3
    <3>5. QED BY <1>3, <1>14, <3>1, <3>2, <3>3, <3>4
  <2>2. \A i \in 1..Len(A_wire') :
          A_conns'[A_wire'[i].gen].ended /\ A_wire'[i].kind # "end" =>
            \E j \in 1..Len(A_wire') : i < j /\ A_wire'[j].kind = "end" /\ A_wire'[j].gen = A_wire'[i].gen
    <3>1. ASSUME NEW i \in 1..k, A_conns'[A_wire'[i].gen].ended, A_wire'[i].kind # "end"
          PROVE  \E j \in 1..k : i < j /\ A_wire'[j].kind = "end" /\ A_wire'[j].gen = A_wire'[i].gen
      <4>1. CASE i \in 1..m /\ A_wire[i].gen = n
        <5>1. kind = "end" /\ A_wire'[i].gen = n
          BY <1>2, <1>6, <1>7, <1>14, <3>1, <4>1
        <5>2. i < m + 1 /\ m + 1 \in 1..k /\ A_wire'[m + 1].kind = "end" /\ A_wire'[m + 1].gen = n
          BY <1>2, <1>3, <1>14, <4>1, <5>1
        <5>3. QED BY <5>1, <5>2
      <4>2. CASE i \in 1..m /\ A_wire[i].gen # n
        <5>1. A_wire'[i] = A_wire[i] /\ A_wire[i].gen \in 1..n /\ A_conns[A_wire[i].gen].ended
          BY <1>7, <1>14, <1>20, <3>1, <4>2
        <5>2. PICK j \in 1..m : i < j /\ A_wire[j].kind = "end" /\ A_wire[j].gen = A_wire[i].gen
          BY <1>2, <3>1, <4>2, <5>1 DEF InOrder
        <5>3. j \in 1..k /\ A_wire'[j] = A_wire[j]
          BY <1>14
        <5>4. QED BY <5>1, <5>2, <5>3
      <4>3. CASE i = m + 1 /\ k = m + 1
        <5>1. A_wire'[i].gen = n /\ A_wire'[i].kind = kind
          BY <1>3, <1>14, <4>3
        <5>2. kind = "end"
          BY <1>2, <1>6, <1>7, <3>1, <5>1
        <5>3. QED BY <3>1, <5>1, <5>2
      <4>4. QED BY <1>14, <4>1, <4>2, <4>3
    <3>2. QED BY <1>14, <3>1
  <2>3. conn # A!None => \A i \in 1..k :
          conn.gen <= A_wire'[i].gen /\ (A_wire'[i].kind = "syn" => conn.gen < A_wire'[i].gen)
    <3>1. conn # A!None => conn.gen <= x.gen /\ x.kind # "syn"
      BY <1>2, <1>3, <1>21
    <3>2. conn # A!None => \A i \in 1..m :
            conn.gen <= A_wire[i].gen /\ (A_wire[i].kind = "syn" => conn.gen < A_wire[i].gen)
      BY <1>2 DEF InOrder
    <3>3. QED BY <1>14, <3>1, <3>2
  <2>4. QED BY <1>1, <1>14, <2>1, <2>2, <2>3 DEF InOrder
<1>23. AllBegun'
  <2>1. ASSUME NEW g \in 1..n, NEW j \in 1..(m + 1), Begun(g, j) PROVE Begun(g, j)'
    <3>1. CASE \E i \in 1..m : i < j /\ A_wire[i].kind = "syn" /\ A_wire[i].gen = g
      BY <1>14, <3>1 DEF Begun
    <3>2. CASE /\ \A i \in 1..m : i < j => A_wire[i].gen = g
               /\ conn = A!None \/ conn.gen = g
      <4>1. \A i \in 1..k : i < j => i \in 1..m
        BY <1>2, <1>14
      <4>2. QED BY <1>1, <1>14, <3>2, <4>1 DEF Begun
    <3>3. QED BY <1>2, <2>1, <3>1, <3>2 DEF Begun
  <2>2. Begun(n, m + 1)
    BY <1>2 DEF AllBegun
  <2>3. Begun(n, m + 1)'
    BY <1>2, <2>1, <2>2
  <2>4. Begun(n, k + 1)'
    <3>1. CASE \E i \in 1..k : i < m + 1 /\ A_wire'[i].kind = "syn" /\ A_wire'[i].gen = n
      BY <1>2, <1>14, <3>1 DEF Begun
    <3>2. CASE /\ \A i \in 1..k : i < m + 1 => A_wire'[i].gen = n
               /\ conn = A!None \/ conn.gen = n
      <4>1. \A i \in 1..k : i < m + 1 \/ (i = m + 1 /\ k = m + 1)
        BY <1>2, <1>14
      <4>2. \A i \in 1..k : A_wire'[i].gen = n
        BY <1>3, <1>14, <3>2, <4>1
      <4>3. QED BY <1>1, <1>14, <3>2, <4>2 DEF Begun
    <3>3. QED BY <1>1, <1>14, <2>3, <3>1, <3>2 DEF Begun
  <2>5. ASSUME NEW j \in 1..k, A_wire'[j].kind # "syn" PROVE Begun(A_wire[j].gen, j)'
    <3>1. CASE j \in 1..m
      <4>1. PICK g \in 1..n : g = A_wire[j].gen
        BY <1>20, <3>1
      <4>2. A_wire'[j] = A_wire[j] /\ j \in 1..(m + 1)
        BY <1>2, <1>14, <3>1
      <4>3. Begun(g, j)
        BY <1>2, <2>5, <3>1, <4>1, <4>2 DEF AllBegun
      <4>4. Begun(g, j)'
        BY <2>1, <4>2, <4>3
      <4>5. QED BY <4>1, <4>2, <4>4
    <3>2. CASE j = m + 1 /\ k = m + 1
      <4>1. A_wire'[j].gen = n
        BY <1>3, <1>14, <3>2
      <4>2. QED BY <2>3, <3>2, <4>1
    <3>3. QED BY <1>14, <3>1, <3>2
  <2>6. \A j \in 1..Len(A_wire') : A_wire'[j].kind # "syn" => Begun(A_wire[j].gen, j)'
    BY <1>14, <2>5
  <2>7. QED BY <1>7, <1>14, <2>4, <2>6 DEF AllBegun
<1>24. FlowInTime'
  <2>1. ASSUME conn # A!None
        PROVE  /\ conn.gen \in 1..n /\ conn.syn \in {0, conn.gen} /\ conn.last <= A_clock
               /\ A_conns'[conn.gen].ended =>
                    /\ conn.last <= A_conns'[conn.gen].at + A_Lag
                    /\ \/ conn.closed
                       \/ \E i \in 1..k : A_wire'[i].kind = "end" /\ A_wire'[i].gen = conn.gen
    <3>1. /\ conn.gen \in 1..n /\ conn.syn \in {0, conn.gen} /\ conn.last <= A_clock /\ conn.last \in Nat
          /\ A_conns[conn.gen].ended =>
               /\ conn.last <= A_conns[conn.gen].at + A_Lag
               /\ \/ conn.closed
                  \/ \E i \in 1..m : A_wire[i].kind = "end" /\ A_wire[i].gen = conn.gen
      BY <1>2, <2>1 DEF FlowInTime, PartiesType, Conn
    <3>2. CASE conn.gen = n
      <4>1. A_conns'[n] = c
        BY <1>2, <1>7
      <4>2. conn.last <= c.at + A_Lag
        BY <1>2, <1>6, <3>1, Windows
      <4>3. c.ended => m + 1 \in 1..k /\ A_wire'[m + 1].kind = "end" /\ A_wire'[m + 1].gen = conn.gen
        <5>1. c.ended => kind = "end"
          BY <1>6
        <5>2. kind = "end" => k = m + 1 /\ m + 1 \in 1..k /\ A_wire'[m + 1] = x
          BY <1>2, <1>14
        <5>3. QED BY <1>3, <3>2, <5>1, <5>2
      <4>4. QED BY <3>1, <3>2, <4>1, <4>2, <4>3
    <3>3. CASE conn.gen # n
      <4>1. A_conns'[conn.gen] = A_conns[conn.gen]
        BY <1>7, <3>1, <3>3
      <4>2. QED BY <1>14, <3>1, <4>1
    <3>4. QED BY <3>2, <3>3
  <2>2. QED BY <1>1, <1>7, <1>14, <2>1 DEF FlowInTime
<1>25. RoleInTime'
  <2>1. ASSUME role["server"] # Nobody, \A g \in 1..n : ~A_conns'[g].outgoing
        PROVE  \E e \in 1..n :
                 /\ role["server"] = A_conns'[e].owner
                 /\ A_conns'[e].ended => roleSeen <= A_conns'[e].at + A_Lag
                 /\ \A h \in 1..n : h < e => A_conns'[h].at + A_Reuse <= roleSeen
    <3>1. PICK e \in 1..n :
            /\ role["server"] = A_conns[e].owner
            /\ A_conns[e].ended => roleSeen <= A_conns[e].at + A_Lag
            /\ \A h \in 1..n : h < e => A_conns[h].at + A_Reuse <= roleSeen
      BY <1>2, <1>8, <2>1 DEF RoleInTime
    <3>2. roleSeen \in Nat /\ roleSeen <= A_clock
      BY DEF RoleInTime, PartiesType
    <3>3. A_conns'[e].ended => roleSeen <= A_conns'[e].at + A_Lag
      BY <1>2, <1>6, <1>7, <3>1, <3>2, Windows
    <3>4. \A h \in 1..n : h < e => A_conns'[h] = A_conns[h]
      BY <1>2, <1>10
    <3>5. QED BY <1>8, <3>1, <3>3, <3>4
  <2>2. QED BY <1>1, <1>7, <2>1 DEF RoleInTime
<1>26. InboundOwn'
  <2>1. conn # A!None /\ conn.syn # 0 => conn.syn \in 1..n
    BY <1>2 DEF FlowInTime
  <2>2. QED BY <1>1, <1>2, <1>7, <1>8, <2>1 DEF InboundOwn, A!InboundOwn, A!own
<1>27. QED BY <1>11, <1>15, <1>18, <1>19, <1>22, <1>23, <1>24, <1>25, <1>26

(* A flow that leaves, or roles that do, leave the rest as it was.            *)
LEMMA FlowGone ==
  ASSUME PartiesInv, conn' = A!None, UNCHANGED <<A_conns, A_wire, ring, role, roleSeen, A_clock>>
  PROVE  PartiesInv'
<1> USE DEF PartiesInv
<1>1. PartiesType' /\ Sequel' /\ Fresh(A_wire)' /\ Fresh(ring)'
  BY DEF PartiesType, Sequel, Fresh, Sent
<1>2. InOrder' /\ FlowInTime' /\ RoleInTime' /\ InboundOwn'
  BY DEF InOrder, FlowInTime, RoleInTime, InboundOwn, A!InboundOwn, A!own
<1>3. AllBegun'
  BY DEF AllBegun, Begun
<1>4. QED BY <1>1, <1>2, <1>3

LEMMA RolesGone ==
  ASSUME PartiesInv, A!ExpireRoles
  PROVE  PartiesInv'
<1> USE DEF PartiesInv
<1>1. role' = A!NoOne /\ UNCHANGED <<A_conns, A_wire, ring, conn, roleSeen, A_clock>>
  BY DEF A!ExpireRoles
<1>2. role' \in [A!Side -> Party] /\ role'["server"] = Nobody
  BY <1>1 DEF A!NoOne, A!Side, Party
<1>3. PartiesType' /\ Sequel' /\ Fresh(A_wire)' /\ Fresh(ring)'
  BY <1>1, <1>2 DEF PartiesType, Sequel, Fresh, Sent
<1>4. InOrder' /\ FlowInTime' /\ RoleInTime' /\ InboundOwn'
  BY <1>1, <1>2 DEF InOrder, FlowInTime, RoleInTime, InboundOwn, A!InboundOwn, A!own
<1>5. AllBegun'
  BY <1>1 DEF AllBegun, Begun
<1>6. QED BY <1>3, <1>4, <1>5

(* Taking the first of a queue leaves the others fresh.                      *)
LEMMA FreshTail ==
  ASSUME NEW q \in Seq(Packets) \cup Seq(Events), q # <<>>, Fresh(q)
  PROVE  Fresh(Tail(q)) /\ Sent(q[1].gen, q[1].at) /\ A_clock <= q[1].at + A_Lag
<1>1. /\ Len(q) \in Nat \ {0} /\ Len(Tail(q)) = Len(q) - 1
      /\ \A i \in 1..Len(Tail(q)) : Tail(q)[i] = q[i + 1]
  BY Tailed
<1>2. 1 \in 1..Len(q) /\ \A i \in 1..Len(Tail(q)) : i + 1 \in 1..Len(q)
  BY <1>1
<1>3. QED BY <1>1, <1>2 DEF Fresh

LEMMA EventStep == PartiesInv /\ A!Event => PartiesInv' /\ (conn' # conn => A!keepsTheKnown)
<1> SUFFICES ASSUME PartiesInv, A!Event PROVE PartiesInv' /\ (conn' # conn => A!keepsTheKnown)
  OBVIOUS
<1> USE DEF PartiesInv
<1>a. PICK n \in Nat : n = Len(A_conns)
  BY Elements DEF PartiesType
<1>b. PICK g : g = ring[1].gen
  OBVIOUS
<1>c. PICK at : at = ring[1].at
  OBVIOUS
<1>d. PICK p : p = A_conns[g].owner
  OBVIOUS
<1>e. PICK side : side = A!local(A_conns[g])
  OBVIOUS
<1>f. PICK r : r = A!roleAfter(side, p)
  OBVIOUS
<1>1. ring # <<>> /\ ring' = Tail(ring) /\ ring \in Seq(Events)
  BY DEF A!Event, PartiesType
<1>2. Head(ring) = ring[1] /\ ring[1] \in Events /\ Tail(ring) \in Seq(Events)
  BY <1>1, Tailed
<1>3. g \in Nat /\ at \in Nat
  BY <1>2, <1>b, <1>c DEF Events
<1>4. /\ role' = r /\ roleSeen' = A_clock
      /\ conn' = IF conn # A!None /\ A!takesEvents(conn) /\ A!namedBy(conn, side, p)
                   THEN [conn EXCEPT !.who[side] = r[side]] ELSE conn
      /\ UNCHANGED <<A_conns, A_wire, A_clock>>
  BY <1>2, <1>b, <1>d, <1>e, <1>f DEF A!Event
<1>5. Sent(g, at) /\ A_clock <= at + A_Lag /\ Fresh(Tail(ring))
  BY <1>1, <1>b, <1>c, FreshTail
<1>6. n \in Nat /\ n = Len(A_conns) /\ A_clock \in Nat /\ g \in 1..n /\ at <= A_clock
  BY <1>5, <1>a DEF Sent, PartiesType
<1>7. \A h \in 1..n : A_conns[h] \in Connections
  BY <1>6, Elements DEF PartiesType
<1>8. p \in Owner /\ side \in A!Side /\ (side = "server" <=> ~A_conns[g].outgoing) /\ A_conns[g].outgoing \in BOOLEAN
      /\ \A h \in 1..n : A_conns[h].at \in Nat
  BY <1>6, <1>7, <1>d, <1>e DEF Connections, A!local, A!Side
<1>9. /\ r \in [A!Side -> Party] /\ r[side] = p
      /\ side = "client" => r["server"] = Nobody
  <2>1. role \in [A!Side -> Party]
    BY DEF PartiesType
  <2>2. A!NoOne \in [A!Side -> Party] /\ A!NoOne["server"] = Nobody
    BY DEF A!NoOne, A!Side, Party
  <2>3. CASE side = "client"
    <3>1. r = [A!NoOne EXCEPT !["client"] = p]
      BY <1>f, <2>3 DEF A!roleAfter
    <3>2. QED BY <1>8, <2>2, <2>3, <3>1 DEF A!Side, Party
  <2>4. CASE side = "server"
    <3>1. r = [role EXCEPT !["server"] = p]
      BY <1>f, <2>4 DEF A!roleAfter
    <3>2. QED BY <1>8, <2>1, <2>4, <3>1 DEF A!Side, Party
  <2>5. QED BY <1>8, <2>3, <2>4 DEF A!Side
<1>10. conn # A!None => conn \in Conn /\ conn.who \in [A!Side -> Party] /\ conn.gen \in 1..n /\ conn.last \in Nat
  <2>1. conn # A!None => conn \in Conn
    BY DEF PartiesType
  <2>2. QED BY <1>6, <2>1 DEF Conn, FlowInTime
<1>11. /\ conn' \in Conn \cup {A!None} /\ (conn' = A!None <=> conn = A!None)
       /\ conn # A!None => /\ conn'.gen = conn.gen /\ conn'.syn = conn.syn
                           /\ conn'.closed = conn.closed /\ conn'.last = conn.last
  <2>1. CASE conn' = conn
    BY <2>1 DEF PartiesType
  <2>2. CASE conn # A!None /\ conn' = [conn EXCEPT !.who[side] = r[side]]
    <3>1. conn'.gen = conn.gen /\ conn'.syn = conn.syn /\ conn'.closed = conn.closed /\ conn'.last = conn.last
      BY <1>10, <2>2 DEF Conn
    <3>2. conn' \in Conn
      BY <1>8, <1>9, <1>10, <2>2 DEF Conn
    <3>3. conn' # A!None
      BY <3>2 DEF Conn, A!None
    <3>4. QED BY <2>2, <3>1, <3>2, <3>3
  <2>3. QED BY <1>4, <2>1, <2>2
<1>12. PartiesType' /\ Sequel' /\ Fresh(A_wire)'
  BY <1>1, <1>2, <1>4, <1>9, <1>11 DEF PartiesType, Sequel, Fresh, Sent
<1>13. Fresh(ring)'
  BY <1>1, <1>4, <1>5 DEF Fresh, Sent
<1>14. InOrder' /\ FlowInTime'
  BY <1>4, <1>11 DEF InOrder, FlowInTime
<1>15. AllBegun'
  BY <1>4, <1>11 DEF AllBegun, Begun
<1>16. A_conns[g].ended => A_clock <= A_conns[g].at + A_Lag
  BY <1>3, <1>5, <1>6, <1>8, Windows DEF Sent
<1>17. RoleInTime'
  <2>1. ASSUME role'["server"] # Nobody PROVE role'["server"] = p
    BY <1>4, <1>8, <1>9, <2>1 DEF A!Side
  <2>2. \A h \in 1..n : h < g => A_conns[h].at + A_Reuse <= A_clock
    BY <1>3, <1>5, <1>6, <1>8, Windows DEF Sent
  <2>3. QED BY <1>4, <1>6, <1>16, <1>d, <2>1, <2>2 DEF RoleInTime
<1>18. ASSUME conn # A!None, A!takesEvents(conn), ~A_conns[conn.gen].outgoing
       PROVE  A_conns[conn.gen].owner = p
  <2>1. PICK f \in 1..n : f = conn.gen
    BY <1>10, <1>18
  <2>2. PICK since \in Nat : since = conn.last
    BY <1>10, <1>18
  <2>3. ~(g < f)
    <3>1. SUFFICES ASSUME g < f PROVE FALSE
      OBVIOUS
    <3>2. A_conns[g].ended /\ A_conns[g].at + A_Reuse <= A_conns[f].at /\ A_conns[f].at <= A_clock
      BY <1>6, <3>1 DEF Sequel
    <3>3. QED BY <1>6, <1>8, <1>16, <3>2, Windows
  <2>4. ~(f < g)
    <3>1. SUFFICES ASSUME f < g PROVE FALSE
      OBVIOUS
    <3>2. A_conns[f].ended /\ A_conns[f].at + A_Reuse <= at
      BY <1>5, <1>6, <3>1 DEF Sequel, Sent
    <3>3. since <= A_conns[f].at + A_Lag
      BY <1>18, <2>1, <2>2, <3>2 DEF FlowInTime
    <3>4. ~(A_clock - since < A_LateWindow)
      BY <1>3, <1>6, <1>8, <3>2, <3>3, Windows
    <3>5. ~conn.closed
      BY <1>18, <2>2, <3>4 DEF A!takesEvents
    <3>6. PICK i \in 1..Len(A_wire) : A_wire[i].gen = f
      BY <1>18, <2>1, <3>2, <3>5 DEF FlowInTime
    <3>7. PICK sentAt \in Nat : sentAt = A_wire[i].at
      <4>1. A_wire[i] \in Packets
        BY Elements DEF PartiesType
      <4>2. QED BY <4>1 DEF Packets
    <3>8. sentAt <= A_conns[f].at /\ A_clock <= sentAt + A_Lag
      BY <3>2, <3>6, <3>7 DEF Fresh, Sent
    <3>9. QED BY <1>3, <1>6, <1>8, <3>2, <3>8, Windows
  <2>5. QED BY <1>3, <1>d, <2>1, <2>3, <2>4
<1>19. InboundOwn'
  <2>1. ASSUME conn # A!None, conn.syn # 0, ~A_conns[conn.syn].outgoing
        PROVE  conn'.who["server"] \in {Nobody, A_conns[conn.syn].owner}
    <3>1. conn.syn = conn.gen
      BY <2>1 DEF FlowInTime
    <3>2. conn.who["server"] \in {Nobody, A_conns[conn.syn].owner}
      BY <2>1 DEF InboundOwn, A!InboundOwn, A!own
    <3>3. CASE conn' = conn
      BY <3>2, <3>3
    <3>4. CASE A!takesEvents(conn) /\ conn' = [conn EXCEPT !.who[side] = r[side]]
      <4>1. A_conns[conn.syn].owner = p
        BY <1>18, <2>1, <3>1, <3>4
      <4>2. A_conns[g].outgoing = A_conns[conn.gen].outgoing
        BY <1>6, <1>10, <2>1 DEF Sequel
      <4>3. side = "server"
        BY <1>8, <2>1, <3>1, <4>2
      <4>4. conn'.who["server"] = p
        BY <1>9, <1>10, <2>1, <3>4, <4>3 DEF Conn, A!Side
      <4>5. QED BY <4>1, <4>4
    <3>5. QED BY <1>4, <3>3, <3>4
  <2>2. QED BY <1>4, <1>11, <2>1 DEF InboundOwn, A!InboundOwn, A!own
<1>20. ASSUME conn' # conn PROVE A!keepsTheKnown
  <2>1. conn # A!None /\ A!namedBy(conn, side, p) /\ conn' = [conn EXCEPT !.who[side] = r[side]]
    BY <1>4, <1>20
  <2>2. \A s \in A!Side : conn'.who[s] = IF s = side THEN p ELSE conn.who[s]
    BY <1>9, <1>10, <2>1 DEF Conn
  <2>3. conn.who[side] \in {Nobody, p}
    BY <2>1 DEF A!namedBy
  <2>4. QED BY <2>2, <2>3 DEF A!keepsTheKnown
<1>21. QED BY <1>12, <1>13, <1>14, <1>15, <1>17, <1>19, <1>20

LEMMA PacketStep == PartiesInv /\ A!Packet => PartiesInv' /\ (conn' # conn => A!keepsTheKnown)
<1> SUFFICES ASSUME PartiesInv, A!Packet PROVE PartiesInv' /\ (conn' # conn => A!keepsTheKnown)
  OBVIOUS
<1> USE DEF PartiesInv
<1>a. PICK n \in Nat : n = Len(A_conns)
  BY Elements DEF PartiesType
<1>b. PICK m \in Nat : m = Len(A_wire)
  BY Elements DEF PartiesType
<1>c. PICK p : p = A_wire[1]
  OBVIOUS
<1>d. PICK g : g = p.gen
  OBVIOUS
<1>e. PICK at : at = p.at
  OBVIOUS
<1>1. A_wire # <<>> /\ A_wire' = Tail(A_wire) /\ A_wire \in Seq(Packets)
  BY DEF A!Packet, PartiesType
<1>2. /\ Head(A_wire) = p /\ p \in Packets /\ Tail(A_wire) \in Seq(Packets)
      /\ m \in Nat \ {0} /\ m = Len(A_wire) /\ Len(A_wire') = m - 1
      /\ \A i \in 1..(m - 1) : A_wire'[i] = A_wire[i + 1]
  BY <1>1, <1>b, <1>c, Tailed
<1>3. g \in Nat /\ at \in Nat /\ p.kind \in {"syn", "data", "end"}
  BY <1>2, <1>d, <1>e DEF Packets
<1>4. Sent(g, at) /\ A_clock <= at + A_Lag /\ Fresh(Tail(A_wire))
  BY <1>1, <1>c, <1>d, <1>e, FreshTail
<1>5. n \in Nat /\ n = Len(A_conns) /\ A_clock \in Nat /\ g \in 1..n /\ at <= A_clock
  BY <1>4, <1>a DEF Sent, PartiesType
<1>6. \A h \in 1..n : A_conns[h].at \in Nat
  <2>1. \A h \in 1..n : A_conns[h] \in Connections
    BY <1>5, Elements DEF PartiesType
  <2>2. QED BY <2>1 DEF Connections
<1>f. PICK prior : prior = (conn # A!None /\ p.kind = "syn" /\ conn.syn # g)
  OBVIOUS
<1>g. PICK who : who = IF A!inheritsRole(prior, p.kind = "syn" /\ ~A_conns[g].outgoing) THEN role ELSE A!NoOne
  OBVIOUS
<1>h. PICK fresh : fresh = [gen |-> g, syn |-> IF p.kind = "syn" THEN g ELSE 0, who |-> who,
                            closed |-> FALSE, last |-> A_clock]
  OBVIOUS
<1>i. PICK f : f = IF conn = A!None \/ prior THEN fresh ELSE conn
  OBVIOUS
<1>7. /\ conn' = [f EXCEPT !.last = A_clock, !.closed = @ \/ p.kind = "end"]
      /\ UNCHANGED <<A_conns, ring, role, roleSeen, A_clock>>
  BY <1>2, <1>d, <1>f, <1>g, <1>h, <1>i DEF A!Packet
<1>8. who \in [A!Side -> Party] /\ (who["server"] # Nobody => who = role /\ A!inheritsRole(prior, p.kind = "syn" /\ ~A_conns[g].outgoing))
  BY <1>g DEF PartiesType, A!NoOne, A!Side, Party
<1>9. conn # A!None => /\ conn \in Conn /\ conn.gen \in 1..n /\ conn.syn \in {0, conn.gen}
                       /\ conn.gen <= g /\ (p.kind = "syn" => conn.gen < g)
  <2>1. conn # A!None => conn \in Conn
    BY DEF PartiesType
  <2>2. conn # A!None => conn.gen \in 1..n /\ conn.syn \in {0, conn.gen}
    BY <1>5 DEF FlowInTime
  <2>3. 1 \in 1..m
    BY <1>2
  <2>4. conn # A!None => conn.gen <= g /\ (p.kind = "syn" => conn.gen < g)
    BY <1>2, <1>c, <1>d, <2>3 DEF InOrder
  <2>5. QED BY <2>1, <2>2, <2>4
<1>10. p.kind # "syn" => conn = A!None \/ conn.gen = g
  <2>1. 1 \in 1..m /\ \A i \in 1..m : ~(i < 1)
    BY <1>2
  <2>2. p.kind # "syn" => Begun(g, 1)
    BY <1>2, <1>c, <1>d, <2>1 DEF AllBegun
  <2>3. QED BY <1>2, <2>1, <2>2 DEF Begun
<1>11. conn # A!None => (prior <=> p.kind = "syn")
  <2>1. conn # A!None /\ p.kind = "syn" => conn.syn # g
    BY <1>3, <1>5, <1>9
  <2>2. QED BY <2>1, <1>f
<1>12. /\ f \in Conn /\ f.gen = g /\ f.syn \in {0, g}
       /\ \/ f = fresh
          \/ f = conn /\ conn # A!None /\ conn.gen = g
  <2>1. CASE conn = A!None \/ prior
    <3>1. f = fresh
      BY <1>i, <2>1
    <3>2. fresh \in Conn /\ fresh.gen = g /\ fresh.syn \in {0, g}
      BY <1>3, <1>5, <1>8, <1>h DEF Conn
    <3>3. QED BY <3>1, <3>2
  <2>2. CASE ~(conn = A!None \/ prior)
    <3>1. f = conn /\ conn # A!None /\ conn.gen = g
      BY <1>10, <1>11, <1>i, <2>2
    <3>2. QED BY <1>9, <3>1
  <2>3. QED BY <2>1, <2>2
<1>13. /\ conn' \in Conn /\ conn' # A!None /\ conn'.gen = g /\ conn'.syn = f.syn /\ conn'.who = f.who
       /\ conn'.last = A_clock /\ (p.kind = "end" => conn'.closed)
  <2>1. conn' \in Conn /\ conn'.gen = g /\ conn'.syn = f.syn /\ conn'.who = f.who
        /\ conn'.last = A_clock /\ (p.kind = "end" => conn'.closed)
    BY <1>5, <1>7, <1>12 DEF Conn
  <2>2. conn' # A!None
    BY <2>1 DEF Conn, A!None
  <2>3. QED BY <2>1, <2>2
<1>14. PartiesType' /\ Sequel' /\ RoleInTime'
  BY <1>1, <1>2, <1>7, <1>13 DEF PartiesType, Sequel, RoleInTime
<1>15. Fresh(A_wire)' /\ Fresh(ring)'
  BY <1>1, <1>4, <1>7 DEF Fresh, Sent
<1>16. /\ \A i \in 1..(m - 1) : i + 1 \in 1..m /\ A_wire'[i] = A_wire[i + 1]
       /\ \A i \in 1..m : i = 1 \/ (i - 1 \in 1..(m - 1) /\ A_wire'[i - 1] = A_wire[i])
       /\ m - 1 = Len(A_wire') /\ 1 \in 1..m
  <2>1. \A i \in 1..(m - 1) : i + 1 \in 1..m
    BY <1>2
  <2>2. \A i \in 1..m : i = 1 \/ (i - 1 \in 1..(m - 1) /\ (i - 1) + 1 = i)
    BY <1>2
  <2>3. 1 \in 1..m
    BY <1>2
  <2>4. QED BY <1>2, <2>1, <2>2, <2>3
<1>17. \A i \in 1..m : /\ A_wire[i].gen \in 1..n /\ g <= A_wire[i].gen
                       /\ i # 1 /\ A_wire[i].kind = "syn" => g < A_wire[i].gen
  <2>1. \A i \in 1..m : A_wire[i].gen \in 1..n
    BY <1>2, <1>5 DEF Fresh, Sent
  <2>2. \A i \in 1..m : i # 1 => 1 < i
    BY <1>2
  <2>3. \A i \in 1..m : i # 1 => g <= A_wire[i].gen /\ (A_wire[i].kind = "syn" => g < A_wire[i].gen)
    BY <1>2, <1>16, <1>c, <1>d, <2>2 DEF InOrder
  <2>4. QED BY <1>5, <1>c, <1>d, <2>1, <2>3
<1>18. InOrder'
  <2>1. ASSUME NEW i \in 1..(m - 1), NEW j \in 1..(m - 1), i < j
        PROVE  /\ A_wire'[i].gen <= A_wire'[j].gen
               /\ A_wire'[j].kind = "syn" => A_wire'[i].gen < A_wire'[j].gen
    <3>1. i + 1 < j + 1
      BY <2>1
    <3>2. QED BY <1>2, <1>16, <3>1 DEF InOrder
  <2>2. ASSUME NEW i \in 1..(m - 1), A_conns'[A_wire'[i].gen].ended, A_wire'[i].kind # "end"
        PROVE  \E j \in 1..(m - 1) : i < j /\ A_wire'[j].kind = "end" /\ A_wire'[j].gen = A_wire'[i].gen
    <3>1. PICK j \in 1..m : i + 1 < j /\ A_wire[j].kind = "end" /\ A_wire[j].gen = A_wire[i + 1].gen
      BY <1>2, <1>7, <1>16, <2>2 DEF InOrder
    <3>2. j # 1 /\ i < j - 1
      BY <3>1
    <3>3. QED BY <1>16, <3>1, <3>2
  <2>3. \A i \in 1..(m - 1) : g <= A_wire'[i].gen /\ (A_wire'[i].kind = "syn" => g < A_wire'[i].gen)
    <3>1. \A i \in 1..(m - 1) : i + 1 # 1
      BY <1>2
    <3>2. QED BY <1>16, <1>17, <3>1
  <2>4. QED BY <1>13, <1>16, <2>1, <2>2, <2>3 DEF InOrder
<1>19. ASSUME NEW G \in 1..n, NEW j \in 1..m, Begun(G, j + 1),
              \A i \in 1..m : i < j + 1 => A_wire[i].gen <= G
       PROVE  Begun(G, j)'
  <2>1. 1 < j + 1
    BY <1>2
  <2>2. ASSUME G = g PROVE Begun(G, j)'
    <3>1. \A i \in 1..(m - 1) : i < j => i + 1 < j + 1
      BY <1>2
    <3>2. \A i \in 1..(m - 1) : i < j => A_wire'[i].gen <= G /\ G <= A_wire'[i].gen /\ A_wire'[i].gen \in Nat
      BY <1>16, <1>17, <1>19, <2>2, <3>1
    <3>3. \A i \in 1..(m - 1) : i < j => A_wire'[i].gen = G
      BY <3>2
    <3>4. QED BY <1>13, <1>16, <2>2, <3>3 DEF Begun
  <2>3. CASE \E k \in 1..m : k < j + 1 /\ A_wire[k].kind = "syn" /\ A_wire[k].gen = G
    <3>1. PICK k \in 1..m : k < j + 1 /\ A_wire[k].kind = "syn" /\ A_wire[k].gen = G
      BY <2>3
    <3>2. CASE k = 1
      BY <1>c, <1>d, <2>2, <3>1, <3>2
    <3>3. CASE k # 1
      <4>1. k - 1 < j /\ k - 1 \in 1..(m - 1) /\ A_wire'[k - 1].kind = "syn" /\ A_wire'[k - 1].gen = G
        BY <1>16, <3>1, <3>3
      <4>2. QED BY <1>16, <4>1 DEF Begun
    <3>4. QED BY <3>2, <3>3
  <2>4. CASE \A i \in 1..m : i < j + 1 => A_wire[i].gen = G
    BY <1>16, <1>c, <1>d, <2>1, <2>2, <2>4
  <2>5. QED BY <1>2, <1>19, <2>3, <2>4 DEF Begun
<1>20. AllBegun'
  <2>1. ASSUME NEW j \in 1..(m - 1), A_wire'[j].kind # "syn" PROVE Begun(A_wire[j].gen, j)'
    <3>1. PICK G \in 1..n : G = A_wire[j + 1].gen
      BY <1>16, <1>17
    <3>2. A_wire'[j].gen = G /\ A_wire[j + 1].kind # "syn" /\ j + 1 \in 1..m /\ j \in 1..m
      BY <1>2, <1>16, <2>1, <3>1
    <3>3. Begun(G, j + 1)
      BY <1>2, <3>1, <3>2 DEF AllBegun
    <3>4. \A i \in 1..m : i < j + 1 => A_wire[i].gen <= G
      BY <1>2, <3>1, <3>2 DEF InOrder
    <3>5. Begun(G, j)'
      BY <1>19, <3>2, <3>3, <3>4
    <3>6. QED BY <3>2, <3>5
  <2>2. Begun(n, m)'
    <3>1. Begun(n, m + 1) /\ n \in 1..n /\ m \in 1..m
      BY <1>2, <1>5 DEF AllBegun
    <3>2. \A i \in 1..m : A_wire[i].gen <= n
      BY <1>5, <1>17
    <3>3. QED BY <1>19, <3>1, <3>2
  <2>3. (m - 1) + 1 = m
    BY <1>2
  <2>4. QED BY <1>5, <1>7, <1>16, <2>1, <2>2, <2>3 DEF AllBegun
<1>21. FlowInTime'
  <2>1. ASSUME A_conns[g].ended
        PROVE  /\ A_clock <= A_conns[g].at + A_Lag
               /\ \/ conn'.closed
                  \/ \E i \in 1..(m - 1) : A_wire'[i].kind = "end" /\ A_wire'[i].gen = g
    <3>1. A_clock <= A_conns[g].at + A_Lag
      BY <1>3, <1>4, <1>5, <1>6, <2>1, Windows DEF Sent
    <3>2. CASE p.kind = "end"
      BY <1>13, <3>1, <3>2
    <3>3. CASE p.kind # "end"
      <4>1. PICK j \in 1..m : 1 < j /\ A_wire[j].kind = "end" /\ A_wire[j].gen = g
        BY <1>2, <1>16, <1>c, <1>d, <2>1, <3>3 DEF InOrder
      <4>2. j # 1
        BY <4>1
      <4>3. QED BY <1>16, <3>1, <4>1, <4>2
    <3>4. QED BY <3>2, <3>3
  <2>2. QED BY <1>5, <1>7, <1>12, <1>13, <1>16, <2>1 DEF FlowInTime
<1>22. InboundOwn'
  <2>1. ASSUME f = fresh, f.syn # 0, ~A_conns[f.syn].outgoing, who["server"] # Nobody
        PROVE  who["server"] = A_conns[f.syn].owner
    <3>1. p.kind = "syn" /\ f.syn = g /\ ~A_conns[g].outgoing
      BY <1>12, <1>h, <2>1
    <3>2. who = role /\ A!inheritsRole(prior, p.kind = "syn" /\ ~A_conns[g].outgoing)
      BY <1>8, <2>1
    <3>3. roleSeen \in Nat /\ A_clock - roleSeen < A_LateWindow
      BY <3>1, <3>2 DEF A!inheritsRole, PartiesType
    <3>4. \A h \in 1..n : ~A_conns[h].outgoing
      BY <1>5, <3>1 DEF Sequel
    <3>5. PICK e \in 1..n :
            /\ role["server"] = A_conns[e].owner
            /\ A_conns[e].ended => roleSeen <= A_conns[e].at + A_Lag
            /\ \A h \in 1..n : h < e => A_conns[h].at + A_Reuse <= roleSeen
      BY <1>5, <2>1, <3>2, <3>4 DEF RoleInTime
    <3>6. roleSeen <= A_clock
      BY DEF RoleInTime
    <3>7. ~(e < g)
      <4>1. SUFFICES ASSUME e < g PROVE FALSE
        OBVIOUS
      <4>2. A_conns[e].ended /\ A_conns[e].at + A_Reuse <= at
        BY <1>4, <1>5, <4>1 DEF Sequel, Sent
      <4>3. QED BY <1>3, <1>5, <1>6, <3>3, <3>5, <4>2, Windows
    <3>8. ~(g < e)
      <4>1. SUFFICES ASSUME g < e PROVE FALSE
        OBVIOUS
      <4>2. A_conns[g].ended /\ A_conns[g].at + A_Reuse <= roleSeen
        BY <1>5, <3>5, <4>1 DEF Sequel
      <4>3. at <= A_conns[g].at
        BY <1>4, <4>2 DEF Sent
      <4>4. QED BY <1>3, <1>4, <1>5, <1>6, <3>3, <3>6, <4>2, <4>3, Windows
    <3>9. e = g
      BY <1>5, <3>7, <3>8
    <3>10. QED BY <3>1, <3>2, <3>5, <3>9
  <2>2. ASSUME f = fresh, f.syn # 0, ~A_conns[f.syn].outgoing
        PROVE  f.who["server"] \in {Nobody, A_conns[f.syn].owner}
    BY <1>h, <2>1, <2>2
  <2>3. ASSUME f = conn, conn # A!None, f.syn # 0, ~A_conns[f.syn].outgoing
        PROVE  f.who["server"] \in {Nobody, A_conns[f.syn].owner}
    BY <2>3 DEF InboundOwn, A!InboundOwn, A!own
  <2>4. QED BY <1>7, <1>12, <1>13, <2>2, <2>3 DEF InboundOwn, A!InboundOwn, A!own
<1>23. A!keepsTheKnown
  <2>1. ASSUME conn # A!None, conn'.gen = conn.gen PROVE conn'.who = conn.who
    <3>1. conn.gen = g /\ conn.gen \in Nat
      BY <1>9, <1>13, <2>1
    <3>2. p.kind # "syn"
      BY <1>9, <2>1, <3>1
    <3>3. f = conn
      BY <1>11, <1>i, <2>1, <3>2
    <3>4. QED BY <1>13, <3>3
  <2>2. QED BY <2>1 DEF A!keepsTheKnown
<1>24. QED BY <1>14, <1>15, <1>18, <1>20, <1>21, <1>22, <1>23

LEMMA PartiesStays == PartiesInv /\ UNCHANGED participants => PartiesInv'
<1> SUFFICES ASSUME PartiesInv, UNCHANGED participants PROVE PartiesInv'
  OBVIOUS
<1> USE DEF PartiesInv, participants
<1>1. PartiesType' /\ Sequel' /\ Fresh(A_wire)' /\ Fresh(ring)'
  BY DEF PartiesType, Sequel, Fresh, Sent
<1>2. InOrder' /\ FlowInTime' /\ RoleInTime' /\ InboundOwn'
  BY DEF InOrder, FlowInTime, RoleInTime, InboundOwn, A!InboundOwn, A!own
<1>3. AllBegun'
  BY DEF AllBegun, Begun
<1>4. QED BY <1>1, <1>2, <1>3

LEMMA PartiesStep ==
  PartiesInv /\ [CollectorNext]_all => PartiesInv' /\ [A!keepsTheKnown]_participants
<1> SUFFICES ASSUME PartiesInv, [CollectorNext]_all
             PROVE  PartiesInv' /\ [A!keepsTheKnown]_participants
  OBVIOUS
<1>1. A!Next \/ UNCHANGED participants
  BY DEF CollectorNext, all
<1>2. CASE UNCHANGED participants
  BY <1>2, PartiesStays
<1>3. ASSUME conn' = conn PROVE A!keepsTheKnown
  BY <1>3 DEF A!keepsTheKnown
<1>4. CASE \E p \in Owner, outgoing \in BOOLEAN : A!Open(p, outgoing)
  <2>1. conn' = conn
    BY <1>4 DEF A!Open
  <2>2. QED BY <1>3, <1>4, <2>1, OpenStep
<1>5. CASE A!Report
  <2>1. conn' = conn
    BY <1>5 DEF A!Report
  <2>2. QED BY <1>3, <1>5, <2>1, ReportStep
<1>6. CASE \E kind \in {"data", "end"} : A!Send(kind)
  <2>1. conn' = conn
    BY <1>6 DEF A!Send
  <2>2. QED BY <1>3, <1>6, <2>1, SendStep
<1>7. CASE A!Tick
  <2>1. conn' = conn
    BY <1>7 DEF A!Tick
  <2>2. QED BY <1>3, <1>7, <2>1, TickStep
<1>8. CASE A!Packet
  BY <1>3, <1>8, PacketStep
<1>9. CASE A!Event
  BY <1>3, <1>9, EventStep
<1>10. CASE A!ExpireRoles
  <2>1. conn' = conn
    BY <1>10 DEF A!ExpireRoles
  <2>2. QED BY <1>3, <1>10, <2>1, RolesGone
<1>11. CASE A!ExpireFlow \/ A!Evict
  <2>1. conn' = A!None /\ UNCHANGED <<A_conns, A_wire, ring, role, roleSeen, A_clock>>
    BY <1>11 DEF A!ExpireFlow, A!Evict
  <2>2. A!keepsTheKnown
    <3>1. conn # A!None => conn.gen # 0
      BY DEF PartiesInv, PartiesType, Conn
    <3>2. conn'.gen = 0
      BY <2>1 DEF A!None
    <3>3. QED BY <3>1, <3>2 DEF A!keepsTheKnown
  <2>3. QED BY <2>1, <2>2, FlowGone
<1>12. QED BY <1>1, <1>2, <1>4, <1>5, <1>6, <1>7, <1>8, <1>9, <1>10, <1>11 DEF A!Next

(* An inbound connection is never shown with the process of an earlier or a   *)
(* later connection of its five-tuple (packetAt, eventAt): for any number of  *)
(* connections, any processes, any lag and windows that are shorter than the  *)
(* time a five-tuple is at rest.                                            *)
THEOREM OwnParticipants == CollectorSpec => []InboundOwn
<1>1. CollectorInit => PartiesInv
  BY PartiesInit DEF CollectorInit
<1>2. PartiesInv /\ [CollectorNext]_all => PartiesInv'
  BY PartiesStep
<1>3. PartiesInv => InboundOwn
  BY DEF PartiesInv
<1>4. QED BY <1>1, <1>2, <1>3, PTL DEF CollectorSpec

(* A participant that is known stays for as long as the flow does (eventAt).  *)
THEOREM KnownParticipants == CollectorSpec => KnownStays
<1>1. CollectorInit => PartiesInv
  BY PartiesInit DEF CollectorInit
<1>2. PartiesInv /\ [CollectorNext]_all => PartiesInv' /\ [A!keepsTheKnown]_participants
  BY PartiesStep
<1>3. QED BY <1>1, <1>2, PTL DEF CollectorSpec, KnownStays
(***************************************************************************)
(* The NAT table: the inductive invariant.                                 *)
(***************************************************************************)
Tuples == FromClient \cup FromServer
Translations == [orig : FromClient, reply : FromServer]
Requests == [tuple : Tuples, from : T!ends, of : Nat]
Lookups == [tuple : Tuples, from : T!ends, of : Nat, reversed : BOOLEAN]
Asked == [seq : Nat, tuple : Tuples, of : Nat, from : T!ends]
Answers == [seq : Nat, ok : {FALSE}] \cup [seq : Nat, ok : {TRUE}, entry : Translations]
Flows == [on : BOOLEAN, of : Nat, nat : Nat, last : Nat]

(* The entries there were, of which only when they were seen changes. *)
Made == /\ made \in Seq({made[x] : x \in DOMAIN made})
        /\ \A x \in DOMAIN made : "entry" \in DOMAIN made[x] /\ made[x].entry \in Translations

NATType ==
  /\ opens \in Nat /\ seq \in Nat /\ T_now \in Nat
  /\ DOMAIN open \subseteq Translations /\ \A e \in DOMAIN open : open[e] \in 1..opens
  /\ tracked \subseteq DOMAIN open
  /\ asked \in Seq(Asked) /\ T_answers \in Seq(Answers)
  /\ T_flows \in [Tuples -> Flows]
  /\ requests \in Seq(Requests) /\ results \in Seq(Translations)
  /\ lookup \in Lookups \cup {T!NoLookup}
  /\ entries \in [Tuples -> Nat] /\ Made

(* No two connections have a tuple in common. *)
Disjoint == \A d, e \in DOMAIN open : d # e => T!tuplesOf(d) \cap T!tuplesOf(e) = {}

(* Nothing is about a connection or a lookup to come. *)
NothingToCome ==
  /\ \A t \in Tuples : T_flows[t].of <= opens
  /\ \A i \in 1..Len(requests) : requests[i].of <= opens
  /\ lookup.of <= opens
  /\ \A i \in 1..Len(asked) : asked[i].seq <= seq
  /\ \A i \in 1..Len(T_answers) : T_answers[i].seq <= seq

(* What the table has for a tuple, and a flow is linked to, has the tuple. *)
HasTuple(t, x) == x # 0 => x \in 1..Len(made) /\ t \in T!tuplesOf(made[x].entry)
LinkedRight == \A t \in Tuples : HasTuple(t, entries[t]) /\ HasTuple(t, T_flows[t].nat)

(* The lookup under way: the connection it is about, if that is still open;  *)
(* and when it was answered that there is none, that was the wrong direction *)
(* or the connection was not tracked.                                       *)
LookedUp(e) == open[e] = lookup.of /\ lookup.tuple \in T!tuplesOf(e)
Finds(from, e) == <<lookup.tuple, from>> \in {<<e.orig, "client">>, <<e.reply, "server">>}
WrongWay(from) ==
  \/ <<lookup.tuple, lookup.of>> \in missed
  \/ \A e \in DOMAIN open : LookedUp(e) => e \in tracked /\ ~Finds(from, e)
direction == IF lookup.reversed THEN T!opposite(lookup.from) ELSE lookup.from
RightAnswer(a) ==
  IF a.ok THEN lookup.tuple \in T!tuplesOf(a.entry) /\ \A e \in DOMAIN open : LookedUp(e) => a.entry = e
  ELSE WrongWay(direction)
Given(a) == \E i \in 1..Len(T_answers) : T_answers[i] = a
Current ==
  lookup # T!NoLookup =>
    /\ \A i \in 1..Len(asked) : asked[i].seq = seq =>
         asked[i].tuple = lookup.tuple /\ asked[i].of = lookup.of /\ asked[i].from = direction
    /\ \A a \in Answers : Given(a) /\ a.seq = seq => RightAnswer(a)
    /\ \A from \in T!ends : lookup.reversed /\ from = lookup.from => WrongWay(from)

(* Every connection that is translated is linked or its lookup on the way,    *)
(* tracked or not.                                                          *)
Accounted(t, of) ==
  T_flows[t].nat # 0 \/ T!onTheWay(t, of) \/ <<t, of>> \in missed
Waited ==
  \A e \in DOMAIN open : T!NAT(e) => \A t \in T!tuplesOf(e) :
    T_flows[t].on /\ T_flows[t].of = open[e] => Accounted(t, open[e])

NATInv == NATType /\ Disjoint /\ NothingToCome /\ LinkedRight /\ Current /\ Waited
LEMMA TranslationTuples ==
  /\ \A e \in Translations : T!tuplesOf(e) \subseteq Tuples /\ e.orig \in Tuples /\ e.reply \in Tuples
  /\ NoTuple \notin Tuples
  BY CollectorAssumption DEF Translations, Tuples, T!tuplesOf

LEMMA LookupIs ==
  ASSUME NATType
  PROVE  /\ lookup.tuple = NoTuple => lookup = T!NoLookup
         /\ lookup = T!NoLookup => lookup.tuple = NoTuple /\ lookup.of = 0
         /\ lookup # T!NoLookup => lookup \in Lookups
  BY TranslationTuples DEF NATType, Lookups, T!NoLookup

LEMMA NATInit == T!Init => NATInv
<1> SUFFICES ASSUME T!Init PROVE NATInv OBVIOUS
<1> USE DEF T!Init
<1>1. DOMAIN open = {} /\ made = <<>> OBVIOUS
<1>2. Made BY <1>1 DEF Made
<1>3. NATType BY <1>1, <1>2 DEF NATType, T!NoFlow, Flows, Tuples
<1>4. Disjoint /\ NothingToCome BY <1>1 DEF Disjoint, NothingToCome, T!NoFlow, T!NoLookup, Tuples
<1>5. LinkedRight BY DEF LinkedRight, HasTuple, T!NoFlow, Tuples
<1>6. Current /\ Waited BY <1>1 DEF Current, Waited
<1>7. QED BY <1>3, <1>4, <1>5, <1>6 DEF NATInv

(***************************************************************************)
(* Connections and conntrack.                                              *)
(***************************************************************************)
(* What a step that leaves the main loop and the resolver alone keeps.  *)
LEMMA KernelOnly ==
  ASSUME NATInv, UNCHANGED <<T_flows, requests, lookup, seq, results, entries, made, T_now>>,
         opens' \in Nat, opens <= opens'
  PROVE  /\ Made' /\ LinkedRight'
         /\ \A t \in Tuples : T_flows'[t].of <= opens'
         /\ \A i \in 1..Len(requests') : requests'[i].of <= opens'
         /\ lookup'.of <= opens'
<1>1. Made' /\ LinkedRight' BY DEF NATInv, NATType, Made, LinkedRight, HasTuple
<1>2. \A t \in Tuples : T_flows[t].of \in Nat BY DEF NATInv, NATType, Flows
<1>3. \A i \in 1..Len(requests) : requests[i].of \in Nat
  <2>1. \A i \in 1..Len(requests) : requests[i] \in Requests BY Elements DEF NATInv, NATType
  <2>2. QED BY <2>1 DEF Requests
<1>4. lookup.of \in Nat BY LookupIs DEF NATInv, Lookups
<1>5. opens \in Nat BY DEF NATInv, NATType
<1>6. QED BY <1>1, <1>2, <1>3, <1>4, <1>5 DEF NATInv, NothingToCome

LEMMA OpenConnection == ASSUME NATInv, NEW e \in Translations, T!Open(e) PROVE NATInv'
<1> USE DEF NATInv
<1>1. /\ opens' = opens + 1 /\ T!tuplesOf(e) \cap T!inUse = {}
      /\ open' = [x \in DOMAIN open \cup {e} |-> IF x = e THEN opens + 1 ELSE open[x]]
      /\ UNCHANGED <<T_flows, requests, lookup, seq, results, entries, made, T_now>>
      /\ UNCHANGED <<tracked, asked, T_answers, missed>>
  BY DEF T!Open, T!resolver, T!table
<1>2. opens \in Nat /\ opens' \in Nat /\ opens <= opens' BY <1>1 DEF NATType
<1>3. e \notin DOMAIN open /\ \A d \in DOMAIN open : T!tuplesOf(d) \cap T!tuplesOf(e) = {}
  BY <1>1 DEF T!inUse, T!tuplesOf
<1>4. /\ DOMAIN open' = DOMAIN open \cup {e} /\ open'[e] = opens + 1
      /\ \A d \in DOMAIN open : open'[d] = open[d] /\ open[d] \in 1..opens
  BY <1>1, <1>3 DEF NATType
<1>5. NATType'
  <2>1. \A d \in DOMAIN open' : open'[d] \in 1..opens' BY <1>1, <1>2, <1>4
  <2>2. DOMAIN open' \subseteq Translations /\ tracked' \subseteq DOMAIN open'
    BY <1>1, <1>4 DEF NATType
  <2>3. QED BY <1>1, <1>2, <2>1, <2>2, KernelOnly DEF NATType
<1>6. Disjoint' BY <1>3, <1>4 DEF Disjoint, T!tuplesOf
<1>7. NothingToCome' BY <1>1, <1>2, KernelOnly DEF NothingToCome
<1>8. lookup # T!NoLookup => \A d \in DOMAIN open' :
        LookedUp(d)' => d \in DOMAIN open /\ LookedUp(d)
  <2>1. lookup.of <= opens BY DEF NothingToCome
  <2>2. lookup # T!NoLookup => lookup.of \in Nat BY LookupIs DEF Lookups
  <2>3. QED BY <1>1, <1>2, <1>4, <2>1, <2>2 DEF LookedUp
<1>9. lookup # T!NoLookup => \A from \in T!ends : WrongWay(from) => WrongWay(from)'
  BY <1>1, <1>8 DEF WrongWay, Finds
<1>10. lookup # T!NoLookup => direction \in T!ends /\ lookup.from \in T!ends
  BY LookupIs DEF direction, Lookups, T!opposite, T!ends
<1>11. Current'
  <2>1. SUFFICES ASSUME lookup # T!NoLookup
                 PROVE  /\ \A a \in Answers : Given(a) /\ a.seq = seq => RightAnswer(a)'
                        /\ \A from \in T!ends : lookup.reversed /\ from = lookup.from => WrongWay(from)'
    BY <1>1 DEF Current, direction, Given
  <2>2. \A a : RightAnswer(a) => RightAnswer(a)'
    BY <1>1, <1>8, <1>9, <1>10, <2>1 DEF RightAnswer, direction
  <2>3. QED BY <1>9, <2>1, <2>2 DEF Current
<1>12. Waited'
  <2>1. ASSUME NEW t \in T!tuplesOf(e) PROVE T_flows[t].of # open'[e]
    <3>1. t \in Tuples BY TranslationTuples
    <3>2. T_flows[t].of \in Nat /\ T_flows[t].of <= opens BY <3>1 DEF NATType, Flows, NothingToCome
    <3>3. QED BY <1>2, <1>4, <3>2
  <2>2. QED BY <1>1, <1>4, <2>1 DEF Waited, Accounted, T!onTheWay
<1>13. QED BY <1>5, <1>6, <1>7, <1>1, <1>11, <1>12, <1>2, KernelOnly

(* Conntrack tracks a connection, or it ends. *)
LEMMA FewerConnections ==
  ASSUME NATInv, UNCHANGED <<T_flows, requests, lookup, seq, results, entries, made, T_now>>,
         UNCHANGED <<opens, asked, T_answers, missed>>,
         DOMAIN open' \subseteq DOMAIN open, \A e \in DOMAIN open' : open'[e] = open[e],
         tracked' \subseteq DOMAIN open', tracked \cap DOMAIN open' \subseteq tracked'
  PROVE  NATInv'
<1> USE DEF NATInv
<1>1. opens \in Nat /\ opens' \in Nat /\ opens <= opens' BY DEF NATType
<1>2. NATType' BY <1>1, KernelOnly DEF NATType
<1>3. Disjoint' /\ NothingToCome' /\ LinkedRight'
  BY <1>1, KernelOnly DEF Disjoint, NothingToCome
<1>4. \A from : WrongWay(from) => WrongWay(from)'
  BY DEF WrongWay, LookedUp, Finds
<1>5. \A a : RightAnswer(a) => RightAnswer(a)'
  BY <1>4 DEF RightAnswer, LookedUp, direction
<1>6. Current' BY <1>4, <1>5 DEF Current, direction, Given
<1>7. Waited' BY DEF Waited, Accounted, T!onTheWay
<1>8. QED BY <1>2, <1>3, <1>6, <1>7

LEMMA TrackConnection == ASSUME NATInv, NEW e \in Translations, T!Track(e) PROVE NATInv'
<1>1. /\ UNCHANGED <<T_flows, requests, lookup, seq, results, entries, made, T_now>>
      /\ UNCHANGED <<opens, asked, T_answers, missed>> /\ open' = open
      /\ tracked' = tracked \cup {e} /\ e \in DOMAIN open
  BY DEF T!Track, T!resolver, T!table
<1>2. tracked \subseteq DOMAIN open BY DEF NATInv, NATType
<1>3. QED BY <1>1, <1>2, FewerConnections

LEMMA CloseConnection == ASSUME NATInv, NEW e \in Translations, T!Close(e) PROVE NATInv'
<1>1. /\ UNCHANGED <<T_flows, requests, lookup, seq, results, entries, made, T_now>>
      /\ UNCHANGED <<opens, asked, T_answers, missed>>
      /\ tracked' = tracked \ {e} /\ open' = [x \in DOMAIN open \ {e} |-> open[x]]
  BY DEF T!Close, T!resolver, T!table
<1>2. tracked \subseteq DOMAIN open BY DEF NATInv, NATType
<1>3. QED BY <1>1, <1>2, FewerConnections

(* The answer is about the connection of the lookup, if that is still open. *)
LEMMA AnswerLookup == ASSUME NATInv, T!Answer PROVE NATInv'
<1> USE DEF NATInv
<1> DEFINE q == Head(asked)
<1>1. /\ asked # <<>> /\ asked' = Tail(asked)
      /\ UNCHANGED <<T_flows, requests, lookup, seq, results, entries, made, T_now>>
      /\ UNCHANGED <<open, tracked, opens>>
      /\ missed' = IF \E e \in tracked : q.tuple \in T!tuplesOf(e) THEN missed
                   ELSE missed \cup {<<q.tuple, q.of>>}
  BY DEF T!Answer, T!resolver, T!table
<1>2. PICK a : /\ T_answers' = Append(T_answers, a)
               /\ \/ T!matches(q) = {} /\ a = [seq |-> q.seq, ok |-> FALSE]
                  \/ \E e \in T!matches(q) : a = [seq |-> q.seq, ok |-> TRUE, entry |-> e]
  BY DEF T!Answer
<1>3. /\ Tail(asked) \in Seq(Asked) /\ Len(Tail(asked)) = Len(asked) - 1 /\ Len(asked) \in Nat \ {0}
      /\ \A i \in 1..Len(Tail(asked)) : Tail(asked)[i] = asked[i + 1] /\ i + 1 \in 1..Len(asked)
      /\ q = asked[1] /\ q \in Asked /\ 1 \in 1..Len(asked)
  BY <1>1, Tailed DEF NATType
<1> HIDE DEF q
<1>4. tracked \subseteq DOMAIN open /\ DOMAIN open \subseteq Translations BY DEF NATType
<1>5. a \in Answers /\ a.seq = q.seq
  <2>1. T!matches(q) \subseteq Translations BY <1>4 DEF T!matches
  <2>2. q.seq \in Nat BY <1>3 DEF Asked
  <2>3. CASE a = [seq |-> q.seq, ok |-> FALSE] BY <2>2, <2>3 DEF Answers
  <2>4. CASE \E e \in T!matches(q) : a = [seq |-> q.seq, ok |-> TRUE, entry |-> e]
    <3>1. PICK e \in Translations : a = [seq |-> q.seq, ok |-> TRUE, entry |-> e] BY <2>1, <2>4
    <3>2. QED BY <2>2, <3>1 DEF Answers
  <2>5. QED BY <1>2, <2>3, <2>4
<1>6. /\ T_answers' \in Seq(Answers) /\ Len(T_answers') = Len(T_answers) + 1 /\ Len(T_answers) \in Nat
      /\ \A i \in 1..Len(T_answers) : T_answers'[i] = T_answers[i]
      /\ T_answers'[Len(T_answers) + 1] = a
  BY <1>2, <1>5, Appended DEF NATType
<1>7. opens \in Nat /\ opens' \in Nat /\ opens <= opens' BY <1>1 DEF NATType
<1>8. NATType' BY <1>1, <1>3, <1>6, <1>7, KernelOnly DEF NATType
<1>9. NothingToCome'
  <2>1. \A i \in 1..Len(asked') : asked'[i].seq <= seq BY <1>1, <1>3 DEF NothingToCome
  <2>2. \A i \in 1..Len(T_answers') : T_answers'[i].seq <= seq
    BY <1>3, <1>5, <1>6 DEF NothingToCome
  <2>3. QED BY <1>1, <1>7, <2>1, <2>2, KernelOnly DEF NothingToCome
<1>10. missed \subseteq missed' BY <1>1
<1>11. \A from : WrongWay(from) => WrongWay(from)'
  BY <1>1, <1>10 DEF WrongWay, LookedUp, Finds
<1>12. \A b : RightAnswer(b) => RightAnswer(b)'
  BY <1>1, <1>11 DEF RightAnswer, LookedUp, direction
<1>13. ASSUME lookup # T!NoLookup, q.seq = seq PROVE RightAnswer(a)'
  <2>1. q.tuple = lookup.tuple /\ q.of = lookup.of /\ q.from = direction
    BY <1>3, <1>13 DEF Current
  <2>2. ASSUME NEW d \in DOMAIN open, LookedUp(d), NEW e \in tracked, q.tuple \in T!tuplesOf(e)
        PROVE  e = d
    BY <1>4, <2>1, <2>2 DEF Disjoint, LookedUp
  <2>3. CASE T!matches(q) = {} /\ a = [seq |-> q.seq, ok |-> FALSE]
    <3>1. CASE \E e \in tracked : q.tuple \in T!tuplesOf(e)
      <4>1. PICK e \in tracked : q.tuple \in T!tuplesOf(e) BY <3>1
      <4>2. ~Finds(direction, e) BY <2>1, <2>3 DEF T!matches, Finds
      <4>3. \A d \in DOMAIN open : LookedUp(d) => d = e BY <2>2, <4>1
      <4>4. WrongWay(direction) BY <4>2, <4>3 DEF WrongWay
      <4>5. direction' = direction BY <1>1 DEF direction
      <4>6. QED BY <1>11, <2>3, <4>4, <4>5 DEF RightAnswer
    <3>2. CASE ~\E e \in tracked : q.tuple \in T!tuplesOf(e)
      <4>1. <<lookup.tuple, lookup.of>> \in missed' BY <1>1, <2>1, <3>2
      <4>2. QED BY <1>1, <2>3, <4>1 DEF RightAnswer, WrongWay
    <3>3. QED BY <3>1, <3>2
  <2>4. CASE \E e \in T!matches(q) : a = [seq |-> q.seq, ok |-> TRUE, entry |-> e]
    <3>1. PICK e \in T!matches(q) : a = [seq |-> q.seq, ok |-> TRUE, entry |-> e] BY <2>4
    <3>2. e \in tracked /\ q.tuple \in T!tuplesOf(e) BY <3>1 DEF T!matches, T!tuplesOf
    <3>3. \A d \in DOMAIN open : LookedUp(d) => e = d BY <2>2, <3>2
    <3>4. QED BY <1>1, <2>1, <3>1, <3>2, <3>3 DEF RightAnswer, LookedUp
  <2>5. QED BY <1>2, <2>3, <2>4
<1>14. Current'
  <2>1. SUFFICES ASSUME lookup # T!NoLookup
                 PROVE  /\ \A i \in 1..Len(asked') : asked'[i].seq = seq =>
                             asked'[i].tuple = lookup.tuple /\ asked'[i].of = lookup.of /\ asked'[i].from = direction
                        /\ \A b \in Answers : Given(b)' /\ b.seq = seq => RightAnswer(b)'
                        /\ \A from \in T!ends : lookup.reversed /\ from = lookup.from => WrongWay(from)'
    BY <1>1 DEF Current, direction
  <2>2. ASSUME NEW i \in 1..Len(asked'), asked'[i].seq = seq
        PROVE  asked'[i].tuple = lookup.tuple /\ asked'[i].of = lookup.of /\ asked'[i].from = direction
    BY <1>1, <1>3, <2>1, <2>2 DEF Current
  <2>3. ASSUME NEW b \in Answers, Given(b)', b.seq = seq PROVE RightAnswer(b)'
    <3>1. Given(b) \/ b = a BY <1>6, <2>3 DEF Given
    <3>2. QED BY <1>5, <1>12, <1>13, <2>1, <2>3, <3>1 DEF Current
  <2>4. QED BY <1>11, <2>1, <2>2, <2>3 DEF Current
<1>15. Waited' BY <1>1, <1>10 DEF Waited, Accounted, T!onTheWay
<1>16. QED BY <1>1, <1>7, <1>8, <1>9, <1>14, <1>15, KernelOnly DEF Disjoint
(***************************************************************************)
(* The main loop.                                                          *)
(***************************************************************************)
LEMMA LookupStays ==
  ASSUME NATInv, UNCHANGED <<lookup, seq, asked, T_answers, open, tracked>>, missed \subseteq missed'
  PROVE  Current'
<1>1. \A from : WrongWay(from) => WrongWay(from)' BY DEF WrongWay, LookedUp, Finds
<1>2. \A a : RightAnswer(a) => RightAnswer(a)' BY <1>1 DEF RightAnswer, LookedUp, direction
<1>3. QED BY <1>1, <1>2 DEF NATInv, Current, direction, Given

LEMMA CapturePacket ==
  ASSUME NATInv, NEW e \in Translations, NEW t \in Tuples, NEW from \in T!ends, T!Packet(e, t, from)
  PROVE  NATInv'
<1> USE DEF NATInv
<1>1. /\ e \in DOMAIN open /\ t \in T!tuplesOf(e)
      /\ UNCHANGED <<open, tracked, asked, T_answers, opens, lookup, seq, results, entries, made, T_now>>
  BY DEF T!Packet, T!kernel, T!resolver, T!table
<1> DEFINE fresh == [T_flows EXCEPT ![t] = [on |-> TRUE, of |-> open[e], nat |-> 0, last |-> T_now]]
           wanted == [tuple |-> t, from |-> from, of |-> open[e]]
<1>2. \/ T_flows[t].of = open[e] /\ T_flows' = [T_flows EXCEPT ![t].last = T_now]
           /\ UNCHANGED <<requests, missed>>
      \/ entries[t] # 0 /\ T_flows' = T!linked(fresh, entries[t]) /\ UNCHANGED <<requests, missed>>
      \/ T_flows' = fresh /\ requests' = Append(requests, wanted) /\ UNCHANGED missed
      \/ T_flows' = fresh /\ missed' = missed \cup {<<t, open[e]>>} /\ UNCHANGED requests
  BY DEF T!Packet
<1>3. open[e] \in Nat /\ open[e] <= opens /\ opens \in Nat /\ T_now \in Nat BY <1>1 DEF NATType
<1>4. fresh \in [Tuples -> Flows] BY <1>3 DEF NATType, Flows
<1>5. /\ fresh[t] = [on |-> TRUE, of |-> open[e], nat |-> 0, last |-> T_now]
      /\ \A u \in Tuples : u # t => fresh[u] = T_flows[u]
  BY DEF NATType
<1> HIDE DEF fresh
<1>6. /\ T_flows' \in [Tuples -> Flows]
      /\ \A u \in Tuples :
           /\ T_flows'[u].of = T_flows[u].of \/ (u = t /\ T_flows'[u].of = open[e])
           /\ \/ T_flows'[u].nat \in {T_flows[u].nat, 0}
              \/ entries[t] # 0 /\ T_flows'[u].nat = entries[t] /\ u \in T!tuplesOf(made[entries[t]].entry)
           /\ \/ T_flows'[u].nat # 0
              \/ T_flows'[u].of = T_flows[u].of /\ T_flows'[u].nat = T_flows[u].nat
                   /\ T_flows'[u].on = T_flows[u].on
              \/ u = t /\ T_flows'[u].of = open[e]
                   /\ (requests' = Append(requests, wanted) \/ <<t, open[e]>> \in missed')
  <2>1. CASE T_flows' = [T_flows EXCEPT ![t].last = T_now]
    <3>1. /\ \A u \in Tuples : T_flows'[u] = IF u = t THEN [T_flows[u] EXCEPT !.last = T_now] ELSE T_flows[u]
          /\ DOMAIN T_flows' = Tuples /\ T_flows' = [u \in Tuples |-> T_flows'[u]]
      BY <2>1 DEF NATType
    <3>2. \A u \in Tuples : /\ T_flows'[u] \in Flows /\ T_flows'[u].of = T_flows[u].of
                             /\ T_flows'[u].nat = T_flows[u].nat /\ T_flows'[u].on = T_flows[u].on
      BY <1>3, <3>1 DEF NATType, Flows
    <3>3. QED BY <3>1, <3>2
  <2>2. CASE entries[t] # 0 /\ T_flows' = T!linked(fresh, entries[t])
    <3>1. PICK x \in Nat : x = entries[t] BY DEF NATType
    <3>2. T_flows' = [u \in Tuples |-> IF fresh[u].on /\ u \in T!tuplesOf(made[x].entry)
                                      THEN [fresh[u] EXCEPT !.nat = x] ELSE fresh[u]]
      BY <2>2, <3>1 DEF T!linked, Tuples
    <3>3. t \in T!tuplesOf(made[x].entry) BY <2>2, <3>1 DEF LinkedRight, HasTuple
    <3>4. ASSUME NEW u \in Tuples
          PROVE  /\ T_flows'[u] \in Flows /\ T_flows'[u].of = fresh[u].of
                 /\ T_flows'[u].on = fresh[u].on
                 /\ \/ T_flows'[u].nat = x /\ u \in T!tuplesOf(made[x].entry)
                    \/ T_flows'[u] = fresh[u] /\ u # t
      <4>1. fresh[u] \in Flows BY <1>4
      <4>2. CASE fresh[u].on /\ u \in T!tuplesOf(made[x].entry)
        <5>1. T_flows'[u] = [fresh[u] EXCEPT !.nat = x] BY <3>2, <4>2
        <5>2. QED BY <4>1, <4>2, <5>1 DEF Flows
      <4>3. CASE ~(fresh[u].on /\ u \in T!tuplesOf(made[x].entry))
        <5>1. T_flows'[u] = fresh[u] BY <3>2, <4>3
        <5>2. u # t BY <1>5, <3>3, <4>3
        <5>3. QED BY <4>1, <5>1, <5>2
      <4>4. QED BY <4>2, <4>3
    <3>5. T_flows' \in [Tuples -> Flows] BY <3>2, <3>4
    <3>6. x # 0 BY <2>2, <3>1
    <3>7. QED BY <1>5, <3>1, <3>4, <3>5, <3>6
  <2>3. CASE T_flows' = fresh /\ (requests' = Append(requests, wanted) \/ <<t, open[e]>> \in missed')
    BY <1>4, <1>5, <2>3
  <2>4. QED BY <1>2, <2>1, <2>2, <2>3
<1>7. /\ requests' \in Seq(Requests) /\ missed \subseteq missed'
      /\ \A i \in 1..Len(requests') : requests'[i].of <= opens
      /\ \A i \in 1..Len(requests) : i \in 1..Len(requests') /\ requests'[i] = requests[i]
      /\ requests' = Append(requests, wanted) =>
           /\ Len(requests) + 1 \in 1..Len(requests')
           /\ requests'[Len(requests) + 1].tuple = t /\ requests'[Len(requests) + 1].of = open[e]
  <2>1. wanted \in Requests BY <1>3 DEF Requests
  <2> HIDE DEF wanted
  <2>2. CASE requests' = Append(requests, wanted)
    <3>1. /\ requests' \in Seq(Requests) /\ Len(requests') = Len(requests) + 1 /\ Len(requests) \in Nat
          /\ \A i \in 1..Len(requests) : requests'[i] = requests[i]
          /\ requests'[Len(requests) + 1] = wanted
      BY <2>1, <2>2, Appended DEF NATType
    <3>2. missed \subseteq missed' BY <1>2, <2>2
    <3>3. wanted.tuple = t /\ wanted.of = open[e] BY DEF wanted
    <3>4. QED BY <1>3, <3>1, <3>2, <3>3 DEF NothingToCome
  <2>3. CASE requests' = requests /\ requests' # Append(requests, wanted)
    BY <1>2, <2>3 DEF NATType, NothingToCome
  <2>4. QED BY <1>2, <2>2, <2>3
<1>8. NATType' BY <1>1, <1>6, <1>7 DEF NATType, Made
<1>9. Disjoint' BY <1>1 DEF Disjoint
<1>10. NothingToCome' BY <1>1, <1>3, <1>6, <1>7 DEF NothingToCome
<1>11. LinkedRight'
  <2>1. ASSUME NEW u \in Tuples, NEW y, y = T_flows'[u].nat PROVE HasTuple(u, y)
    <3>1. HasTuple(u, T_flows[u].nat) /\ HasTuple(t, entries[t]) BY DEF LinkedRight
    <3>2. QED BY <1>6, <2>1, <3>1 DEF HasTuple
  <2>2. QED BY <1>1, <2>1 DEF LinkedRight, HasTuple
<1>12. Waited'
  <2>1. SUFFICES ASSUME NEW d \in DOMAIN open, T!NAT(d), NEW u \in T!tuplesOf(d),
                        T_flows'[u].on, T_flows'[u].of = open[d], T_flows'[u].nat = 0
                 PROVE  T!onTheWay(u, open[d])' \/ <<u, open[d]>> \in missed'
    BY <1>1 DEF Waited, Accounted
  <2>2. u \in Tuples BY TranslationTuples DEF NATType
  <2>3. CASE T_flows'[u].of = T_flows[u].of /\ T_flows'[u].nat = T_flows[u].nat /\ T_flows'[u].on = T_flows[u].on
    <3>1. Accounted(u, open[d]) BY <2>1, <2>3 DEF Waited
    <3>2. DOMAIN requests = 1..Len(requests) /\ DOMAIN requests' = 1..Len(requests')
      BY <1>7, Elements DEF NATType
    <3>3. T!onTheWay(u, open[d]) => T!onTheWay(u, open[d])'
      BY <1>1, <1>7, <3>2 DEF T!onTheWay
    <3>4. QED BY <1>7, <2>1, <2>3, <3>1, <3>3 DEF Accounted
  <2>4. CASE u = t /\ requests' = Append(requests, wanted) /\ T_flows'[u].of = open[e]
    <3>1. DOMAIN requests' = 1..Len(requests') BY <1>7, Elements
    <3>2. \E i \in DOMAIN requests' : requests'[i].tuple = u /\ requests'[i].of = open[d]
      BY <1>7, <2>1, <2>4, <3>1
    <3>3. QED BY <1>1, <3>2 DEF T!onTheWay
  <2>5. CASE u = t /\ <<t, open[e]>> \in missed' /\ T_flows'[u].of = open[e] BY <2>1, <2>5
  <2>6. QED BY <1>6, <2>1, <2>2, <2>3, <2>4, <2>5
<1>13. QED BY <1>1, <1>7, <1>8, <1>9, <1>10, <1>11, <1>12, LookupStays

(* A function of a sequence's numbers is a sequence of its values. *)
LEMMA SequenceOf ==
  ASSUME NEW n \in Nat, NEW m, m = [x \in 1..n |-> m[x]]
  PROVE  m \in Seq({m[x] : x \in DOMAIN m}) /\ Len(m) = n /\ DOMAIN m = 1..n
<1>1. DOMAIN m = 1..n OBVIOUS
<1>2. m \in [1..n -> {m[x] : x \in DOMAIN m}] BY <1>1
<1>3. m \in Seq({m[x] : x \in DOMAIN m}) BY <1>2
<1>4. QED BY <1>1, <1>3

LEMMA LinkFlows == ASSUME NATInv, T!Link PROVE NATInv'
<1> USE DEF NATInv
<1> DEFINE e == Head(results)
           x == IF T!known(e) THEN entries[e.orig] ELSE Len(made) + 1
<1>1. /\ results # <<>> /\ results' = Tail(results)
      /\ UNCHANGED <<open, tracked, asked, T_answers, opens, requests, lookup, seq, T_now, missed>>
      /\ made' = IF T!known(e) THEN [made EXCEPT ![x].seen = T_now]
                 ELSE Append(made, [entry |-> e, seen |-> T_now])
      /\ entries' = [t \in Tuples |-> IF t \in T!tuplesOf(e) /\ ~T!known(e) /\ ~T!full THEN x ELSE entries[t]]
      /\ T_flows' = [t \in Tuples |-> IF T_flows[t].on /\ t \in T!tuplesOf(e)
                                      THEN [T_flows[t] EXCEPT !.nat = x] ELSE T_flows[t]]
  BY DEF T!Link, T!kernel, Tuples
<1>2. /\ results' \in Seq(Translations) /\ Len(results') = Len(results) - 1 /\ Len(results) \in Nat \ {0}
      /\ \A i \in 1..Len(results') : results'[i] = results[i + 1]
      /\ e = results[1] /\ e \in Translations
  BY <1>1, Tailed DEF NATType
<1> HIDE DEF e
<1>3. e.orig \in Tuples BY <1>2, TranslationTuples
<1>4. Len(made) \in Nat /\ DOMAIN made = 1..Len(made) /\ made = [y \in 1..Len(made) |-> made[y]]
  BY Elements DEF NATType, Made
<1>5. T!known(e) => x \in 1..Len(made) /\ made[x].entry = e
  BY <1>3 DEF T!known, LinkedRight, HasTuple
<1>6. /\ x \in Nat \ {0} /\ x \in 1..Len(made') /\ made'[x].entry = e /\ Made'
      /\ \A y \in 1..Len(made) : y \in 1..Len(made') /\ made'[y].entry = made[y].entry
  <2>1. CASE T!known(e)
    <3>1. x \in 1..Len(made) /\ made[x].entry = e BY <1>5, <2>1
    <3> HIDE DEF x
    <3>2. made' = [y \in 1..Len(made) |-> IF y = x THEN [made[y] EXCEPT !.seen = T_now] ELSE made[y]]
      BY <1>1, <1>4, <2>1
    <3>3. \A y \in 1..Len(made) : "entry" \in DOMAIN made'[y] /\ made'[y].entry = made[y].entry
      BY <1>4, <3>2 DEF NATType, Made
    <3>4. made' = [y \in 1..Len(made) |-> made'[y]] BY <3>2
    <3>5. made' \in Seq({made'[y] : y \in DOMAIN made'}) /\ Len(made') = Len(made) /\ DOMAIN made' = 1..Len(made)
      BY <1>4, <3>4, SequenceOf
    <3>6. Made' BY <1>4, <3>3, <3>5 DEF Made, NATType
    <3>7. QED BY <1>4, <3>1, <3>3, <3>5, <3>6
  <2>2. CASE ~T!known(e)
    <3>1. x = Len(made) + 1 BY <2>2
    <3> HIDE DEF x
    <3>2. PICK r : r = [entry |-> e, seen |-> T_now] OBVIOUS
    <3>3. made' = Append(made, r) BY <1>1, <2>2, <3>2
    <3>4. made \in Seq({made[y] : y \in DOMAIN made} \cup {r}) BY <1>4 DEF NATType, Made
    <3>5. /\ Len(made') = Len(made) + 1 /\ made' \in Seq({made[y] : y \in DOMAIN made} \cup {r})
          /\ \A y \in 1..Len(made) : made'[y] = made[y]
          /\ made'[Len(made) + 1] = r
      BY <3>3, <3>4, Appended
    <3>6. made' = [y \in 1..(Len(made) + 1) |-> made'[y]] BY <1>4, <3>5
    <3>7. made' \in Seq({made'[y] : y \in DOMAIN made'}) /\ DOMAIN made' = 1..(Len(made) + 1)
      BY <1>4, <3>6, SequenceOf
    <3>8. "entry" \in DOMAIN r /\ r.entry = e BY <3>2
    <3>9. \A y \in 1..(Len(made) + 1) : "entry" \in DOMAIN made'[y] /\ made'[y].entry \in Translations
      <4>1. ASSUME NEW y \in 1..Len(made)
            PROVE  "entry" \in DOMAIN made'[y] /\ made'[y].entry \in Translations
        BY <1>4, <3>5 DEF NATType, Made
      <4>2. QED BY <1>2, <1>4, <3>5, <3>8, <4>1
    <3>10. Made' BY <3>7, <3>9 DEF Made
    <3>11. QED BY <1>4, <3>1, <3>5, <3>8, <3>10
  <2>3. QED BY <2>1, <2>2
<1> HIDE DEF x
<1>7. /\ T_flows' \in [Tuples -> Flows]
      /\ \A t \in Tuples :
           /\ T_flows'[t].of = T_flows[t].of /\ T_flows'[t].on = T_flows[t].on
           /\ T_flows'[t].nat = T_flows[t].nat \/ (T_flows'[t].nat = x /\ t \in T!tuplesOf(e))
           /\ T_flows[t].on /\ t \in T!tuplesOf(e) => T_flows'[t].nat = x
  <2>1. ASSUME NEW t \in Tuples
        PROVE  /\ T_flows'[t] \in Flows
               /\ T_flows'[t].of = T_flows[t].of /\ T_flows'[t].on = T_flows[t].on
               /\ T_flows'[t].nat = T_flows[t].nat \/ (T_flows'[t].nat = x /\ t \in T!tuplesOf(e))
               /\ T_flows[t].on /\ t \in T!tuplesOf(e) => T_flows'[t].nat = x
    <3>1. T_flows[t] \in Flows BY DEF NATType
    <3>2. CASE T_flows[t].on /\ t \in T!tuplesOf(e)
      <4>1. T_flows'[t] = [T_flows[t] EXCEPT !.nat = x] BY <1>1, <3>2
      <4>2. QED BY <1>6, <3>1, <3>2, <4>1 DEF Flows
    <3>3. CASE ~(T_flows[t].on /\ t \in T!tuplesOf(e))
      <4>1. T_flows'[t] = T_flows[t] BY <1>1, <3>3
      <4>2. QED BY <3>1, <3>3, <4>1
    <3>4. QED BY <3>2, <3>3
  <2>2. QED BY <1>1, <2>1
<1>8. entries' \in [Tuples -> Nat] BY <1>1, <1>6 DEF NATType
<1>9. NATType' BY <1>1, <1>2, <1>6, <1>7, <1>8 DEF NATType
<1>10. Disjoint' BY <1>1 DEF Disjoint
<1>11. NothingToCome' BY <1>1, <1>7 DEF NothingToCome
<1>12. LinkedRight'
  <2>1. ASSUME NEW t \in Tuples, NEW y, HasTuple(t, y) \/ (y = x /\ t \in T!tuplesOf(e))
        PROVE  HasTuple(t, y)'
    BY <1>6, <2>1 DEF HasTuple
  <2>2. ASSUME NEW t \in Tuples PROVE HasTuple(t, entries[t])' /\ HasTuple(t, T_flows[t].nat)'
    <3>1. HasTuple(t, entries[t]) /\ HasTuple(t, T_flows[t].nat) BY DEF LinkedRight
    <3>2. entries'[t] = entries[t] \/ (entries'[t] = x /\ t \in T!tuplesOf(e)) BY <1>1
    <3>3. ASSUME NEW y, y = entries'[t] PROVE HasTuple(t, y)' BY <2>1, <3>1, <3>2, <3>3
    <3>4. ASSUME NEW y, y = T_flows'[t].nat PROVE HasTuple(t, y)' BY <1>7, <2>1, <3>1, <3>4
    <3>5. QED BY <3>3, <3>4 DEF HasTuple
  <2>3. QED BY <2>2 DEF LinkedRight
<1>13. Waited'
  <2>1. SUFFICES ASSUME NEW d \in DOMAIN open, T!NAT(d), NEW u \in T!tuplesOf(d),
                        T_flows'[u].on, T_flows'[u].of = open[d], T_flows'[u].nat = 0
                 PROVE  T!onTheWay(u, open[d])' \/ <<u, open[d]>> \in missed'
    BY <1>1 DEF Waited, Accounted
  <2>2. u \in Tuples BY TranslationTuples DEF NATType
  <2>3. T_flows[u].on /\ T_flows[u].of = open[d] /\ u \notin T!tuplesOf(e) /\ T_flows[u].nat = 0
    BY <1>6, <1>7, <2>1, <2>2
  <2>4. T!onTheWay(u, open[d]) \/ <<u, open[d]>> \in missed BY <2>1, <2>3 DEF Waited, Accounted
  <2>5. DOMAIN results = 1..Len(results) /\ DOMAIN results' = 1..Len(results')
    BY <1>2, Elements DEF NATType
  <2>6. ASSUME NEW i \in DOMAIN results, u \in T!tuplesOf(results[i])
        PROVE  \E j \in DOMAIN results' : u \in T!tuplesOf(results'[j])
    <3>1. i # 1 BY <1>2, <2>3, <2>6
    <3>2. i - 1 \in 1..Len(results') /\ results'[i - 1] = results[i] BY <1>2, <2>5, <3>1
    <3>3. QED BY <2>5, <2>6, <3>2
  <2>7. T!onTheWay(u, open[d]) => T!onTheWay(u, open[d])' BY <1>1, <2>6 DEF T!onTheWay
  <2>8. QED BY <1>1, <2>4, <2>7
<1>14. QED BY <1>1, <1>9, <1>10, <1>11, <1>12, <1>13, LookupStays
LEMMA SecondPasses == ASSUME NATInv, T!Tick PROVE NATInv'
<1> USE DEF NATInv
<1>1. /\ UNCHANGED <<open, tracked, asked, T_answers, opens, requests, lookup, seq, results, missed>>
      /\ T_now' = T_now + 1
      /\ entries' = [t \in Tuples |->
           IF entries[t] # 0 /\ T_now' - made[entries[t]].seen > T_Idle THEN 0 ELSE entries[t]]
      /\ T_flows' = [t \in Tuples |->
           IF T_flows[t].on /\ T_now' - T_flows[t].last > T_Idle THEN T!NoFlow ELSE T_flows[t]]
  BY DEF T!Tick, T!kernel, T!resolver, Tuples
<1>2. PICK late : made' = [x \in DOMAIN made |-> [made[x] EXCEPT !.seen = late[x]]]
  <2> DEFINE at(x) == {made[x].seen} \cup T!seenBy(T_flows, x)
  <2>1. made' = [x \in DOMAIN made |-> [made[x] EXCEPT !.seen = CHOOSE s \in at(x) : \A o \in at(x) : s >= o]]
    BY DEF T!Tick
  <2> HIDE DEF at
  <2>2. PICK late : late = [x \in DOMAIN made |-> CHOOSE s \in at(x) : \A o \in at(x) : s >= o] OBVIOUS
  <2>3. \A x \in DOMAIN made : late[x] = CHOOSE s \in at(x) : \A o \in at(x) : s >= o BY <2>2
  <2>4. made' = [x \in DOMAIN made |-> [made[x] EXCEPT !.seen = late[x]]] BY <2>1, <2>3
  <2>5. QED BY <2>4
<1>3. Len(made) \in Nat /\ DOMAIN made = 1..Len(made) BY Elements DEF NATType, Made
<1>4. \A x \in 1..Len(made) : "entry" \in DOMAIN made'[x] /\ made'[x].entry = made[x].entry
  BY <1>2, <1>3 DEF NATType, Made
<1>5. made' = [x \in 1..Len(made) |-> made'[x]] BY <1>2, <1>3
<1>6. made' \in Seq({made'[x] : x \in DOMAIN made'}) /\ Len(made') = Len(made) /\ DOMAIN made' = 1..Len(made)
  BY <1>3, <1>5, SequenceOf
<1>7. Made' BY <1>3, <1>4, <1>6 DEF NATType, Made
<1>8. T!NoFlow \in Flows /\ T!NoFlow.on = FALSE /\ T!NoFlow.of = 0 /\ T!NoFlow.nat = 0 BY DEF T!NoFlow, Flows
<1>9. \A t \in Tuples : T_flows'[t] \in {T!NoFlow, T_flows[t]} /\ entries'[t] \in {0, entries[t]} BY <1>1
<1>10. T_flows' \in [Tuples -> Flows] /\ entries' \in [Tuples -> Nat] BY <1>1, <1>8 DEF NATType
<1>11. NATType' BY <1>1, <1>7, <1>10 DEF NATType
<1>12. Disjoint' BY <1>1 DEF Disjoint
<1>13. NothingToCome' BY <1>1, <1>8, <1>9 DEF NothingToCome, NATType
<1>14. LinkedRight'
  <2>1. ASSUME NEW t \in Tuples, NEW x, HasTuple(t, x) PROVE HasTuple(t, x)'
    BY <1>4, <1>6, <2>1 DEF HasTuple
  <2>2. ASSUME NEW t \in Tuples, NEW x, x \in {entries'[t], T_flows'[t].nat} PROVE HasTuple(t, x)'
    <3>1. HasTuple(t, entries[t]) /\ HasTuple(t, T_flows[t].nat) /\ HasTuple(t, 0)
      BY DEF LinkedRight, HasTuple
    <3>2. x \in {0, entries[t], T_flows[t].nat} BY <1>8, <1>9, <2>2
    <3>3. QED BY <2>1, <3>1, <3>2
  <2>3. QED BY <2>2 DEF LinkedRight, HasTuple
<1>15. Waited'
  <2>1. ASSUME NEW d \in DOMAIN open, NEW u \in T!tuplesOf(d), T_flows'[u].on
        PROVE  T_flows'[u] = T_flows[u]
    BY <1>8, <1>9, <2>1, TranslationTuples DEF NATType
  <2>2. \A u, of : Accounted(u, of) /\ T_flows'[u] = T_flows[u] => Accounted(u, of)'
    BY <1>1 DEF Accounted, T!onTheWay
  <2>3. QED BY <1>1, <2>1, <2>2 DEF Waited
<1>16. QED BY <1>1, <1>11, <1>12, <1>13, <1>14, <1>15, LookupStays

(***************************************************************************)
(* resolve.                                                                *)
(***************************************************************************)
(* What a step of the resolver leaves alone. *)
LEMMA TableStays ==
  ASSUME NATInv, UNCHANGED <<open, tracked, opens, T_flows, entries, made, T_now>>
  PROVE  /\ Disjoint' /\ LinkedRight' /\ Made'
         /\ \A t \in Tuples : T_flows'[t].of <= opens'
  BY DEF NATInv, Disjoint, LinkedRight, HasTuple, NATType, Made, NothingToCome

LEMMA TakeRequest == ASSUME NATInv, T!Take PROVE NATInv'
<1> USE DEF NATInv
<1> DEFINE q == Head(requests)
<1>1. /\ lookup.tuple = NoTuple /\ requests # <<>> /\ requests' = Tail(requests)
      /\ seq' = seq + 1
      /\ lookup' = [tuple |-> q.tuple, from |-> q.from, of |-> q.of, reversed |-> FALSE]
      /\ asked' = Append(asked, [seq |-> seq + 1, tuple |-> q.tuple, of |-> q.of, from |-> q.from])
      /\ UNCHANGED <<open, tracked, T_answers, opens, T_flows, results, entries, made, T_now, missed>>
  BY DEF T!Take, T!Send, T!table
<1>2. /\ requests' \in Seq(Requests) /\ Len(requests') = Len(requests) - 1 /\ Len(requests) \in Nat \ {0}
      /\ \A i \in 1..Len(requests') : requests'[i] = requests[i + 1] /\ i + 1 \in 1..Len(requests)
      /\ q = requests[1] /\ q \in Requests /\ 1 \in 1..Len(requests)
  BY <1>1, Tailed DEF NATType
<1> HIDE DEF q
<1>3. PICK a \in Asked : a = [seq |-> seq + 1, tuple |-> q.tuple, of |-> q.of, from |-> q.from]
  <2>1. q.tuple \in Tuples /\ q.of \in Nat /\ q.from \in T!ends BY <1>2 DEF Requests
  <2>2. seq + 1 \in Nat BY DEF NATType
  <2>3. QED BY <2>1, <2>2 DEF Asked
<1>4. /\ asked' \in Seq(Asked) /\ Len(asked') = Len(asked) + 1 /\ Len(asked) \in Nat
      /\ \A i \in 1..Len(asked) : asked'[i] = asked[i]
      /\ asked'[Len(asked) + 1] = a
  BY <1>1, <1>3, Appended DEF NATType
<1>5. lookup' \in Lookups /\ lookup'.tuple = q.tuple /\ lookup'.of = q.of /\ lookup'.from = q.from /\ ~lookup'.reversed
  BY <1>1, <1>2 DEF Requests, Lookups
<1>6. seq \in Nat /\ \A i \in 1..Len(asked) : asked[i].seq \in Nat
  <2>1. \A i \in 1..Len(asked) : asked[i] \in Asked BY Elements DEF NATType
  <2>2. QED BY <2>1 DEF Asked, NATType
<1>7. \A i \in 1..Len(T_answers) : T_answers[i] \in Answers /\ T_answers[i].seq \in Nat
  <2>1. \A i \in 1..Len(T_answers) : T_answers[i] \in Answers BY Elements DEF NATType
  <2>2. \A b \in Answers : b.seq \in Nat BY DEF Answers
  <2>3. QED BY <2>1, <2>2
<1>8. NATType' BY <1>1, <1>2, <1>4, <1>5, <1>6, TableStays DEF NATType
<1>9. NothingToCome'
  <2>1. \A i \in 1..Len(requests') : requests'[i].of <= opens BY <1>2 DEF NothingToCome
  <2>2. lookup'.of <= opens BY <1>2, <1>5 DEF NothingToCome
  <2>3. \A i \in 1..Len(asked') : asked'[i].seq <= seq'
    <3>1. \A i \in 1..Len(asked) : asked'[i].seq <= seq + 1 BY <1>4, <1>6 DEF NothingToCome
    <3>2. asked'[Len(asked) + 1].seq <= seq + 1 BY <1>3, <1>4, <1>6
    <3>3. QED BY <1>1, <1>4, <3>1, <3>2
  <2>4. \A i \in 1..Len(T_answers) : T_answers[i].seq <= seq'
    BY <1>1, <1>6, <1>7 DEF NothingToCome
  <2>5. QED BY <1>1, <2>1, <2>2, <2>3, <2>4, TableStays DEF NothingToCome
<1>10. Current'
  <2>1. ASSUME NEW i \in 1..Len(asked'), asked'[i].seq = seq'
        PROVE  asked'[i] = a
    <3>1. CASE i = Len(asked) + 1 BY <1>4, <3>1
    <3>2. CASE i \in 1..Len(asked)
      <4>1. asked[i].seq <= seq /\ asked[i].seq = seq + 1 BY <1>1, <1>4, <2>1, <3>2 DEF NothingToCome
      <4>2. QED BY <1>6, <3>2, <4>1
    <3>3. QED BY <1>4, <3>1, <3>2
  <2>2. a.tuple = lookup'.tuple /\ a.of = lookup'.of /\ a.from = lookup'.from BY <1>3, <1>5
  <2>3. direction' = lookup'.from BY <1>5 DEF direction
  <2>4. ASSUME NEW b \in Answers, Given(b)', b.seq = seq' PROVE FALSE
    <3>1. PICK i \in 1..Len(T_answers) : T_answers[i] = b BY <1>1, <2>4 DEF Given
    <3>2. b.seq <= seq BY <3>1 DEF NothingToCome
    <3>3. QED BY <1>1, <1>6, <1>7, <2>4, <3>1, <3>2
  <2>5. QED BY <1>5, <2>1, <2>2, <2>3, <2>4 DEF Current
<1>11. Waited'
  <2>1. SUFFICES ASSUME NEW d \in DOMAIN open, NEW u \in T!tuplesOf(d), T!onTheWay(u, open[d])
                 PROVE  T!onTheWay(u, open[d])'
    BY <1>1 DEF Waited, Accounted
  <2>2. DOMAIN requests = 1..Len(requests) /\ DOMAIN requests' = 1..Len(requests')
    BY <1>2, Elements DEF NATType
  <2>3. CASE \E i \in DOMAIN requests : requests[i].tuple = u /\ requests[i].of = open[d]
    <3>1. PICK i \in DOMAIN requests : requests[i].tuple = u /\ requests[i].of = open[d] BY <2>3
    <3>2. CASE i = 1
      <4>1. lookup'.tuple = u /\ lookup'.of = open'[d] BY <1>1, <1>2, <1>5, <3>1, <3>2
      <4>2. QED BY <4>1 DEF T!onTheWay
    <3>3. CASE i # 1
      <4>1. i - 1 \in DOMAIN requests' /\ requests'[i - 1] = requests[i] BY <1>2, <2>2, <3>1, <3>3
      <4>2. QED BY <1>1, <3>1, <4>1 DEF T!onTheWay
    <3>4. QED BY <3>2, <3>3
  <2>4. CASE \E i \in DOMAIN results : u \in T!tuplesOf(results[i])
    BY <1>1, <2>4 DEF T!onTheWay
  <2>5. lookup.tuple # u BY <1>1, <2>1, TranslationTuples DEF NATType
  <2>6. QED BY <2>1, <2>3, <2>4, <2>5 DEF T!onTheWay
<1>12. QED BY <1>1, <1>8, <1>9, <1>10, <1>11, TableStays

LEMMA FailLookup == ASSUME NATInv, T!Fail PROVE NATInv'
<1> USE DEF NATInv
<1>1. /\ UNCHANGED <<open, tracked, asked, T_answers, opens, T_flows, requests, seq, results, entries, made, T_now>>
      /\ missed' = missed \cup {<<lookup.tuple, lookup.of>>} /\ lookup' = T!NoLookup
  BY DEF T!Fail, T!kernel, T!table
<1>2. NATType' BY <1>1, TableStays DEF NATType
<1>3. NothingToCome'
  <2>1. lookup'.of <= opens BY <1>1 DEF T!NoLookup, NATType
  <2>2. QED BY <1>1, <2>1, TableStays DEF NothingToCome
<1>4. Current' BY <1>1 DEF Current
<1>5. Waited' BY <1>1 DEF Waited, Accounted, T!onTheWay
<1>6. QED BY <1>1, <1>2, <1>3, <1>4, <1>5, TableStays

(* An answer to another lookup is read over; no entry is asked for again in    *)
(* the other direction; else the lookup ends with what it found.             *)
LEMMA ReceiveAnswer == ASSUME NATInv, T!Receive PROVE NATInv'
<1> USE DEF NATInv
<1> DEFINE a == Head(T_answers)
<1>1. /\ lookup.tuple # NoTuple /\ T_answers # <<>> /\ T_answers' = Tail(T_answers)
      /\ UNCHANGED <<open, tracked, opens, T_flows, requests, entries, made, T_now, missed>>
      /\ \/ a.seq # seq /\ UNCHANGED <<asked, lookup, seq, results>>
         \/ a.seq = seq /\ ~a.ok /\ ~lookup.reversed /\ T!Send(lookup, TRUE) /\ UNCHANGED results
         \/ /\ a.seq = seq /\ (a.ok \/ lookup.reversed)
            /\ IF a.ok /\ T!NAT(a.entry) THEN results' = Append(results, a.entry) ELSE UNCHANGED results
            /\ lookup' = T!NoLookup /\ UNCHANGED <<asked, seq>>
  BY DEF T!Receive, T!answersIt, T!table
<1>2. /\ T_answers' \in Seq(Answers) /\ Len(T_answers') = Len(T_answers) - 1 /\ Len(T_answers) \in Nat \ {0}
      /\ \A i \in 1..Len(T_answers') : T_answers'[i] = T_answers[i + 1] /\ i + 1 \in 1..Len(T_answers)
      /\ a = T_answers[1] /\ a \in Answers /\ 1 \in 1..Len(T_answers)
  BY <1>1, Tailed DEF NATType
<1> HIDE DEF a
<1>3. lookup \in Lookups /\ lookup # T!NoLookup BY <1>1, LookupIs
<1>4. \A b : Given(b)' => Given(b) BY <1>2 DEF Given
<1>5. Given(a) BY <1>2 DEF Given
<1>6. a.seq = seq => RightAnswer(a) BY <1>2, <1>3, <1>5 DEF Current
<1>7. seq \in Nat /\ opens \in Nat /\ \A b \in Answers : b.seq \in Nat BY DEF Answers, NATType
<1>8. \A i \in 1..Len(T_answers') : T_answers'[i].seq <= seq BY <1>2 DEF NothingToCome
<1>9. CASE UNCHANGED <<asked, lookup, seq, results>>
  <2>1. NATType' BY <1>1, <1>2, <1>9, TableStays DEF NATType
  <2>2. NothingToCome' BY <1>1, <1>8, <1>9, TableStays DEF NothingToCome
  <2>3. \A from : WrongWay(from) => WrongWay(from)' BY <1>1, <1>9 DEF WrongWay, LookedUp, Finds
  <2>4. \A b : RightAnswer(b) => RightAnswer(b)'
    BY <1>1, <1>9, <2>3 DEF RightAnswer, LookedUp, direction
  <2>5. Current' BY <1>4, <1>9, <2>3, <2>4 DEF Current, direction
  <2>6. Waited' BY <1>1, <1>9 DEF Waited, Accounted, T!onTheWay
  <2>7. QED BY <1>1, <2>1, <2>2, <2>5, <2>6, TableStays
<1>10. CASE a.seq = seq /\ ~a.ok /\ ~lookup.reversed /\ T!Send(lookup, TRUE) /\ UNCHANGED results
  <2> DEFINE back == T!opposite(lookup.from)
  <2>1. /\ seq' = seq + 1
        /\ lookup' = [tuple |-> lookup.tuple, from |-> lookup.from, of |-> lookup.of, reversed |-> TRUE]
        /\ asked' = Append(asked, [seq |-> seq + 1, tuple |-> lookup.tuple, of |-> lookup.of, from |-> back])
    BY <1>10 DEF T!Send
  <2>2. back \in T!ends BY <1>3 DEF Lookups, T!opposite, T!ends
  <2> HIDE DEF back
  <2>3. PICK n \in Asked : n = [seq |-> seq + 1, tuple |-> lookup.tuple, of |-> lookup.of, from |-> back]
    <3>1. lookup.tuple \in Tuples /\ lookup.of \in Nat BY <1>3 DEF Lookups
    <3>2. seq + 1 \in Nat BY <1>7
    <3>3. QED BY <2>2, <3>1, <3>2 DEF Asked
  <2>4. /\ asked' \in Seq(Asked) /\ Len(asked') = Len(asked) + 1 /\ Len(asked) \in Nat
        /\ \A i \in 1..Len(asked) : asked'[i] = asked[i]
        /\ asked'[Len(asked) + 1] = n
    BY <2>1, <2>3, Appended DEF NATType
  <2>5. lookup' \in Lookups /\ lookup'.tuple = lookup.tuple /\ lookup'.of = lookup.of
        /\ lookup'.from = lookup.from /\ lookup'.reversed
    BY <1>3, <2>1 DEF Lookups
  <2>6. \A i \in 1..Len(asked) : asked[i] \in Asked /\ asked[i].seq \in Nat
    <3>1. \A i \in 1..Len(asked) : asked[i] \in Asked BY Elements DEF NATType
    <3>2. QED BY <3>1 DEF Asked
  <2>7. NATType' BY <1>1, <1>2, <1>7, <1>10, <2>1, <2>4, <2>5, TableStays DEF NATType
  <2>8. NothingToCome'
    <3>1. \A i \in 1..Len(asked') : asked'[i].seq <= seq'
      <4>1. \A i \in 1..Len(asked) : asked'[i].seq <= seq + 1 BY <1>7, <2>4, <2>6 DEF NothingToCome
      <4>2. asked'[Len(asked) + 1].seq <= seq + 1 BY <1>7, <2>3, <2>4
      <4>3. QED BY <2>1, <2>4, <4>1, <4>2
    <3>2. \A i \in 1..Len(T_answers') : T_answers'[i].seq <= seq'
      <4>1. \A i \in 1..Len(T_answers') : T_answers'[i] \in Answers BY <1>2, Elements
      <4>2. QED BY <1>7, <1>8, <2>1, <4>1
    <3>3. QED BY <1>1, <2>5, <3>1, <3>2, TableStays DEF NothingToCome
  <2>9. ASSUME NEW i \in 1..Len(asked'), asked'[i].seq = seq' PROVE asked'[i] = n
    <3>1. CASE i = Len(asked) + 1 BY <2>4, <3>1
    <3>2. CASE i \in 1..Len(asked)
      <4>1. asked[i].seq <= seq /\ asked[i].seq = seq + 1 BY <2>1, <2>4, <2>9, <3>2 DEF NothingToCome
      <4>2. QED BY <1>7, <2>6, <3>2, <4>1
    <3>3. QED BY <2>4, <3>1, <3>2
  <2>10. direction' = back BY <2>5 DEF direction, back
  <2>11. ASSUME NEW b \in Answers, Given(b)', b.seq = seq' PROVE FALSE
    <3>1. PICK i \in 1..Len(T_answers') : T_answers'[i] = b BY <2>11 DEF Given
    <3>2. b.seq <= seq BY <1>8, <3>1
    <3>3. QED BY <1>7, <2>1, <2>11, <3>2
  <2>12. ASSUME NEW from, from = lookup.from PROVE WrongWay(from)'
    <3>1. direction = from BY <1>10, <2>12 DEF direction
    <3>2. WrongWay(from) BY <1>6, <1>10, <3>1 DEF RightAnswer
    <3>3. QED BY <1>1, <2>5, <3>2 DEF WrongWay, LookedUp, Finds
  <2>13. Current' BY <2>3, <2>5, <2>9, <2>10, <2>11, <2>12 DEF Current
  <2>14. Waited' BY <1>1, <1>10, <2>5 DEF Waited, Accounted, T!onTheWay
  <2>15. QED BY <1>1, <2>7, <2>8, <2>13, <2>14, TableStays
<1>11. CASE /\ a.seq = seq /\ (a.ok \/ lookup.reversed)
            /\ IF a.ok /\ T!NAT(a.entry) THEN results' = Append(results, a.entry) ELSE UNCHANGED results
            /\ lookup' = T!NoLookup /\ UNCHANGED <<asked, seq>>
  <2>1. /\ results' \in Seq(Translations)
        /\ \A i \in DOMAIN results : i \in DOMAIN results' /\ results'[i] = results[i]
        /\ a.ok /\ T!NAT(a.entry) => \E i \in DOMAIN results' : results'[i] = a.entry
    <3>1. CASE a.ok /\ T!NAT(a.entry)
      <4>1. PICK e \in Translations : e = a.entry BY <1>2, <3>1 DEF Answers
      <4>2. results' = Append(results, e) BY <1>11, <3>1, <4>1
      <4>3. /\ results' \in Seq(Translations) /\ Len(results') = Len(results) + 1 /\ Len(results) \in Nat
            /\ \A i \in 1..Len(results) : results'[i] = results[i]
            /\ results'[Len(results) + 1] = e
        BY <4>2, Appended DEF NATType
      <4>4. DOMAIN results' = 1..(Len(results) + 1) /\ DOMAIN results = 1..Len(results)
        BY <4>3, Elements DEF NATType
      <4>5. QED BY <4>1, <4>3, <4>4
    <3>2. CASE ~(a.ok /\ T!NAT(a.entry)) BY <1>11, <3>2 DEF NATType
    <3>3. QED BY <3>1, <3>2
  <2>2. NATType' BY <1>1, <1>2, <1>11, <2>1, TableStays DEF NATType
  <2>3. NothingToCome'
    <3>1. lookup'.of <= opens BY <1>7, <1>11 DEF T!NoLookup
    <3>2. QED BY <1>1, <1>8, <1>11, <3>1, TableStays DEF NothingToCome
  <2>4. Current' BY <1>11 DEF Current
  <2>5. Waited'
    <3>1. SUFFICES ASSUME NEW d \in DOMAIN open, T!NAT(d), NEW u \in T!tuplesOf(d), T!onTheWay(u, open[d])
                   PROVE  T!onTheWay(u, open[d])' \/ <<u, open[d]>> \in missed
      BY <1>1 DEF Waited, Accounted
    <3>2. CASE \E i \in DOMAIN requests : requests[i].tuple = u /\ requests[i].of = open[d]
      BY <1>1, <3>2 DEF T!onTheWay
    <3>3. CASE \E i \in DOMAIN results : u \in T!tuplesOf(results[i])
      BY <2>1, <3>3 DEF T!onTheWay
    <3>4. CASE lookup.tuple = u /\ lookup.of = open[d]
      <4>1. LookedUp(d) BY <3>1, <3>4 DEF LookedUp
      <4>2. CASE a.ok
        <5>1. a.entry = d BY <1>6, <1>11, <4>1, <4>2 DEF RightAnswer
        <5>2. \E i \in DOMAIN results' : results'[i] = d BY <2>1, <3>1, <4>2, <5>1
        <5>3. QED BY <3>1, <5>2 DEF T!onTheWay
      <4>3. CASE ~a.ok
        <5>1. lookup.reversed /\ lookup.from \in T!ends BY <1>3, <1>11, <4>3 DEF Lookups
        <5>2. PICK from \in T!ends : from = lookup.from BY <5>1
        <5>3. PICK back : back = T!opposite(from) OBVIOUS
        <5>4. WrongWay(from) BY <1>3, <5>1, <5>2 DEF Current
        <5>5. direction = back BY <5>1, <5>2, <5>3 DEF direction
        <5>6. WrongWay(back) BY <1>6, <1>11, <4>3, <5>5 DEF RightAnswer
        <5>7. CASE <<lookup.tuple, lookup.of>> \in missed BY <3>4, <5>7
        <5>8. CASE <<lookup.tuple, lookup.of>> \notin missed
          <6>1. ~Finds(from, d) /\ ~Finds(back, d) BY <4>1, <5>4, <5>6, <5>8 DEF WrongWay
          <6>2. {from, back} = {"client", "server"} BY <5>2, <5>3 DEF T!opposite, T!ends
          <6>3. u = d.orig \/ u = d.reply BY <3>1 DEF T!tuplesOf
          <6>4. QED BY <3>4, <6>1, <6>2, <6>3 DEF Finds
        <5>9. QED BY <5>7, <5>8
      <4>4. QED BY <4>2, <4>3
    <3>5. QED BY <3>1, <3>2, <3>3, <3>4 DEF T!onTheWay
  <2>6. QED BY <1>1, <2>2, <2>3, <2>4, <2>5, TableStays
<1>12. QED BY <1>1, <1>9, <1>10, <1>11

LEMMA NATStep == NATInv /\ [CollectorNext]_all => NATInv'
<1> SUFFICES ASSUME NATInv, [CollectorNext]_all PROVE NATInv'
  OBVIOUS
<1>1. T!Next \/ UNCHANGED translations
  BY DEF CollectorNext, all
<1>2. CASE UNCHANGED translations
  <2> USE DEF NATInv, translations
  <2>1. NATType' /\ Disjoint' /\ NothingToCome' /\ LinkedRight'
    BY <1>2 DEF NATType, Made, Disjoint, NothingToCome, LinkedRight, HasTuple
  <2>2. Current' BY <1>2, LookupStays
  <2>3. Waited' BY <1>2 DEF Waited, Accounted, T!onTheWay
  <2>4. QED BY <2>1, <2>2, <2>3
<1>3. CASE T!Next
  BY <1>3, OpenConnection, TrackConnection, CloseConnection, AnswerLookup, CapturePacket, LinkFlows,
     SecondPasses, TakeRequest, ReceiveAnswer, FailLookup DEF T!Next, Tuples, Translations
<1>4. QED BY <1>1, <1>2, <1>3

(* A flow of a translated connection is linked, or its lookup is on the way, *)
(* unless that was skipped, failed or made too early; and what it is linked  *)
(* to has its tuple (natFlow, resolve, Lookup, linkNAT): for any tuples and   *)
(* connections, any queues, answers as late as they like and tuples used     *)
(* again.                                                                   *)
THEOREM NATFinds == CollectorSpec => []NoneLost
<1>1. CollectorInit => NATInv
  BY NATInit DEF CollectorInit
<1>2. NATInv /\ [CollectorNext]_all => NATInv'
  BY NATStep
<1>3. NATInv => NoneLost
  <2>1. SUFFICES ASSUME NATInv PROVE T!NoneLost
    BY DEF NoneLost
  <2>2. \A t \in Tuples : T_flows[t].nat # 0 => t \in T!tuplesOf(made[T_flows[t].nat].entry)
    BY <2>1 DEF NATInv, LinkedRight, HasTuple
  <2>3. tracked \subseteq DOMAIN open BY <2>1 DEF NATInv, NATType
  <2>4. QED BY <2>1, <2>2, <2>3 DEF T!NoneLost, NATInv, Waited, Accounted, Tuples
<1>4. QED BY <1>1, <1>2, <1>3, PTL DEF CollectorSpec

(***************************************************************************)
(* Bytes.  What the handlers pass from call to call, Books, is Fit: of the   *)
(* right types, samples only of processes that are known, and what a flow    *)
(* left behind is still the flow's.  Each call keeps this and every byte.    *)
(***************************************************************************)
IOFlow == [on : BOOLEAN, closed : BOOLEAN, last : Nat, nat : BOOLEAN, io : [Proc -> Nat]]
Sample == [key : Key, proc : Proc, seen : Nat]
Pages == {"flows", "retired", "pendingIO", "pendingIOCount", "ioUnmatched", "lost", "leftBehind",
          "inherited"}
FlowsOf(fs, S) == DOMAIN fs = S /\ IsFiniteSet(S) /\ \A i \in S : fs[i] \in IOFlow
SamplesIn(pending) ==
  /\ DOMAIN pending \subseteq Sample /\ IsFiniteSet(DOMAIN pending)
  /\ \A x \in DOMAIN pending : pending[x] \in Nat

BookType(b) ==
  /\ DOMAIN b = Pages
  /\ b.flows \in [Key -> IOFlow] /\ FlowsOf(b.flows, Key) /\ FlowsOf(b.retired, DOMAIN b.retired)
  /\ SamplesIn(b.pendingIO) /\ b.pendingIOCount = SumFunction(b.pendingIO)
  /\ b.ioUnmatched \in Nat /\ b.lost \in Nat /\ b.leftBehind \subseteq DOMAIN b.pendingIO

(* Flows have bytes of the processes of P only, and only where there is one. *)
OnlyOf(fs, P) == \A i \in DOMAIN fs, p \in Proc : ~fs[i].on \/ p \notin P => fs[i].io[p] = 0
Retires(fs, P) == \A i \in DOMAIN fs, p \in Proc : p \notin P => fs[i].io[p] = 0

(* Samples in W; those of a key with a flow are not newer than the flow, and  *)
(* those left behind by a flow of a key in K wait beside it.                  *)
Beside(b, K) == \A x \in b.leftBehind : x.key \in K => b.flows[x.key].on
NotNewer(b) == \A x \in DOMAIN b.pendingIO : b.flows[x.key].on => x.seen <= b.flows[x.key].last

Fit(b, P, W, K) ==
  /\ BookType(b) /\ b.inherited = 0
  /\ OnlyOf(b.flows, P) /\ Retires(b.retired, P)
  /\ DOMAIN b.pendingIO \subseteq W /\ Beside(b, K) /\ NotNewer(b)

(* Samples a process of P may have waiting now. *)
Waits(W, P) == W \subseteq {x \in Sample : x.proc \in P /\ x.seen <= now}

held(b) == SumFunction(totals(b.flows)) + SumFunction(totals(b.retired)) + SumFunction(b.pendingIO)
             + b.ioUnmatched + b.lost
Kept(b, c) == held(c) = held(b) /\ c.pendingIOCount <= b.pendingIOCount

(* Sums of functions on their whole domain, and of the bytes of flows.       *)
LEMMA Total ==
  ASSUME NEW f, NEW S, DOMAIN f = S
  PROVE  SumFunction(f) = SumFunctionOnSet(f, S)
  BY DEF SumFunction

LEMMA FlowTotal ==
  ASSUME NEW f \in IOFlow
  PROVE  total(f.io) \in Nat
<1>1. f.io \in [Proc -> Nat] BY DEF IOFlow
<1>2. IsFiniteSet(Proc) BY SocketIOAssumption DEF SocketIOAssumption
<1>3. SumFunctionOnSet(f.io, Proc) \in Nat BY <1>1, <1>2, SumType
<1>4. QED BY <1>1, <1>3, Total DEF total

LEMMA NothingTotal ==
  ASSUME NEW io \in [Proc -> Nat], \A p \in Proc : io[p] = 0
  PROVE  total(io) = 0
<1>1. IsFiniteSet(Proc) BY SocketIOAssumption DEF SocketIOAssumption
<1>2. SumFunctionOnSet(io, Proc) = 0 BY <1>1, SumZero
<1>3. QED BY <1>2, Total DEF total

LEMMA Totals ==
  ASSUME NEW fs, NEW S, FlowsOf(fs, S)
  PROVE  /\ DOMAIN totals(fs) = S /\ \A i \in S : totals(fs)[i] = total(fs[i].io) /\ totals(fs)[i] \in Nat
         /\ SumFunction(totals(fs)) = SumFunctionOnSet(totals(fs), S) /\ SumFunction(totals(fs)) \in Nat
<1>1. DOMAIN totals(fs) = S /\ \A i \in S : totals(fs)[i] = total(fs[i].io)
  BY DEF totals, FlowsOf
<1>2. \A i \in S : totals(fs)[i] \in Nat BY <1>1, FlowTotal DEF FlowsOf
<1>3. SumFunction(totals(fs)) = SumFunctionOnSet(totals(fs), S) BY <1>1, Total
<1>4. SumFunctionOnSet(totals(fs), S) \in Nat BY <1>2, SumType DEF FlowsOf
<1>5. QED BY <1>1, <1>2, <1>3, <1>4

LEMMA OneFlowChanges ==
  ASSUME NEW fs, NEW gs, NEW S, FlowsOf(fs, S), FlowsOf(gs, S), NEW k \in S,
         \A i \in S \ {k} : gs[i].io = fs[i].io
  PROVE  SumFunction(totals(gs)) + total(fs[k].io) = SumFunction(totals(fs)) + total(gs[k].io)
<1>1. PICK f : f = totals(fs) OBVIOUS
<1>2. PICK g : g = totals(gs) OBVIOUS
<1>3. /\ \A i \in S : f[i] \in Nat /\ f[i] = total(fs[i].io)
      /\ \A i \in S : g[i] \in Nat /\ g[i] = total(gs[i].io)
      /\ SumFunction(f) = SumFunctionOnSet(f, S) /\ SumFunction(g) = SumFunctionOnSet(g, S)
  BY <1>1, <1>2, Totals
<1>4. \A i \in S \ {k} : g[i] = f[i] BY <1>3
<1>5. IsFiniteSet(S) BY DEF FlowsOf
<1>6. SumFunctionOnSet(g, S) + f[k] = SumFunctionOnSet(f, S) + g[k] BY <1>3, <1>4, <1>5, SumChange
<1>7. QED BY <1>1, <1>2, <1>3, <1>6

LEMMA SameTotals ==
  ASSUME NEW fs, NEW gs, NEW S, FlowsOf(fs, S), FlowsOf(gs, S), \A i \in S : gs[i].io = fs[i].io
  PROVE  SumFunction(totals(gs)) = SumFunction(totals(fs))
<1>1. totals(gs) = totals(fs) BY DEF totals, FlowsOf
<1>2. QED BY <1>1

LEMMA WaitingTotal ==
  ASSUME NEW pending, SamplesIn(pending)
  PROVE  /\ SumFunction(pending) \in Nat
         /\ \A xs \in SUBSET DOMAIN pending : SumFunctionOnSet(pending, xs) \in Nat
<1>1. ASSUME NEW xs \in SUBSET DOMAIN pending PROVE SumFunctionOnSet(pending, xs) \in Nat
  <2>1. IsFiniteSet(xs) BY FS_Subset DEF SamplesIn
  <2>2. \A x \in xs : pending[x] \in Nat BY DEF SamplesIn
  <2>3. QED BY <2>1, <2>2, SumType
<1>2. QED BY <1>1, Total

(* Books have numbers.                                                      *)
LEMMA Numbers ==
  ASSUME NEW b, BookType(b)
  PROVE  /\ SumFunction(totals(b.flows)) \in Nat /\ SumFunction(totals(b.retired)) \in Nat
         /\ SumFunction(b.pendingIO) \in Nat /\ held(b) \in Nat /\ b.pendingIOCount \in Nat
<1>1. SumFunction(totals(b.flows)) \in Nat /\ SumFunction(totals(b.retired)) \in Nat
  BY Totals DEF BookType
<1>2. SumFunction(b.pendingIO) \in Nat BY WaitingTotal DEF BookType
<1>3. QED BY <1>1, <1>2 DEF held, BookType

(* Samples are taken out: the count goes down by as many.                    *)
LEMMA TakeOut ==
  ASSUME NEW b, NEW P, NEW W, NEW K, Fit(b, P, W, K), NEW xs \in SUBSET DOMAIN b.pendingIO,
         NEW c, c = takeOut(b, xs)
  PROVE  /\ Fit(c, P, W, K)
         /\ c.flows = b.flows /\ c.retired = b.retired /\ c.ioUnmatched = b.ioUnmatched
         /\ c.lost = b.lost /\ c.leftBehind = b.leftBehind \ xs
         /\ DOMAIN c.pendingIO = DOMAIN b.pendingIO \ xs
         /\ SumFunctionOnSet(b.pendingIO, xs) \in Nat
         /\ held(b) = held(c) + SumFunctionOnSet(b.pendingIO, xs)
         /\ c.pendingIOCount <= b.pendingIOCount
<1>1. BookType(b) BY DEF Fit
<1>2. PICK n : n = SumFunctionOnSet(b.pendingIO, xs) OBVIOUS
<1>3. PICK left : left = without(b.pendingIO, xs) OBVIOUS
<1>4. DOMAIN b = Pages BY <1>1 DEF BookType
<1>5. /\ DOMAIN c = Pages
      /\ c.flows = b.flows /\ c.retired = b.retired /\ c.ioUnmatched = b.ioUnmatched
      /\ c.lost = b.lost /\ c.inherited = b.inherited
      /\ c.leftBehind = b.leftBehind \ xs /\ c.pendingIO = left
      /\ c.pendingIOCount = b.pendingIOCount - n
  BY <1>2, <1>3, <1>4 DEF takeOut, Pages
<1>6. DOMAIN left = DOMAIN b.pendingIO \ xs /\ \A x \in DOMAIN left : left[x] = b.pendingIO[x]
  BY <1>3 DEF without
<1>7. SamplesIn(b.pendingIO) BY <1>1 DEF BookType
<1>8. SamplesIn(left)
  <2>1. IsFiniteSet(DOMAIN left) BY <1>6, <1>7, FS_Subset DEF SamplesIn
  <2>2. QED BY <1>6, <1>7, <2>1 DEF SamplesIn
<1>9. /\ SumFunction(b.pendingIO) = n + SumFunction(left)
      /\ n \in Nat /\ SumFunction(left) \in Nat
  <2>1. PICK S : S = DOMAIN b.pendingIO OBVIOUS
  <2>2. IsFiniteSet(S) /\ \A x \in S : b.pendingIO[x] \in Nat BY <1>7, <2>1 DEF SamplesIn
  <2>3. SumFunctionOnSet(b.pendingIO, S) = n + SumFunctionOnSet(b.pendingIO, S \ xs)
    BY <1>2, <2>1, <2>2, SumSplit
  <2>4. IsFiniteSet(S \ xs) BY <2>2, FS_Subset
  <2>5. SumFunctionOnSet(b.pendingIO, S \ xs) = SumFunctionOnSet(left, S \ xs)
    BY <1>6, <2>1, <2>4, SumSame
  <2>6. SumFunction(left) = SumFunctionOnSet(left, S \ xs) BY <1>6, <2>1, Total
  <2>7. SumFunction(b.pendingIO) = SumFunctionOnSet(b.pendingIO, S) BY <2>1, Total
  <2>8. n \in Nat BY <1>2, <1>7, WaitingTotal
  <2>9. SumFunction(left) \in Nat BY <1>8, WaitingTotal
  <2>10. QED BY <2>3, <2>5, <2>6, <2>7, <2>8, <2>9
<1>10. BookType(c) BY <1>1, <1>5, <1>6, <1>8, <1>9 DEF BookType
<1>11. Fit(c, P, W, K)
  <2>1. Beside(c, K) /\ NotNewer(c) BY <1>5, <1>6 DEF Fit, Beside, NotNewer
  <2>2. QED BY <1>5, <1>6, <1>10, <2>1 DEF Fit
<1>12. held(b) = held(c) + n /\ c.pendingIOCount <= b.pendingIOCount
  <2>1. PICK m \in Nat : /\ m = SumFunction(totals(b.flows)) + SumFunction(totals(b.retired))
                                  + b.ioUnmatched + b.lost
    BY <1>1, Numbers DEF BookType
  <2>2. held(b) = m + SumFunction(b.pendingIO) BY <1>1, <2>1, Numbers DEF held, BookType
  <2>3. held(c) = m + SumFunction(left) BY <1>5, <1>9, <1>10, <2>1, Numbers DEF held, BookType
  <2>4. b.pendingIOCount \in Nat BY <1>1, Numbers
  <2>5. QED BY <1>5, <1>9, <2>1, <2>2, <2>3, <2>4
<1>13. QED BY <1>2, <1>5, <1>6, <1>9, <1>11, <1>12

(* Taken out and counted as unmatched.                                       *)
LEMMA Unmatched ==
  ASSUME NEW b, NEW P, NEW W, NEW K, Fit(b, P, W, K), NEW xs \in SUBSET DOMAIN b.pendingIO,
         NEW c, c = unmatched(b, xs)
  PROVE  /\ Fit(c, P, W, K) /\ Kept(b, c)
         /\ c.flows = b.flows /\ c.retired = b.retired /\ c.leftBehind = b.leftBehind \ xs
         /\ DOMAIN c.pendingIO = DOMAIN b.pendingIO \ xs
<1>1. PICK d : d = takeOut(b, xs) OBVIOUS
<1>2. PICK n : n = SumFunctionOnSet(b.pendingIO, xs) OBVIOUS
<1>3. /\ Fit(d, P, W, K) /\ n \in Nat
      /\ d.flows = b.flows /\ d.retired = b.retired /\ d.leftBehind = b.leftBehind \ xs
      /\ DOMAIN d.pendingIO = DOMAIN b.pendingIO \ xs
      /\ held(b) = held(d) + n /\ d.pendingIOCount <= b.pendingIOCount
  BY <1>1, <1>2, TakeOut
<1>4. BookType(d) BY <1>3 DEF Fit
<1>5. /\ DOMAIN c = Pages
      /\ c.flows = d.flows /\ c.retired = d.retired /\ c.leftBehind = d.leftBehind
      /\ c.pendingIO = d.pendingIO /\ c.pendingIOCount = d.pendingIOCount
      /\ c.lost = d.lost /\ c.inherited = d.inherited
      /\ c.ioUnmatched = d.ioUnmatched + n
  BY <1>1, <1>2, <1>4 DEF unmatched, BookType, Pages
<1>6. BookType(c) BY <1>3, <1>4, <1>5 DEF BookType
<1>7. Fit(c, P, W, K) BY <1>3, <1>5, <1>6 DEF Fit, Beside, NotNewer
<1>8. held(c) = held(d) + n BY <1>3, <1>4, <1>5, Numbers DEF held, BookType
<1>9. QED BY <1>3, <1>5, <1>7, <1>8 DEF Kept

LEMMA FlushPendingKey ==
  ASSUME NEW b, NEW P, NEW W, NEW K, Fit(b, P, W, K), NEW k \in Key, NEW c, c = flushPendingKey(b, k)
  PROVE  /\ Fit(c, P, W, K) /\ Kept(b, c) /\ c.flows = b.flows /\ c.retired = b.retired
         /\ \A x \in DOMAIN c.pendingIO : x.key # k
<1>1. PICK xs : xs = samplesOf(b, k) OBVIOUS
<1>2. xs = {x \in DOMAIN b.pendingIO : x.key = k} BY <1>1 DEF samplesOf
<1>3. c = unmatched(b, xs)
  BY <1>1 DEF flushPendingKey
<1>4. xs \in SUBSET DOMAIN b.pendingIO BY <1>2
<1>5. /\ Fit(c, P, W, K) /\ Kept(b, c) /\ c.flows = b.flows /\ c.retired = b.retired
      /\ DOMAIN c.pendingIO = DOMAIN b.pendingIO \ xs
  BY <1>3, <1>4, Unmatched
<1>6. QED BY <1>2, <1>5

LEMMA ExpirePendingIO ==
  ASSUME NEW b, NEW P, NEW W, NEW K, Fit(b, P, W, K), NEW flushAll \in BOOLEAN,
         NEW c, c = expirePendingIO(b, flushAll)
  PROVE  /\ Fit(c, P, W, K) /\ Kept(b, c) /\ c.flows = b.flows /\ c.retired = b.retired
         /\ \A x \in DOMAIN c.pendingIO : ~tooOld(x)
<1>1. PICK xs : xs = outdated(b, flushAll) OBVIOUS
<1>2. xs = {x \in DOMAIN b.pendingIO : flushAll \/ tooOld(x)} BY <1>1 DEF outdated
<1>3. c = unmatched(b, xs)
  BY <1>1 DEF expirePendingIO
<1>4. xs \in SUBSET DOMAIN b.pendingIO BY <1>2
<1>5. /\ Fit(c, P, W, K) /\ Kept(b, c) /\ c.flows = b.flows /\ c.retired = b.retired
      /\ DOMAIN c.pendingIO = DOMAIN b.pendingIO \ xs
  BY <1>3, <1>4, Unmatched
<1>6. QED BY <1>2, <1>5

(* The bytes of samples, process by process.                                 *)
LEMMA ByProcess ==
  ASSUME NEW pending, SamplesIn(pending), NEW xs \in SUBSET DOMAIN pending,
         NEW io, DOMAIN io = Proc,
         \A p \in Proc : io[p] = SumFunctionOnSet(pending, {x \in xs : x.proc = p})
  PROVE  total(io) = SumFunctionOnSet(pending, xs)
<1>1. PICK label : label = [x \in xs |-> x.proc] OBVIOUS
<1>2. IsFiniteSet(xs) /\ \A x \in xs : pending[x] \in Nat BY FS_Subset DEF SamplesIn
<1>3. \A x \in xs : label[x] \in Proc /\ label[x] = x.proc BY <1>1 DEF SamplesIn, Sample
<1>4. \A p \in Proc : io[p] = SumFunctionOnSet(pending, {x \in xs : label[x] = p})
  <2>1. ASSUME NEW p \in Proc PROVE {x \in xs : x.proc = p} = {x \in xs : label[x] = p} BY <1>3
  <2>2. QED BY <2>1
<1>5. IsFiniteSet(Proc) BY SocketIOAssumption DEF SocketIOAssumption
<1>6. SumFunctionOnSet(io, Proc) = SumFunctionOnSet(pending, xs)
  BY <1>2, <1>3, <1>4, <1>5, SumOfParts
<1>7. QED BY <1>6, Total DEF total

(* Bytes that are added process by process.                                 *)
LEMMA AddedTotal ==
  ASSUME NEW f \in [Proc -> Nat], NEW g \in [Proc -> Nat], NEW h, h = [p \in Proc |-> f[p] + g[p]]
  PROVE  total(h) = total(f) + total(g) /\ h \in [Proc -> Nat]
<1>1. IsFiniteSet(Proc) BY SocketIOAssumption DEF SocketIOAssumption
<1>2. \A p \in Proc : f[p] \in Nat /\ g[p] \in Nat /\ h[p] = f[p] + g[p] OBVIOUS
<1>3. SumFunctionOnSet(h, Proc) = SumFunctionOnSet(f, Proc) + SumFunctionOnSet(g, Proc)
  BY <1>1, <1>2, SumAdd
<1>4. QED BY <1>3, Total DEF total

(* What waits for k goes to the flow f, which is there; nothing of it was left *)
(* behind.                                                                  *)
LEMMA AttachPendingIO ==
  ASSUME NEW b, NEW P, NEW W, NEW K, Fit(b, P, W, K), Waits(W, P),
         NEW k \in Key, NEW f \in Key, b.flows[f].on, \A x \in b.leftBehind : x.key # k,
         NEW c, c = attachPendingIO(b, k, f)
  PROVE  /\ Fit(c, P, W, K) /\ Kept(b, c) /\ c.retired = b.retired
         /\ c.leftBehind \subseteq b.leftBehind
         /\ \A j \in Key : c.flows[j].on = b.flows[j].on
<1>1. PICK xs : xs = samplesOf(b, k) OBVIOUS
<1>2. PICK fresh : fresh = {x \in xs : ~tooOld(x)} OBVIOUS
<1>3. xs \in SUBSET DOMAIN b.pendingIO /\ fresh \in SUBSET xs /\ \A x \in xs : x.key = k
  BY <1>1, <1>2 DEF samplesOf
<1>4. PICK d : d = takeOut(b, xs) OBVIOUS
<1>5. PICK n : n = SumFunctionOnSet(b.pendingIO, fresh) OBVIOUS
<1>6. PICK m : m = SumFunctionOnSet(b.pendingIO, xs \ fresh) OBVIOUS
<1>7. PICK got : got = [p \in Proc |-> SumFunctionOnSet(b.pendingIO, {x \in fresh : x.proc = p})]
  OBVIOUS
<1>8. /\ Fit(d, P, W, K)
      /\ d.flows = b.flows /\ d.retired = b.retired
      /\ d.leftBehind = b.leftBehind \ xs
      /\ held(b) = held(d) + SumFunctionOnSet(b.pendingIO, xs)
      /\ d.pendingIOCount <= b.pendingIOCount
  BY <1>3, <1>4, TakeOut
<1>9. BookType(b) /\ BookType(d) /\ SamplesIn(b.pendingIO) BY <1>8 DEF Fit, BookType
<1>10. SumFunctionOnSet(b.pendingIO, xs) = n + m /\ n \in Nat /\ m \in Nat
  <2>1. IsFiniteSet(xs) /\ \A x \in xs : b.pendingIO[x] \in Nat
    BY <1>3, <1>9, FS_Subset DEF SamplesIn
  <2>2. SumFunctionOnSet(b.pendingIO, xs) = n + m BY <1>3, <1>5, <1>6, <2>1, SumSplit
  <2>3. n \in Nat BY <1>3, <1>5, <1>9, WaitingTotal
  <2>4. m \in Nat BY <1>3, <1>6, <1>9, WaitingTotal
  <2>5. QED BY <2>2, <2>3, <2>4
<1>11. SumFunctionOnSet(b.pendingIO, fresh \cap b.leftBehind) = 0
  <2>1. fresh \cap b.leftBehind = {} BY <1>3
  <2>2. QED BY <2>1, SumEmpty
<1>12. got \in [Proc -> Nat] /\ \A p \in Proc : p \notin P => got[p] = 0
  <2>1. ASSUME NEW p \in Proc PROVE got[p] \in Nat /\ (p \notin P => got[p] = 0)
    <3>1. PICK own : own = {x \in fresh : x.proc = p} OBVIOUS
    <3>2. own \in SUBSET DOMAIN b.pendingIO /\ got[p] = SumFunctionOnSet(b.pendingIO, own)
      BY <1>3, <1>7, <3>1
    <3>3. got[p] \in Nat BY <1>9, <3>2, WaitingTotal
    <3>4. p \notin P => own = {} BY <1>3, <3>1 DEF Fit, Waits
    <3>5. QED BY <3>2, <3>3, <3>4, SumEmpty
  <2>2. QED BY <1>7, <2>1
<1>13. total(got) = n
  BY <1>3, <1>5, <1>7, <1>9, ByProcess
<1>14. PICK io : io = [p \in Proc |-> b.flows[f].io[p] + got[p]] OBVIOUS
<1>15. b.flows[f] \in IOFlow /\ b.flows[f].io \in [Proc -> Nat] BY <1>9 DEF BookType, IOFlow
<1>16. total(io) = total(b.flows[f].io) + n /\ io \in [Proc -> Nat] BY <1>12, <1>13, <1>14, <1>15, AddedTotal
<1>17. /\ DOMAIN c = Pages
       /\ c.flows = [b.flows EXCEPT ![f].io = io]
       /\ c.retired = d.retired /\ c.pendingIO = d.pendingIO /\ c.pendingIOCount = d.pendingIOCount
       /\ c.lost = d.lost /\ c.leftBehind = d.leftBehind
       /\ c.ioUnmatched = d.ioUnmatched + m
       /\ c.inherited = d.inherited + SumFunctionOnSet(b.pendingIO, fresh \cap b.leftBehind)
  <2>1. c = [d EXCEPT !.flows[f].io = [p \in Proc |-> @[p] + SumFunctionOnSet(b.pendingIO, {x \in fresh : x.proc = p})],
                      !.inherited = @ + SumFunctionOnSet(b.pendingIO, fresh \cap b.leftBehind),
                      !.ioUnmatched = @ + SumFunctionOnSet(b.pendingIO, xs \ fresh)]
    BY <1>1, <1>2, <1>4 DEF attachPendingIO
  <2>2. [p \in Proc |-> d.flows[f].io[p] + SumFunctionOnSet(b.pendingIO, {x \in fresh : x.proc = p})] = io
    BY <1>7, <1>8, <1>14
  <2>3. PICK fs : fs = [d.flows EXCEPT ![f].io = io] OBVIOUS
  <2>4. PICK left : left = SumFunctionOnSet(b.pendingIO, fresh \cap b.leftBehind) OBVIOUS
  <2>5. c = [d EXCEPT !.flows = fs, !.inherited = @ + left, !.ioUnmatched = @ + m]
    BY <1>6, <2>1, <2>2, <2>3, <2>4
  <2>6. DOMAIN d = Pages BY <1>9 DEF BookType
  <2>7. /\ DOMAIN c = Pages /\ c.flows = fs
        /\ c.retired = d.retired /\ c.pendingIO = d.pendingIO /\ c.pendingIOCount = d.pendingIOCount
        /\ c.lost = d.lost /\ c.leftBehind = d.leftBehind
        /\ c.ioUnmatched = d.ioUnmatched + m /\ c.inherited = d.inherited + left
    BY <2>5, <2>6 DEF Pages
  <2>8. QED BY <1>8, <2>3, <2>4, <2>7
<1>18. /\ c.flows \in [Key -> IOFlow] /\ FlowsOf(c.flows, Key)
       /\ \A j \in Key : c.flows[j].on = b.flows[j].on /\ c.flows[j].last = b.flows[j].last
       /\ \A j \in Key \ {f} : c.flows[j].io = b.flows[j].io
       /\ c.flows[f].io = io
  <2>1. b.flows \in [Key -> IOFlow] /\ IsFiniteSet(Key) BY <1>9 DEF BookType, FlowsOf
  <2>2. QED BY <1>16, <1>17, <2>1 DEF IOFlow, FlowsOf
<1>19. c.inherited = 0 /\ d.inherited = 0 BY <1>8, <1>11, <1>17 DEF Fit
<1>20. BookType(c) BY <1>9, <1>10, <1>17, <1>18 DEF BookType
<1>21. OnlyOf(c.flows, P)
  <2>1. ASSUME NEW p \in Proc, p \notin P PROVE c.flows[f].io[p] = 0
    BY <1>9, <1>12, <1>14, <1>15, <1>18, <2>1 DEF Fit, OnlyOf, BookType
  <2>2. QED BY <1>9, <1>18, <2>1 DEF Fit, OnlyOf, BookType
<1>22. Beside(c, K) /\ NotNewer(c)
  <2>1. \A x \in DOMAIN d.pendingIO : x.key \in Key BY <1>9 DEF BookType, SamplesIn, Sample
  <2>2. d.leftBehind \subseteq DOMAIN d.pendingIO BY <1>9 DEF BookType
  <2>3. QED BY <1>8, <1>17, <1>18, <2>1, <2>2 DEF Fit, Beside, NotNewer
<1>23. Fit(c, P, W, K)
  BY <1>8, <1>17, <1>19, <1>20, <1>21, <1>22 DEF Fit
<1>24. held(c) = held(d) + n + m
  <2>1. SumFunction(totals(c.flows)) + total(b.flows[f].io) = SumFunction(totals(b.flows)) + total(io)
    <3>1. FlowsOf(b.flows, Key) BY <1>9 DEF BookType
    <3>2. QED BY <1>18, <3>1, OneFlowChanges
  <2>2. SumFunction(totals(c.flows)) = SumFunction(totals(d.flows)) + n
    <3>1. SumFunction(totals(c.flows)) \in Nat BY <1>20, Numbers
    <3>2. SumFunction(totals(b.flows)) \in Nat BY <1>9, Numbers
    <3>3. total(b.flows[f].io) \in Nat BY <1>15, FlowTotal
    <3>4. QED BY <1>8, <1>10, <1>16, <2>1, <3>1, <3>2, <3>3
  <2>3. QED BY <1>9, <1>10, <1>17, <1>20, <2>2, Numbers DEF held, BookType
<1>25. held(d) \in Nat BY <1>9, Numbers
<1>26. Kept(b, c) BY <1>8, <1>10, <1>17, <1>24, <1>25 DEF Kept
<1>27. QED BY <1>8, <1>17, <1>18, <1>23, <1>26

(* Only what decides nothing of bytes changes, and when a flow was last seen. *)
LEMMA SameBytes ==
  ASSUME NEW b, NEW P, NEW W, NEW K, Fit(b, P, W, K), Waits(W, P), NEW c, DOMAIN c = Pages,
         c.flows \in [Key -> IOFlow],
         \A j \in Key : /\ c.flows[j].io = b.flows[j].io /\ c.flows[j].on = b.flows[j].on
                        /\ c.flows[j].last \in {b.flows[j].last, now},
         \A p \in Pages \ {"flows"} : c[p] = b[p]
  PROVE  Fit(c, P, W, K) /\ Kept(b, c)
<1>1. /\ c.retired = b.retired /\ c.pendingIO = b.pendingIO /\ c.pendingIOCount = b.pendingIOCount
      /\ c.ioUnmatched = b.ioUnmatched /\ c.lost = b.lost /\ c.leftBehind = b.leftBehind
      /\ c.inherited = b.inherited
  BY DEF Pages
<1>2. BookType(b) BY DEF Fit
<1>3. FlowsOf(b.flows, Key) BY <1>2 DEF BookType
<1>4. FlowsOf(c.flows, Key) BY <1>3 DEF FlowsOf
<1>5. BookType(c) BY <1>1, <1>2, <1>4 DEF BookType
<1>6. SumFunction(totals(c.flows)) = SumFunction(totals(b.flows)) BY <1>3, <1>4, SameTotals
<1>7. held(c) = held(b) BY <1>1, <1>6 DEF held
<1>8. \A x \in DOMAIN b.pendingIO : x.key \in Key BY <1>2 DEF BookType, SamplesIn, Sample
<1>9. Beside(c, K) /\ NotNewer(c)
  <2>1. Beside(c, K) BY <1>1, <1>2, <1>8 DEF Fit, Beside, BookType
  <2>2. \A x \in DOMAIN b.pendingIO : x.seen <= now BY DEF Fit, Waits
  <2>3. NotNewer(c) BY <1>1, <1>8, <2>2 DEF Fit, NotNewer
  <2>4. QED BY <2>1, <2>3
<1>10. OnlyOf(c.flows, P) BY <1>3, <1>4 DEF Fit, OnlyOf, FlowsOf
<1>11. Fit(c, P, W, K) BY <1>1, <1>5, <1>9, <1>10 DEF Fit
<1>12. b.pendingIOCount <= b.pendingIOCount BY <1>2, Numbers
<1>13. QED BY <1>1, <1>7, <1>11, <1>12 DEF Kept

LEMMA KeptTwice ==
  ASSUME NEW b, NEW c, NEW d, BookType(b), BookType(c), BookType(d), Kept(b, c), Kept(c, d)
  PROVE  Kept(b, d)
<1>1. b.pendingIOCount \in Nat /\ c.pendingIOCount \in Nat /\ d.pendingIOCount \in Nat BY Numbers
<1>2. QED BY <1>1 DEF Kept

LEMMA KeptSame == ASSUME NEW b, BookType(b) PROVE Kept(b, b)
<1>1. b.pendingIOCount \in Nat BY Numbers
<1>2. QED BY <1>1 DEF Kept

LEMMA LinkTuple ==
  ASSUME NEW b, NEW P, NEW W, Fit(b, P, W, Key), Waits(W, P), NEW k \in {Orig, Reply},
         NEW c, c = linkTuple(b, k)
  PROVE  /\ Fit(c, P, W, Key) /\ Kept(b, c) /\ c.retired = b.retired
         /\ \A j \in Key : c.flows[j].on = b.flows[j].on
<1>1. BookType(b) BY DEF Fit
<1>2. k \in Key /\ other(k) \in Key BY SocketIOAssumption DEF SocketIOAssumption, other
<1>3. CASE c = b
  BY <1>1, <1>3, KeptSame
<1>4. CASE c # b
  <2>1. b.flows[k].on BY <1>4 DEF linkTuple
  <2>2. PICK d : d = [b EXCEPT !.flows[k].nat = TRUE] OBVIOUS
  <2>3. DOMAIN d = Pages /\ \A p \in Pages \ {"flows"} : d[p] = b[p]
    BY <1>1, <2>2 DEF BookType
  <2>4. d.flows = [b.flows EXCEPT ![k].nat = TRUE]
    BY <1>1, <2>2 DEF BookType, Pages
  <2>5. d.flows \in [Key -> IOFlow]
    <3>1. PICK g \in IOFlow : g = b.flows[k] BY <1>1, <1>2 DEF BookType
    <3>2. PICK h : h = [g EXCEPT !.nat = TRUE] OBVIOUS
    <3>3. h \in IOFlow BY <3>2 DEF IOFlow
    <3>4. d.flows = [b.flows EXCEPT ![k] = h] BY <2>4, <3>1, <3>2
    <3>5. QED BY <1>1, <3>3, <3>4 DEF BookType
  <2>6. \A j \in Key : /\ d.flows[j].io = b.flows[j].io /\ d.flows[j].on = b.flows[j].on
                       /\ d.flows[j].last = b.flows[j].last
    BY <1>1, <2>4 DEF BookType, IOFlow
  <2>7. Fit(d, P, W, Key) /\ Kept(b, d) BY <2>3, <2>5, <2>6, SameBytes
  <2>8. d.retired = b.retired /\ d.leftBehind = b.leftBehind BY <2>3 DEF Pages
  <2>9. CASE b.flows[other(k)].on
    <3>1. c = d BY <1>4, <2>2, <2>9 DEF linkTuple
    <3>2. QED BY <2>6, <2>7, <2>8, <3>1
  <2>10. CASE ~b.flows[other(k)].on
    <3>1. c = attachPendingIO(d, other(k), k) BY <1>4, <2>2, <2>10 DEF linkTuple
    <3>2. \A x \in d.leftBehind : x.key # other(k)
      <4>1. \A x \in d.leftBehind : x.key \in Key BY <1>1, <2>8 DEF BookType, SamplesIn, Sample
      <4>2. QED BY <2>6, <2>7, <2>10, <4>1 DEF Fit, Beside
    <3>3. d.flows[k].on BY <1>2, <2>1, <2>6
    <3>4. /\ Fit(c, P, W, Key) /\ Kept(d, c) /\ c.retired = d.retired
          /\ \A j \in Key : c.flows[j].on = d.flows[j].on
      BY <1>2, <2>7, <3>1, <3>2, <3>3, AttachPendingIO
    <3>5. BookType(c) /\ BookType(d) BY <2>7, <3>4 DEF Fit
    <3>6. Kept(b, c) BY <1>1, <2>7, <3>4, <3>5, KeptTwice
    <3>7. QED BY <2>6, <2>8, <3>4, <3>6
  <2>11. QED BY <2>9, <2>10
<1>5. QED BY <1>3, <1>4

LEMMA NATFlow ==
  ASSUME NEW b, NEW P, NEW W, Fit(b, P, W, Key), Waits(W, P), NEW c,
         c = linkNAT(b) \/ \E k \in Key : c = natFlow(b, k)
  PROVE  Fit(c, P, W, Key) /\ Kept(b, c) /\ c.retired = b.retired
<1>1. BookType(b) BY DEF Fit
<1>2. CASE c = b BY <1>1, <1>2, KeptSame
<1>3. CASE c = linkNAT(b)
  <2>1. PICK d : d = linkTuple(b, Orig) OBVIOUS
  <2>2. c = linkTuple(d, Reply) BY <1>3, <2>1 DEF linkNAT
  <2>3. Fit(d, P, W, Key) /\ Kept(b, d) /\ d.retired = b.retired BY <2>1, LinkTuple
  <2>4. Fit(c, P, W, Key) /\ Kept(d, c) /\ c.retired = d.retired BY <2>2, <2>3, LinkTuple
  <2>5. BookType(c) /\ BookType(d) BY <2>3, <2>4 DEF Fit
  <2>6. QED BY <1>1, <2>3, <2>4, <2>5, KeptTwice
<1>4. QED BY <1>2, <1>3 DEF natFlow

(* The flows of ks are gone, the others as they were.                        *)
Gone(b, c, ks) == \A k \in Key : c.flows[k] = IF k \in ks THEN NoFlow ELSE b.flows[k]

(* Flows that are given up take their bytes along.                          *)
LEMMA Drop ==
  ASSUME NEW b, NEW P, NEW W, NEW K, Fit(b, P, W, K), NEW ks \in SUBSET Key, NEW c, c = drop(b, ks)
  PROVE  /\ Fit(c, P, W, K \ ks) /\ Kept(b, c) /\ c.retired = b.retired
         /\ c.pendingIO = b.pendingIO /\ c.leftBehind = b.leftBehind /\ Gone(b, c, ks)
<1>1. BookType(b) BY DEF Fit
<1>2. PICK n : n = SumFunctionOnSet(totals(b.flows), ks) OBVIOUS
<1>3. PICK fs : fs = [k \in Key |-> IF k \in ks THEN NoFlow ELSE b.flows[k]] OBVIOUS
<1>4. /\ DOMAIN c = Pages
      /\ c.flows = fs /\ c.retired = b.retired /\ c.pendingIO = b.pendingIO
      /\ c.pendingIOCount = b.pendingIOCount /\ c.ioUnmatched = b.ioUnmatched
      /\ c.leftBehind = b.leftBehind /\ c.inherited = b.inherited
      /\ c.lost = b.lost + n
  BY <1>1, <1>2, <1>3 DEF drop, BookType, Pages
<1>5. NoFlow \in IOFlow /\ NoFlow.on = FALSE /\ NoFlow.io \in [Proc -> Nat]
      /\ \A p \in Proc : NoFlow.io[p] = 0
  BY DEF NoFlow, IOFlow
<1>6. FlowsOf(b.flows, Key) /\ IsFiniteSet(Key) BY <1>1 DEF BookType, FlowsOf
<1>7. fs \in [Key -> IOFlow] /\ FlowsOf(fs, Key) BY <1>1, <1>3, <1>5, <1>6 DEF BookType, FlowsOf
<1>8. SumFunction(totals(b.flows)) = SumFunction(totals(fs)) + n /\ n \in Nat
  <2>1. PICK f : f = totals(b.flows) OBVIOUS
  <2>2. PICK g : g = totals(fs) OBVIOUS
  <2>3. /\ \A k \in Key : f[k] = total(b.flows[k].io) /\ f[k] \in Nat
        /\ SumFunction(f) = SumFunctionOnSet(f, Key)
    BY <1>6, <2>1, Totals
  <2>4. /\ \A k \in Key : g[k] = total(fs[k].io) /\ g[k] \in Nat
        /\ SumFunction(g) = SumFunctionOnSet(g, Key)
    BY <1>7, <2>2, Totals
  <2>5. SumFunctionOnSet(f, Key) = n + SumFunctionOnSet(f, Key \ ks)
    BY <1>2, <1>6, <2>1, <2>3, SumSplit
  <2>6. SumFunctionOnSet(g, Key) = SumFunctionOnSet(g, ks) + SumFunctionOnSet(g, Key \ ks)
    BY <1>6, <2>4, SumSplit
  <2>7. IsFiniteSet(ks) /\ IsFiniteSet(Key \ ks) BY <1>6, FS_Subset
  <2>8. SumFunctionOnSet(g, ks) = 0
    <3>1. total(NoFlow.io) = 0 BY <1>5, NothingTotal
    <3>2. \A k \in ks : g[k] = 0 BY <1>3, <2>4, <3>1
    <3>3. QED BY <2>7, <3>2, SumZero
  <2>9. SumFunctionOnSet(f, Key \ ks) = SumFunctionOnSet(g, Key \ ks)
    <3>1. \A k \in Key \ ks : f[k] = g[k] BY <1>3, <2>3, <2>4
    <3>2. QED BY <2>7, <3>1, SumSame
  <2>10. SumFunctionOnSet(g, Key \ ks) \in Nat BY <2>4, <2>7, SumType
  <2>11. n \in Nat BY <1>2, <2>1, <2>3, <2>7, SumType
  <2>12. QED BY <2>1, <2>2, <2>3, <2>4, <2>5, <2>6, <2>8, <2>9, <2>10, <2>11
<1>9. BookType(c) BY <1>1, <1>4, <1>7, <1>8 DEF BookType
<1>10. OnlyOf(c.flows, P) BY <1>3, <1>4, <1>5, <1>6 DEF Fit, OnlyOf, FlowsOf
<1>11. Beside(c, K \ ks) /\ NotNewer(c)
  <2>1. \A x \in DOMAIN b.pendingIO : x.key \in Key BY <1>1 DEF BookType, SamplesIn, Sample
  <2>2. QED BY <1>1, <1>3, <1>4, <1>5, <2>1 DEF Fit, Beside, NotNewer, BookType
<1>12. Fit(c, P, W, K \ ks) BY <1>4, <1>9, <1>10, <1>11 DEF Fit
<1>13. held(c) = held(b)
  BY <1>1, <1>4, <1>8, <1>9, Numbers DEF held, BookType
<1>14. b.pendingIOCount <= b.pendingIOCount BY <1>1, Numbers
<1>15. QED BY <1>3, <1>4, <1>12, <1>13, <1>14 DEF Kept, Gone

LEMMA Evict ==
  ASSUME NEW b, NEW P, NEW W, NEW K, Fit(b, P, W, K), NEW ks \in SUBSET Key, NEW c, c = evict(b, ks)
  PROVE  /\ Fit(c, P, W, K) /\ Kept(b, c) /\ c.retired = b.retired
         /\ c.pendingIO = b.pendingIO /\ c.leftBehind \subseteq b.leftBehind /\ Gone(b, c, ks)
<1>1. PICK d : d = drop(b, ks) OBVIOUS
<1>2. /\ Fit(d, P, W, K \ ks) /\ Kept(b, d) /\ d.retired = b.retired
      /\ d.pendingIO = b.pendingIO /\ d.leftBehind = b.leftBehind /\ Gone(b, d, ks)
  BY <1>1, Drop
<1>3. BookType(d) BY <1>2 DEF Fit
<1>4. /\ DOMAIN c = Pages
      /\ c.flows = d.flows /\ c.retired = d.retired /\ c.pendingIO = d.pendingIO
      /\ c.pendingIOCount = d.pendingIOCount /\ c.ioUnmatched = d.ioUnmatched
      /\ c.lost = d.lost /\ c.inherited = d.inherited
      /\ c.leftBehind = {x \in d.leftBehind : x.key \notin ks}
  BY <1>1, <1>3 DEF evict, BookType, Pages
<1>5. BookType(c) BY <1>3, <1>4 DEF BookType
<1>6. Beside(c, K) /\ NotNewer(c) 
  <2>1. \A x \in d.leftBehind : x.key \in K \ ks => d.flows[x.key].on BY <1>2 DEF Fit, Beside
  <2>2. QED BY <1>2, <1>4, <2>1 DEF Fit, Beside, NotNewer
<1>7. Fit(c, P, W, K) BY <1>2, <1>4, <1>5, <1>6 DEF Fit
<1>8. held(c) = held(d) BY <1>4 DEF held
<1>9. Gone(b, c, ks) BY <1>2, <1>4 DEF Gone
<1>10. QED BY <1>2, <1>4, <1>7, <1>8, <1>9 DEF Kept

(* The flows that are retired had another after them.                       *)
RetiredBy(b, n) == n \in Nat /\ DOMAIN b.retired \subseteq 1..n

(* A flow moves to the retired ones.                                        *)
LEMMA Retire ==
  ASSUME NEW b, NEW P, NEW W, NEW K, Fit(b, P, W, K), NEW k \in Key,
         RetiredBy(b, created), NEW c, c = retire(b, k)
  PROVE  /\ Fit(c, P, W, K \ {k}) /\ Kept(b, c)
         /\ RetiredBy(c, created + 1)
         /\ c.pendingIO = b.pendingIO /\ c.leftBehind = b.leftBehind
         /\ Gone(b, c, {k})
<1>1. BookType(b) BY DEF Fit
<1>2. PICK n \in Nat : n = created + 1 BY DEF RetiredBy
<1>3. PICK S : S = DOMAIN b.retired OBVIOUS
<1>4. n \notin S BY <1>2, <1>3 DEF RetiredBy
<1>5. PICK fs : fs = [b.flows EXCEPT ![k] = NoFlow] OBVIOUS
<1>6. PICK rs : rs = put(b.retired, n, b.flows[k]) OBVIOUS
<1>7. /\ DOMAIN c = Pages
      /\ c.flows = fs /\ c.retired = rs /\ c.pendingIO = b.pendingIO
      /\ c.pendingIOCount = b.pendingIOCount /\ c.ioUnmatched = b.ioUnmatched
      /\ c.leftBehind = b.leftBehind /\ c.inherited = b.inherited /\ c.lost = b.lost
  BY <1>1, <1>2, <1>5, <1>6 DEF retire, BookType, Pages
<1>8. /\ DOMAIN rs = S \cup {n} /\ rs[n] = b.flows[k]
      /\ \A i \in S : rs[i] = b.retired[i]
  BY <1>3, <1>4, <1>6 DEF put
<1>9. NoFlow \in IOFlow /\ NoFlow.on = FALSE /\ NoFlow.io \in [Proc -> Nat]
      /\ \A p \in Proc : NoFlow.io[p] = 0
  BY DEF NoFlow, IOFlow
<1>10. FlowsOf(b.flows, Key) /\ b.flows[k] \in IOFlow /\ FlowsOf(b.retired, S)
  BY <1>1, <1>3 DEF BookType, FlowsOf
<1>11. fs \in [Key -> IOFlow] /\ FlowsOf(fs, Key) BY <1>1, <1>5, <1>9, <1>10 DEF BookType, FlowsOf
<1>12. FlowsOf(rs, S \cup {n})
  <2>1. IsFiniteSet(S \cup {n}) BY <1>10, FS_AddElement DEF FlowsOf
  <2>2. QED BY <1>8, <1>10, <2>1 DEF FlowsOf
<1>13. BookType(c) BY <1>1, <1>7, <1>8, <1>11, <1>12 DEF BookType
<1>14. \A j \in Key : fs[j] = IF j = k THEN NoFlow ELSE b.flows[j] BY <1>1, <1>5 DEF BookType
<1>15. SumFunction(totals(fs)) + total(b.flows[k].io) = SumFunction(totals(b.flows))
  <2>1. total(NoFlow.io) = 0 BY <1>9, NothingTotal
  <2>2. SumFunction(totals(fs)) + total(b.flows[k].io) = SumFunction(totals(b.flows)) + total(fs[k].io)
    BY <1>10, <1>11, <1>14, OneFlowChanges
  <2>3. SumFunction(totals(b.flows)) \in Nat BY <1>1, Numbers
  <2>4. QED BY <1>14, <2>1, <2>2, <2>3
<1>16. SumFunction(totals(rs)) = SumFunction(totals(b.retired)) + total(b.flows[k].io)
  <2>1. PICK f : f = totals(rs) OBVIOUS
  <2>2. PICK g : g = totals(b.retired) OBVIOUS
  <2>3. PICK more : more = S \cup {n} OBVIOUS
  <2>4. /\ \A i \in more : f[i] = total(rs[i].io) /\ f[i] \in Nat
        /\ SumFunction(f) = SumFunctionOnSet(f, more)
    BY <1>12, <2>1, <2>3, Totals
  <2>5. /\ \A i \in S : g[i] = total(b.retired[i].io) /\ g[i] \in Nat
        /\ SumFunction(g) = SumFunctionOnSet(g, S)
    BY <1>10, <2>2, Totals
  <2>6. IsFiniteSet(S) /\ IsFiniteSet(more) /\ n \in more /\ more \ {n} = S
    BY <1>4, <1>10, <1>12, <2>3 DEF FlowsOf
  <2>7. SumFunctionOnSet(f, more) = f[n] + SumFunctionOnSet(f, S)
    <3>1. SumFunctionOnSet(f, more) = f[n] + SumFunctionOnSet(f, more \ {n})
      <4>1. \A i \in more : f[i] \in Nat BY <2>4
      <4>2. QED BY ZenonT(30), <2>6, <4>1, SumWithout
    <3>2. QED BY <2>6, <3>1
  <2>8. SumFunctionOnSet(f, S) = SumFunctionOnSet(g, S)
    <3>1. \A i \in S : f[i] = g[i] BY <1>8, <2>3, <2>4, <2>5
    <3>2. QED BY <2>6, <3>1, SumSame
  <2>9. SumFunctionOnSet(g, S) \in Nat /\ f[n] \in Nat /\ f[n] = total(b.flows[k].io)
    BY <1>8, <2>4, <2>5, <2>6, SumType
  <2>10. QED BY <2>1, <2>2, <2>4, <2>5, <2>7, <2>8, <2>9
<1>17. held(c) = held(b)
  <2>1. total(b.flows[k].io) \in Nat BY <1>10, FlowTotal
  <2>2. QED BY <1>1, <1>7, <1>13, <1>15, <1>16, <2>1, Numbers DEF held, BookType
<1>18. OnlyOf(c.flows, P) /\ Retires(c.retired, P)
  <2>1. OnlyOf(b.flows, P) /\ Retires(b.retired, P) BY DEF Fit
  <2>2. OnlyOf(c.flows, P) BY <1>7, <1>9, <1>10, <1>11, <1>14, <2>1 DEF OnlyOf, FlowsOf
  <2>3. \A p \in Proc : p \notin P => rs[n].io[p] = 0 BY <1>8, <1>10, <2>1 DEF OnlyOf, FlowsOf
  <2>4. Retires(c.retired, P) BY <1>3, <1>7, <1>8, <2>1, <2>3 DEF Retires
  <2>5. QED BY <2>2, <2>4
<1>19. Beside(c, K \ {k}) /\ NotNewer(c)
  <2>1. \A x \in DOMAIN b.pendingIO : x.key \in Key BY <1>1 DEF BookType, SamplesIn, Sample
  <2>2. QED BY <1>1, <1>7, <1>9, <1>14, <2>1 DEF Fit, Beside, NotNewer, BookType
<1>20. Fit(c, P, W, K \ {k}) BY <1>7, <1>13, <1>18, <1>19 DEF Fit
<1>21. b.pendingIOCount <= b.pendingIOCount BY <1>1, Numbers
<1>22. Gone(b, c, {k}) BY <1>7, <1>14 DEF Gone
<1>23. RetiredBy(c, created + 1) BY <1>2, <1>3, <1>7, <1>8 DEF RetiredBy
<1>24. QED BY <1>7, <1>17, <1>20, <1>21, <1>22, <1>23 DEF Kept

(* A flow of k is there now.                                                *)
Opened(b, c, k) == \A j \in Key : c.flows[j].on = (b.flows[j].on \/ j = k)

(* A flow begins: what waits is not newer.                                   *)
LEMMA Begin ==
  ASSUME NEW b, NEW P, NEW W, NEW K, Fit(b, P, W, K), Waits(W, P), NEW k \in Key, ~b.flows[k].on,
         now \in Nat, NEW c, DOMAIN c = Pages,
         c.flows = [b.flows EXCEPT ![k] = newFlow],
         \A p \in Pages \ {"flows", "leftBehind"} : c[p] = b[p],
         c.leftBehind \subseteq DOMAIN b.pendingIO,
         \A x \in c.leftBehind \ b.leftBehind : x.key = k
  PROVE  /\ Fit(c, P, W, K \cup {k}) /\ Kept(b, c) /\ c.retired = b.retired
         /\ Opened(b, c, k)
<1>1. BookType(b) BY DEF Fit
<1>2. PICK f : f = newFlow OBVIOUS
<1>3. f \in IOFlow /\ f.on = TRUE /\ f.last = now /\ f.io = [p \in Proc |-> 0]
  BY <1>2 DEF newFlow, NoFlow, IOFlow
<1>4. c.flows = [b.flows EXCEPT ![k] = f] BY <1>2
<1>5. /\ c.retired = b.retired /\ c.pendingIO = b.pendingIO /\ c.pendingIOCount = b.pendingIOCount
      /\ c.ioUnmatched = b.ioUnmatched /\ c.lost = b.lost /\ c.inherited = b.inherited
  BY DEF Pages
<1>6. FlowsOf(b.flows, Key) BY <1>1 DEF BookType
<1>7. /\ c.flows \in [Key -> IOFlow] /\ FlowsOf(c.flows, Key)
      /\ \A j \in Key : c.flows[j] = IF j = k THEN f ELSE b.flows[j]
  BY <1>1, <1>3, <1>4, <1>6 DEF BookType, FlowsOf
<1>8. BookType(c) BY <1>1, <1>5, <1>7 DEF BookType
<1>9. b.flows[k].io = [p \in Proc |-> 0]
  <2>1. b.flows[k].io \in [Proc -> Nat] BY <1>6 DEF FlowsOf, IOFlow
  <2>2. \A p \in Proc : b.flows[k].io[p] = 0 BY <1>6 DEF Fit, OnlyOf, FlowsOf
  <2>3. QED BY <2>1, <2>2
<1>10. SumFunction(totals(c.flows)) = SumFunction(totals(b.flows))
  <2>1. \A j \in Key : c.flows[j].io = b.flows[j].io BY <1>3, <1>7, <1>9
  <2>2. QED BY <1>6, <1>7, <2>1, SameTotals
<1>11. OnlyOf(c.flows, P)
  <2>1. ASSUME NEW j \in Key, NEW p \in Proc, ~c.flows[j].on \/ p \notin P PROVE c.flows[j].io[p] = 0
    <3>1. CASE j = k
      <4>1. c.flows[j] = f BY <1>7, <3>1
      <4>2. f.io[p] = 0 BY <1>3
      <4>3. QED BY <4>1, <4>2
    <3>2. CASE j # k BY <1>6, <1>7, <2>1, <3>2 DEF Fit, OnlyOf, FlowsOf
    <3>3. QED BY <3>1, <3>2
  <2>2. QED BY <1>7, <2>1 DEF OnlyOf, FlowsOf
<1>12. \A x \in DOMAIN b.pendingIO : x.key \in Key /\ x.seen <= now
  BY <1>1 DEF BookType, SamplesIn, Sample, Fit, Waits
<1>13. Beside(c, K \cup {k}) /\ NotNewer(c)
  <2>1. \A x \in c.leftBehind : x.key \in K \cup {k} => c.flows[x.key].on
    BY <1>1, <1>3, <1>7, <1>12 DEF Fit, Beside, BookType
  <2>2. QED BY <1>3, <1>5, <1>7, <1>12, <2>1 DEF Fit, Beside, NotNewer
<1>14. Fit(c, P, W, K \cup {k}) BY <1>5, <1>8, <1>11, <1>13 DEF Fit
<1>15. held(c) = held(b) BY <1>5, <1>10 DEF held
<1>16. b.pendingIOCount <= b.pendingIOCount BY <1>1, Numbers
<1>17. Opened(b, c, k) BY <1>3, <1>6, <1>7 DEF Opened, FlowsOf, IOFlow
<1>18. QED BY <1>5, <1>14, <1>15, <1>16, <1>17 DEF Kept

LEMMA Create ==
  ASSUME NEW b, NEW P, NEW W, NEW K, Fit(b, P, W, K), Waits(W, P), NEW k \in Key, ~b.flows[k].on,
         now \in Nat, NEW c, c = create(b, k)
  PROVE  /\ Fit(c, P, W, K \cup {k}) /\ Kept(b, c) /\ c.retired = b.retired
         /\ Opened(b, c, k)
<1>1. BookType(b) BY DEF Fit
<1>2. PICK xs : xs = samplesOf(b, k) OBVIOUS
<1>3. xs \subseteq DOMAIN b.pendingIO /\ \A x \in xs : x.key = k BY <1>2 DEF samplesOf
<1>4. /\ DOMAIN c = Pages
      /\ c.flows = [b.flows EXCEPT ![k] = newFlow]
      /\ c.leftBehind = b.leftBehind \cup xs
      /\ \A p \in Pages \ {"flows", "leftBehind"} : c[p] = b[p]
  BY <1>1, <1>2 DEF create, BookType, Pages
<1>5. c.leftBehind \subseteq DOMAIN b.pendingIO /\ \A x \in c.leftBehind \ b.leftBehind : x.key = k
  BY <1>1, <1>3, <1>4 DEF BookType
<1>6. QED BY <1>4, <1>5, Begin

LEMMA CreateAttached ==
  ASSUME NEW b, NEW P, NEW W, Fit(b, P, W, Key), Waits(W, P), NEW k \in Key, ~b.flows[k].on,
         now \in Nat, NEW c, c = createAttached(b, k)
  PROVE  Fit(c, P, W, Key) /\ Kept(b, c) /\ c.retired = b.retired
<1>1. BookType(b) BY DEF Fit
<1>2. PICK d : d = [b EXCEPT !.flows[k] = newFlow] OBVIOUS
<1>3. /\ DOMAIN d = Pages
      /\ d.flows = [b.flows EXCEPT ![k] = newFlow]
      /\ d.leftBehind = b.leftBehind
      /\ \A p \in Pages \ {"flows", "leftBehind"} : d[p] = b[p]
  BY <1>1, <1>2 DEF BookType, Pages
<1>4. d.leftBehind \subseteq DOMAIN b.pendingIO /\ \A x \in d.leftBehind \ b.leftBehind : x.key = k
  BY <1>1, <1>3 DEF BookType
<1>5. /\ Fit(d, P, W, Key \cup {k}) /\ Kept(b, d) /\ d.retired = b.retired
      /\ Opened(b, d, k)
  BY <1>3, <1>4, Begin
<1>6. Key \cup {k} = Key OBVIOUS
<1>7. Fit(d, P, W, Key) BY <1>5, <1>6
<1>8. d.flows[k].on BY <1>5 DEF Opened
<1>9. \A x \in d.leftBehind : x.key # k BY <1>3 DEF Fit, Beside
<1>10. c = attachPendingIO(d, k, k) BY <1>2 DEF createAttached
<1>11. Fit(c, P, W, Key) /\ Kept(d, c) /\ c.retired = d.retired
  BY <1>7, <1>8, <1>9, <1>10, AttachPendingIO
<1>12. BookType(c) /\ BookType(d) BY <1>7, <1>11 DEF Fit
<1>13. QED BY <1>1, <1>5, <1>11, <1>12, KeptTwice

(* Closing a flow is no matter of bytes.                                     *)
LEMMA Closes ==
  ASSUME NEW b, NEW P, NEW W, NEW K, Fit(b, P, W, K), Waits(W, P), NEW k \in Key, NEW failed \in BOOLEAN,
         NEW c, c = [b EXCEPT !.flows[k].closed = failed]
  PROVE  Fit(c, P, W, K) /\ Kept(b, c) /\ c.retired = b.retired
<1>1. BookType(b) BY DEF Fit
<1>2. DOMAIN c = Pages /\ \A p \in Pages \ {"flows"} : c[p] = b[p] BY <1>1 DEF BookType
<1>3. c.flows = [b.flows EXCEPT ![k].closed = failed] BY <1>1 DEF BookType, Pages
<1>4. c.flows \in [Key -> IOFlow] BY <1>1, <1>3 DEF BookType, IOFlow
<1>5. \A j \in Key : /\ c.flows[j].io = b.flows[j].io /\ c.flows[j].on = b.flows[j].on
                     /\ c.flows[j].last = b.flows[j].last
  BY <1>1, <1>3 DEF BookType, IOFlow
<1>6. c.retired = b.retired BY <1>2 DEF Pages
<1>7. QED BY <1>2, <1>4, <1>5, <1>6, SameBytes

(* What waits for a key without samples was left by none of its flows.       *)
LEMMA NoneLeft ==
  ASSUME NEW b, NEW P, NEW W, NEW k \in Key, Fit(b, P, W, Key \ {k}),
         \A x \in DOMAIN b.pendingIO : x.key # k
  PROVE  Fit(b, P, W, Key)
<1>1. Beside(b, Key) BY DEF Fit, Beside, BookType
<1>2. QED BY <1>1 DEF Fit

(* A flow of k is retired, others are evicted.                              *)
LEMMA MakeRoom ==
  ASSUME NEW b, NEW P, NEW W, Fit(b, P, W, Key), NEW k \in Key, NEW ks \in SUBSET (Key \ {k}),
         RetiredBy(b, created), NEW flush \in BOOLEAN,
         NEW prior, prior = IF b.flows[k].on
                            THEN retire(IF flush THEN flushPendingKey(b, k) ELSE b, k) ELSE b,
         NEW c, c = evict(prior, ks)
  PROVE  /\ Fit(c, P, W, Key \ {k}) /\ (flush \/ ~b.flows[k].on => Fit(c, P, W, Key))
         /\ Kept(b, c) /\ ~c.flows[k].on /\ RetiredBy(c, created + 1)
<1>1. PICK d : d = IF flush /\ b.flows[k].on THEN flushPendingKey(b, k) ELSE b OBVIOUS
<1>2. BookType(b) BY DEF Fit
<1>3. /\ Fit(d, P, W, Key) /\ Kept(b, d) /\ d.flows = b.flows /\ d.retired = b.retired
      /\ (flush /\ b.flows[k].on => \A x \in DOMAIN d.pendingIO : x.key # k)
  <2>1. CASE flush /\ b.flows[k].on
    <3>1. d = flushPendingKey(b, k) BY <1>1, <2>1
    <3>2. QED BY <3>1, FlushPendingKey
  <2>2. CASE ~(flush /\ b.flows[k].on)
    <3>1. d = b BY <1>1, <2>2
    <3>2. QED BY <1>2, <2>2, <3>1, KeptSame
  <2>3. QED BY <2>1, <2>2
<1>4. BookType(d) BY <1>3 DEF Fit
<1>5. /\ Fit(prior, P, W, Key \ {k}) /\ (flush \/ ~b.flows[k].on => Fit(prior, P, W, Key))
      /\ Kept(b, prior) /\ ~prior.flows[k].on /\ RetiredBy(prior, created + 1)
  <2>1. CASE b.flows[k].on
    <3>1. prior = retire(d, k) BY <1>1, <2>1
    <3>2. /\ Fit(prior, P, W, Key \ {k}) /\ Kept(d, prior)
          /\ RetiredBy(prior, created + 1)
          /\ prior.pendingIO = d.pendingIO /\ Gone(d, prior, {k})
      <4>1. RetiredBy(d, created) BY <1>3 DEF RetiredBy
      <4>2. Fit(d, P, W, Key) BY <1>3
      <4>3. QED BY <3>1, <4>1, <4>2, Retire
    <3>3. flush => Fit(prior, P, W, Key) BY <1>3, <2>1, <3>2, NoneLeft
    <3>4. ~prior.flows[k].on BY <3>2 DEF Gone, NoFlow
    <3>5. BookType(prior) BY <3>2 DEF Fit
    <3>6. Kept(b, prior) BY <1>2, <1>3, <1>4, <3>2, <3>5, KeptTwice
    <3>7. QED BY <2>1, <3>2, <3>3, <3>4, <3>6
  <2>2. CASE ~b.flows[k].on
    <3>1. prior = b BY <2>2
    <3>2. Fit(b, P, W, Key \ {k}) BY DEF Fit, Beside
    <3>3. RetiredBy(b, created + 1) BY DEF RetiredBy
    <3>4. QED BY <1>2, <2>2, <3>1, <3>2, <3>3, KeptSame
  <2>3. QED BY <2>1, <2>2
<1>6. ks \in SUBSET Key OBVIOUS
<1>7. /\ Fit(c, P, W, Key \ {k}) /\ Kept(prior, c) /\ c.retired = prior.retired
      /\ Gone(prior, c, ks)
  BY <1>5, <1>6, Evict
<1>8. flush \/ ~b.flows[k].on => Fit(c, P, W, Key) BY <1>5, <1>6, Evict
<1>9. ~c.flows[k].on BY <1>5, <1>7 DEF Gone, NoFlow
<1>10. BookType(prior) /\ BookType(c) BY <1>5, <1>7 DEF Fit
<1>11. Kept(b, c) BY <1>2, <1>5, <1>7, <1>10, KeptTwice
<1>12. RetiredBy(c, created + 1) BY <1>5, <1>7 DEF RetiredBy
<1>13. QED BY <1>7, <1>8, <1>9, <1>11, <1>12

(* Forgetting processes: what their part was is lost.                        *)
LEMMA FlowForgets ==
  ASSUME NEW io \in [Proc -> Nat], NEW ids \in SUBSET Proc,
         NEW left, left = [p \in Proc |-> IF p \in ids THEN 0 ELSE io[p]]
  PROVE  /\ total(io) = total(left) + SumFunctionOnSet(io, ids) /\ SumFunctionOnSet(io, ids) \in Nat
         /\ left \in [Proc -> Nat] /\ total(left) \in Nat
<1>1. IsFiniteSet(Proc) BY SocketIOAssumption DEF SocketIOAssumption
<1>2. IsFiniteSet(ids) /\ IsFiniteSet(Proc \ ids) BY <1>1, FS_Subset
<1>3. /\ \A p \in Proc : io[p] \in Nat
      /\ \A p \in Proc : left[p] \in Nat
      /\ \A p \in ids : left[p] = 0
      /\ \A p \in Proc \ ids : left[p] = io[p]
  OBVIOUS
<1>4. SumFunctionOnSet(io, Proc) = SumFunctionOnSet(io, ids) + SumFunctionOnSet(io, Proc \ ids)
  BY <1>1, <1>3, SumSplit
<1>5. SumFunctionOnSet(left, Proc) = SumFunctionOnSet(left, ids) + SumFunctionOnSet(left, Proc \ ids)
  BY <1>1, <1>3, SumSplit
<1>6. SumFunctionOnSet(left, ids) = 0 BY <1>2, <1>3, SumZero
<1>7. SumFunctionOnSet(left, Proc \ ids) = SumFunctionOnSet(io, Proc \ ids) BY <1>2, <1>3, SumSame
<1>8. SumFunctionOnSet(io, ids) \in Nat
  <2>1. \A p \in ids : io[p] \in Nat OBVIOUS
  <2>2. QED BY <1>2, <2>1, SumType
<1>9. SumFunctionOnSet(left, Proc) \in Nat BY <1>1, <1>3, SumType
<1>10. SumFunctionOnSet(io, Proc \ ids) \in Nat
  <2>1. \A p \in Proc \ ids : io[p] \in Nat OBVIOUS
  <2>2. QED BY <1>2, <2>1, SumType
<1>11. total(io) = SumFunctionOnSet(io, Proc) /\ total(left) = SumFunctionOnSet(left, Proc)
  BY Total DEF total
<1>12. left \in [Proc -> Nat] OBVIOUS
<1>13. QED BY <1>4, <1>5, <1>6, <1>7, <1>8, <1>9, <1>10, <1>11, <1>12

Cleared(fs, ids) ==
  [k \in DOMAIN fs |-> [fs[k] EXCEPT !.io = [p \in Proc |-> IF p \in ids THEN 0 ELSE @[p]]]]
Part(fs, ids) == SumFunction([k \in DOMAIN fs |-> SumFunctionOnSet(fs[k].io, ids)])

LEMMA FlowsForget ==
  ASSUME NEW fs, NEW S, FlowsOf(fs, S), NEW ids \in SUBSET Proc, NEW gs, gs = Cleared(fs, ids)
  PROVE  /\ FlowsOf(gs, S) /\ Part(fs, ids) \in Nat
         /\ SumFunction(totals(fs)) = SumFunction(totals(gs)) + Part(fs, ids)
         /\ \A i \in S : /\ gs[i].on = fs[i].on /\ gs[i].last = fs[i].last
                         /\ \A p \in Proc : gs[i].io[p] = IF p \in ids THEN 0 ELSE fs[i].io[p]
<1>1. IsFiniteSet(S) /\ DOMAIN fs = S /\ DOMAIN gs = S BY DEF FlowsOf, Cleared
<1>2. PICK h : h = [k \in S |-> SumFunctionOnSet(fs[k].io, ids)] OBVIOUS
<1>3. ASSUME NEW i \in S
      PROVE  /\ gs[i] \in IOFlow /\ gs[i].on = fs[i].on /\ gs[i].last = fs[i].last
             /\ \A p \in Proc : gs[i].io[p] = IF p \in ids THEN 0 ELSE fs[i].io[p]
             /\ total(fs[i].io) = total(gs[i].io) + h[i] /\ h[i] \in Nat
  <2>1. PICK io \in [Proc -> Nat] : io = fs[i].io BY DEF FlowsOf, IOFlow
  <2>2. PICK left : left = [p \in Proc |-> IF p \in ids THEN 0 ELSE io[p]] OBVIOUS
  <2>3. gs[i] = [fs[i] EXCEPT !.io = left] BY <1>1, <2>1, <2>2 DEF Cleared
  <2>4. fs[i] \in IOFlow BY DEF FlowsOf
  <2>5. /\ total(io) = total(left) + SumFunctionOnSet(io, ids) /\ SumFunctionOnSet(io, ids) \in Nat
        /\ left \in [Proc -> Nat]
    BY <2>2, FlowForgets
  <2>6. gs[i] \in IOFlow /\ gs[i].on = fs[i].on /\ gs[i].last = fs[i].last /\ gs[i].io = left
    BY <2>3, <2>4, <2>5 DEF IOFlow
  <2>7. QED BY <1>2, <2>1, <2>2, <2>5, <2>6
<1>4. FlowsOf(gs, S) BY <1>1, <1>3 DEF FlowsOf
<1>5. PICK f : f = totals(fs) OBVIOUS
<1>6. PICK g : g = totals(gs) OBVIOUS
<1>7. /\ \A i \in S : f[i] = total(fs[i].io) /\ f[i] \in Nat
      /\ SumFunction(f) = SumFunctionOnSet(f, S)
  BY <1>5, Totals
<1>8. /\ \A i \in S : g[i] = total(gs[i].io) /\ g[i] \in Nat
      /\ SumFunction(g) = SumFunctionOnSet(g, S)
  BY <1>4, <1>6, Totals
<1>9. \A i \in S : g[i] \in Nat /\ h[i] \in Nat /\ f[i] = g[i] + h[i]
  BY <1>3, <1>7, <1>8
<1>10. SumFunctionOnSet(f, S) = SumFunctionOnSet(g, S) + SumFunctionOnSet(h, S)
  BY <1>1, <1>9, SumAdd
<1>11. Part(fs, ids) = SumFunctionOnSet(h, S)
  <2>1. Part(fs, ids) = SumFunction(h) BY <1>1, <1>2 DEF Part
  <2>2. QED BY <1>2, <2>1, Total
<1>12. SumFunctionOnSet(h, S) \in Nat
  <2>1. \A i \in S : h[i] \in Nat BY <1>9
  <2>2. QED BY <1>1, <2>1, SumType
<1>13. QED BY <1>3, <1>4, <1>5, <1>6, <1>7, <1>8, <1>10, <1>11, <1>12

LEMMA Forget ==
  ASSUME NEW b, NEW P, NEW W, NEW K, Fit(b, P, W, K), NEW ids \in SUBSET Proc,
         NEW V, DOMAIN b.pendingIO \subseteq V, NEW c, c = forget(b, ids)
  PROVE  /\ Fit(c, P \ ids, V, K) /\ Kept(b, c) /\ DOMAIN c.retired = DOMAIN b.retired
         /\ c.pendingIO = b.pendingIO
<1>1. BookType(b) BY DEF Fit
<1>2. PICK fs : fs = Cleared(b.flows, ids) OBVIOUS
<1>3. PICK rs : rs = Cleared(b.retired, ids) OBVIOUS
<1>4. /\ DOMAIN c = Pages
      /\ c.flows = fs /\ c.retired = rs /\ c.pendingIO = b.pendingIO
      /\ c.pendingIOCount = b.pendingIOCount /\ c.ioUnmatched = b.ioUnmatched
      /\ c.leftBehind = b.leftBehind /\ c.inherited = b.inherited
      /\ c.lost = b.lost + Part(b.flows, ids) + Part(b.retired, ids)
  BY <1>1, <1>2, <1>3 DEF forget, Cleared, Part, BookType, Pages
<1>5. FlowsOf(b.flows, Key) /\ FlowsOf(b.retired, DOMAIN b.retired) BY <1>1 DEF BookType
<1>6. /\ FlowsOf(fs, Key) /\ Part(b.flows, ids) \in Nat
      /\ SumFunction(totals(b.flows)) = SumFunction(totals(fs)) + Part(b.flows, ids)
      /\ \A i \in Key : /\ fs[i].on = b.flows[i].on /\ fs[i].last = b.flows[i].last
                        /\ \A p \in Proc : fs[i].io[p] = IF p \in ids THEN 0 ELSE b.flows[i].io[p]
  BY <1>2, <1>5, FlowsForget
<1>7. /\ FlowsOf(rs, DOMAIN b.retired) /\ Part(b.retired, ids) \in Nat
      /\ SumFunction(totals(b.retired)) = SumFunction(totals(rs)) + Part(b.retired, ids)
      /\ \A i \in DOMAIN b.retired :
           \A p \in Proc : rs[i].io[p] = IF p \in ids THEN 0 ELSE b.retired[i].io[p]
  BY <1>3, <1>5, FlowsForget
<1>8. DOMAIN rs = DOMAIN b.retired BY <1>7 DEF FlowsOf
<1>9. fs \in [Key -> IOFlow]
  <2>1. fs = [k \in DOMAIN b.flows |-> fs[k]] BY <1>2 DEF Cleared
  <2>2. QED BY <1>5, <1>6, <2>1 DEF FlowsOf
<1>10. BookType(c) BY <1>1, <1>4, <1>6, <1>7, <1>8, <1>9 DEF BookType
<1>11. OnlyOf(c.flows, P \ ids) /\ Retires(c.retired, P \ ids)
  <2>1. OnlyOf(c.flows, P \ ids) BY <1>4, <1>5, <1>6 DEF Fit, OnlyOf, FlowsOf
  <2>2. Retires(c.retired, P \ ids) BY <1>4, <1>7, <1>8 DEF Fit, Retires
  <2>3. QED BY <2>1, <2>2
<1>12. Beside(c, K) /\ NotNewer(c)
  <2>1. \A x \in DOMAIN b.pendingIO : x.key \in Key BY <1>1 DEF BookType, SamplesIn, Sample
  <2>2. QED BY <1>1, <1>4, <1>6, <2>1 DEF Fit, Beside, NotNewer, BookType
<1>13. Fit(c, P \ ids, V, K) BY <1>4, <1>10, <1>11, <1>12 DEF Fit
<1>14. held(c) = held(b)
  <2>1. SumFunction(totals(c.flows)) \in Nat /\ SumFunction(totals(c.retired)) \in Nat BY <1>10, Numbers
  <2>2. b.lost \in Nat /\ b.ioUnmatched \in Nat /\ SumFunction(b.pendingIO) \in Nat
    BY <1>1, Numbers DEF BookType
  <2>3. QED BY <1>4, <1>6, <1>7, <2>1, <2>2 DEF held
<1>15. b.pendingIOCount <= b.pendingIOCount BY <1>1, Numbers
<1>16. QED BY <1>4, <1>8, <1>13, <1>14, <1>15 DEF Kept

(* Flows expire when what they left behind has.                             *)
LEMMA ExpireFlows ==
  ASSUME NEW b, NEW P, NEW W, Fit(b, P, W, Key), now \in Nat,
         \A x \in DOMAIN b.pendingIO : ~tooOld(x), NEW c, c = expireFlows(b)
  PROVE  /\ Fit(c, P, W, Key) /\ Kept(b, c) /\ DOMAIN c.retired \subseteq DOMAIN b.retired
         /\ c.pendingIO = b.pendingIO
<1>1. BookType(b) BY DEF Fit
<1>2. PICK ks \in SUBSET Key : ks = {k \in Key : b.flows[k].on /\ old(b.flows[k])} OBVIOUS
<1>3. PICK past : past = {i \in DOMAIN b.retired : old(b.retired[i])} OBVIOUS
<1>4. PICK S : S = DOMAIN b.retired OBVIOUS
<1>5. past \in SUBSET S BY <1>3, <1>4
<1>6. PICK d : d = drop(b, ks) OBVIOUS
<1>7. /\ Fit(d, P, W, Key \ ks) /\ Kept(b, d) /\ d.retired = b.retired
      /\ d.pendingIO = b.pendingIO /\ d.leftBehind = b.leftBehind /\ Gone(b, d, ks)
  BY <1>6, Drop
<1>8. BookType(d) BY <1>7 DEF Fit
<1>9. PICK n : n = SumFunctionOnSet(totals(b.retired), past) OBVIOUS
<1>10. PICK rs : rs = without(b.retired, past) OBVIOUS
<1>11. /\ DOMAIN c = Pages
       /\ c.flows = d.flows /\ c.retired = rs /\ c.pendingIO = d.pendingIO
       /\ c.pendingIOCount = d.pendingIOCount /\ c.ioUnmatched = d.ioUnmatched
       /\ c.leftBehind = d.leftBehind /\ c.inherited = d.inherited
       /\ c.lost = d.lost + n
  BY <1>2, <1>3, <1>6, <1>7, <1>8, <1>9, <1>10 DEF expireFlows, BookType, Pages
<1>12. DOMAIN rs = S \ past /\ \A i \in S \ past : rs[i] = b.retired[i]
  BY <1>4, <1>10 DEF without
<1>13. FlowsOf(b.retired, S) BY <1>1, <1>4 DEF BookType
<1>14. FlowsOf(rs, S \ past)
  <2>1. IsFiniteSet(S \ past) BY <1>13, FS_Subset DEF FlowsOf
  <2>2. QED BY <1>12, <1>13, <2>1 DEF FlowsOf
<1>15. SumFunction(totals(b.retired)) = SumFunction(totals(rs)) + n /\ n \in Nat
  <2>1. PICK f : f = totals(b.retired) OBVIOUS
  <2>2. PICK g : g = totals(rs) OBVIOUS
  <2>3. /\ \A i \in S : f[i] = total(b.retired[i].io) /\ f[i] \in Nat
        /\ SumFunction(f) = SumFunctionOnSet(f, S)
    BY <1>13, <2>1, Totals
  <2>4. /\ \A i \in S \ past : g[i] = total(rs[i].io) /\ g[i] \in Nat
        /\ SumFunction(g) = SumFunctionOnSet(g, S \ past)
    BY <1>14, <2>2, Totals
  <2>5. IsFiniteSet(S) /\ IsFiniteSet(past) /\ IsFiniteSet(S \ past)
    BY <1>5, <1>13, FS_Subset DEF FlowsOf
  <2>6. \A i \in S : f[i] \in Nat BY <2>3
  <2>7. SumFunctionOnSet(f, S) = n + SumFunctionOnSet(f, S \ past)
    BY <1>5, <1>9, <2>1, <2>5, <2>6, SumSplit
  <2>8. SumFunctionOnSet(f, S \ past) = SumFunctionOnSet(g, S \ past)
    <3>1. \A i \in S \ past : f[i] = g[i] BY <1>12, <2>3, <2>4
    <3>2. QED BY <2>5, <3>1, SumSame
  <2>9. SumFunctionOnSet(g, S \ past) \in Nat
    <3>1. \A i \in S \ past : g[i] \in Nat BY <2>4
    <3>2. QED BY <2>5, <3>1, SumType
  <2>10. n \in Nat
    <3>1. \A i \in past : f[i] \in Nat BY <1>5, <2>6
    <3>2. SumFunctionOnSet(f, past) \in Nat BY <2>5, <3>1, SumType
    <3>3. QED BY <1>9, <2>1, <3>2
  <2>11. QED BY <2>1, <2>2, <2>3, <2>4, <2>7, <2>8, <2>9, <2>10
<1>16. BookType(c) BY <1>8, <1>11, <1>12, <1>14, <1>15 DEF BookType
<1>17. Retires(c.retired, P) BY <1>4, <1>7, <1>11, <1>12 DEF Fit, Retires
<1>18. Beside(c, Key)
  <2>1. ASSUME NEW x \in b.leftBehind PROVE x.key \notin ks
    <3>1. x \in DOMAIN b.pendingIO /\ x.key \in Key /\ x.seen \in Nat
      BY <1>1 DEF BookType, SamplesIn, Sample
    <3>2. b.flows[x.key].last \in Nat BY <1>1, <3>1 DEF BookType, IOFlow
    <3>3. b.flows[x.key].on => x.seen <= b.flows[x.key].last BY <3>1 DEF Fit, NotNewer
    <3>4. ~tooOld(x) BY <3>1
    <3>5. Patience \in Nat /\ ClosedTTL \in Nat /\ IdleTTL \in Nat
          /\ Patience <= ClosedTTL /\ Patience <= IdleTTL
      BY SocketIOAssumption DEF SocketIOAssumption
    <3>6. b.flows[x.key].on => ~old(b.flows[x.key])
      BY <3>1, <3>2, <3>3, <3>4, <3>5 DEF tooOld, old
    <3>7. QED BY <1>2, <3>6
  <2>2. QED BY <1>7, <1>11, <2>1 DEF Fit, Beside
<1>19. Fit(c, P, W, Key)
  <2>1. NotNewer(c) BY <1>7, <1>11 DEF Fit, NotNewer
  <2>2. QED BY <1>7, <1>11, <1>16, <1>17, <1>18, <2>1 DEF Fit
<1>20. held(c) = held(d)
  <2>1. SumFunction(totals(c.flows)) \in Nat /\ SumFunction(totals(c.retired)) \in Nat BY <1>16, Numbers
  <2>2. d.lost \in Nat /\ d.ioUnmatched \in Nat /\ SumFunction(d.pendingIO) \in Nat
    BY <1>8, Numbers DEF BookType
  <2>3. QED BY <1>7, <1>11, <1>15, <2>1, <2>2 DEF held
<1>21. QED BY <1>4, <1>7, <1>11, <1>12, <1>19, <1>20 DEF Kept

(***************************************************************************)
(* Events: one byte more.                                                  *)
(***************************************************************************)
Alike(b, c, pages) == DOMAIN c = Pages /\ \A p \in pages : c[p] = b[p]

LEMMA FitMore ==
  ASSUME NEW b, NEW P, NEW W, NEW K, Fit(b, P, W, K), NEW Q, P \subseteq Q, NEW V, W \subseteq V
  PROVE  Fit(b, Q, V, K)
<1>1. OnlyOf(b.flows, Q) /\ Retires(b.retired, Q) BY DEF Fit, OnlyOf, Retires
<1>2. QED BY <1>1 DEF Fit

(* One more of a function of numbers.                                       *)
LEMMA OneMore ==
  ASSUME NEW f, NEW S, DOMAIN f = S, IsFiniteSet(S), \A y \in S : f[y] \in Nat, NEW x,
         NEW g, g = oneMore(f, x)
  PROVE  /\ DOMAIN g = S \cup {x} /\ IsFiniteSet(S \cup {x}) /\ \A y \in S \cup {x} : g[y] \in Nat
         /\ SumFunction(g) = SumFunction(f) + 1 /\ SumFunction(f) \in Nat
<1>1. PICK n : n = (IF x \in S THEN f[x] ELSE 0) + 1 OBVIOUS
<1>2. PICK V : V = S \cup {x} OBVIOUS
<1>3. /\ DOMAIN g = V /\ g[x] = n /\ n \in Nat
      /\ \A y \in S \ {x} : g[y] = f[y]
  BY <1>1, <1>2 DEF oneMore, put
<1>4. IsFiniteSet(V) BY <1>2, FS_AddElement
<1>5. \A y \in V : g[y] \in Nat BY <1>2, <1>3
<1>6. SumFunctionOnSet(g, V) = n + SumFunctionOnSet(g, V \ {x}) BY <1>2, <1>3, <1>4, <1>5, SumWithout
<1>7. V \ {x} = S \ {x} BY <1>2
<1>8. IsFiniteSet(S \ {x}) BY FS_Subset
<1>9. SumFunctionOnSet(g, S \ {x}) = SumFunctionOnSet(f, S \ {x}) BY <1>3, <1>8, SumSame
<1>10. SumFunctionOnSet(f, S \ {x}) \in Nat
  <2>1. \A y \in S \ {x} : f[y] \in Nat OBVIOUS
  <2>2. QED BY <1>8, <2>1, SumType
<1>11. SumFunctionOnSet(f, S) + 1 = n + SumFunctionOnSet(f, S \ {x})
  <2>1. CASE x \in S
    <3>1. SumFunctionOnSet(f, S) = f[x] + SumFunctionOnSet(f, S \ {x}) BY <2>1, SumWithout
    <3>2. n = f[x] + 1 /\ f[x] \in Nat BY <1>1, <2>1
    <3>3. QED BY <1>10, <3>1, <3>2
  <2>2. CASE x \notin S
    <3>1. S \ {x} = S BY <2>2
    <3>2. n = 1 BY <1>1, <2>2
    <3>3. QED BY <1>10, <3>1, <3>2
  <2>3. QED BY <2>1, <2>2
<1>12. SumFunctionOnSet(f, S) \in Nat BY SumType
<1>13. SumFunction(f) = SumFunctionOnSet(f, S) BY Total
<1>14. SumFunction(g) = SumFunctionOnSet(g, V) BY <1>3, Total
<1>15. SumFunction(g) = SumFunction(f) + 1
  BY <1>6, <1>7, <1>9, <1>11, <1>12, <1>13, <1>14
<1>16. QED BY <1>2, <1>3, <1>4, <1>5, <1>12, <1>13, <1>15

(* The byte of a process goes to the flow of k, or waits as a sample x.      *)
Credited(b, c, k, p) == b.flows[k].on /\ c.flows = [b.flows EXCEPT ![k].io[p] = @ + 1]
Delayed(b, c, x) ==
  /\ ~b.flows[x.key].on /\ c.pendingIO = oneMore(b.pendingIO, x)
  /\ c.pendingIOCount = b.pendingIOCount + 1

LEMMA ByteOnFlow ==
  ASSUME NEW b, NEW P, NEW W, NEW K, Fit(b, P, W, K), NEW k \in Key, NEW p \in Proc, p \in P,
         NEW c, Alike(b, c, Pages \ {"flows"}), Credited(b, c, k, p)
  PROVE  Fit(c, P, W, K) /\ held(c) = held(b) + 1
<1>1. BookType(b) BY DEF Fit
<1>2. /\ c.retired = b.retired /\ c.pendingIO = b.pendingIO /\ c.pendingIOCount = b.pendingIOCount
      /\ c.ioUnmatched = b.ioUnmatched /\ c.lost = b.lost /\ c.leftBehind = b.leftBehind
      /\ c.inherited = b.inherited
  BY DEF Pages, Alike
<1>3. FlowsOf(b.flows, Key) BY <1>1 DEF BookType
<1>4. PICK io \in [Proc -> Nat] : io = b.flows[k].io BY <1>3 DEF FlowsOf, IOFlow
<1>5. PICK more : more = [io EXCEPT ![p] = @ + 1] OBVIOUS
<1>6. more \in [Proc -> Nat] /\ more[p] = io[p] + 1 /\ \A q \in Proc \ {p} : more[q] = io[q]
  BY <1>4, <1>5
<1>7. c.flows = [b.flows EXCEPT ![k].io = more] BY <1>1, <1>4, <1>5 DEF BookType, IOFlow, Credited
<1>8. /\ c.flows \in [Key -> IOFlow] /\ FlowsOf(c.flows, Key) /\ c.flows[k].io = more
      /\ \A j \in Key : c.flows[j].on = b.flows[j].on /\ c.flows[j].last = b.flows[j].last
      /\ \A j \in Key \ {k} : c.flows[j].io = b.flows[j].io
  <2>1. PICK f \in IOFlow : f = b.flows[k] BY <1>3 DEF FlowsOf
  <2>2. PICK g : g = [f EXCEPT !.io = more] OBVIOUS
  <2>3. g \in IOFlow /\ g.on = f.on /\ g.last = f.last /\ g.io = more BY <1>6, <2>2 DEF IOFlow
  <2>4. c.flows = [b.flows EXCEPT ![k] = g] BY <1>7, <2>1, <2>2
  <2>5. c.flows \in [Key -> IOFlow] /\ \A j \in Key : c.flows[j] = IF j = k THEN g ELSE b.flows[j]
    BY <1>1, <2>3, <2>4 DEF BookType
  <2>6. FlowsOf(c.flows, Key) BY <1>3, <2>5 DEF FlowsOf
  <2>7. QED BY <2>1, <2>3, <2>5, <2>6
<1>9. BookType(c) BY <1>1, <1>2, <1>8 DEF BookType, Alike
<1>10. total(more) = total(io) + 1 /\ total(io) \in Nat
  <2>1. IsFiniteSet(Proc) BY SocketIOAssumption DEF SocketIOAssumption
  <2>2. \A q \in Proc : more[q] \in Nat /\ io[q] \in Nat BY <1>4, <1>6
  <2>3. SumFunctionOnSet(more, Proc) + io[p] = SumFunctionOnSet(io, Proc) + more[p]
    BY <1>6, <2>1, <2>2, SumChange
  <2>4. SumFunctionOnSet(more, Proc) \in Nat /\ SumFunctionOnSet(io, Proc) \in Nat
    BY <2>1, <2>2, SumType
  <2>5. SumFunctionOnSet(more, Proc) = SumFunctionOnSet(io, Proc) + 1 BY <1>4, <1>6, <2>3, <2>4
  <2>6. total(more) = SumFunctionOnSet(more, Proc) /\ total(io) = SumFunctionOnSet(io, Proc)
    BY <1>4, <1>6, Total DEF total
  <2>7. QED BY <2>4, <2>5, <2>6
<1>11. SumFunction(totals(c.flows)) = SumFunction(totals(b.flows)) + 1
  <2>1. SumFunction(totals(c.flows)) + total(b.flows[k].io) = SumFunction(totals(b.flows)) + total(c.flows[k].io)
    <3>1. FlowsOf(c.flows, Key) /\ \A j \in Key \ {k} : c.flows[j].io = b.flows[j].io BY <1>8
    <3>2. PICK fs : fs = b.flows OBVIOUS
    <3>3. PICK gs : gs = c.flows OBVIOUS
    <3>4. FlowsOf(fs, Key) /\ FlowsOf(gs, Key) /\ \A j \in Key \ {k} : gs[j].io = fs[j].io
      BY <1>3, <3>1, <3>2, <3>3
    <3>5. SumFunction(totals(gs)) + total(fs[k].io) = SumFunction(totals(fs)) + total(gs[k].io)
      BY ONLY k \in Key, <3>4, OneFlowChanges
    <3>6. QED BY <3>2, <3>3, <3>5
  <2>2. SumFunction(totals(c.flows)) \in Nat /\ SumFunction(totals(b.flows)) \in Nat
    BY <1>1, <1>9, Numbers
  <2>3. QED BY <1>4, <1>8, <1>10, <2>1, <2>2
<1>12. held(c) = held(b) + 1
  <2>1. b.lost \in Nat /\ b.ioUnmatched \in Nat /\ SumFunction(b.pendingIO) \in Nat
        /\ SumFunction(totals(b.flows)) \in Nat /\ SumFunction(totals(b.retired)) \in Nat
    BY <1>1, Numbers DEF BookType
  <2>2. QED BY <1>2, <1>11, <2>1 DEF held
<1>13. OnlyOf(c.flows, P)
  <2>1. ASSUME NEW j \in Key, NEW q \in Proc, ~c.flows[j].on \/ q \notin P PROVE c.flows[j].io[q] = 0
    <3>1. b.flows[j].io[q] = 0 BY <1>3, <1>8, <2>1 DEF Fit, OnlyOf, FlowsOf, Credited
    <3>2. CASE j = k BY <1>4, <1>6, <1>8, <2>1, <3>1, <3>2 DEF Credited
    <3>3. CASE j # k BY <1>8, <3>1, <3>3
    <3>4. QED BY <3>2, <3>3
  <2>2. QED BY <1>8, <2>1 DEF OnlyOf, FlowsOf
<1>14. Beside(c, K) /\ NotNewer(c)
  <2>1. \A x \in DOMAIN b.pendingIO : x.key \in Key BY <1>1 DEF BookType, SamplesIn, Sample
  <2>2. QED BY <1>1, <1>2, <1>8, <2>1 DEF Fit, Beside, NotNewer, BookType
<1>15. Fit(c, P, W, K) BY <1>2, <1>9, <1>13, <1>14 DEF Fit
<1>16. QED BY <1>12, <1>15

LEMMA ByteWaits ==
  ASSUME NEW b, NEW P, NEW W, NEW K, Fit(b, P, W, K), NEW x \in Sample, x \in W,
         NEW c, Alike(b, c, Pages \ {"pendingIO", "pendingIOCount"}), Delayed(b, c, x)
  PROVE  Fit(c, P, W, K) /\ held(c) = held(b) + 1
<1>1. BookType(b) BY DEF Fit
<1>2. /\ c.flows = b.flows /\ c.retired = b.retired
      /\ c.ioUnmatched = b.ioUnmatched /\ c.lost = b.lost /\ c.leftBehind = b.leftBehind
      /\ c.inherited = b.inherited
  BY DEF Pages, Alike
<1>3. PICK S : S = DOMAIN b.pendingIO OBVIOUS
<1>4. S \subseteq Sample /\ IsFiniteSet(S) /\ \A y \in S : b.pendingIO[y] \in Nat
  BY <1>1, <1>3 DEF BookType, SamplesIn
<1>5. /\ DOMAIN c.pendingIO = S \cup {x} /\ IsFiniteSet(S \cup {x})
      /\ \A y \in S \cup {x} : c.pendingIO[y] \in Nat
      /\ SumFunction(c.pendingIO) = SumFunction(b.pendingIO) + 1 /\ SumFunction(b.pendingIO) \in Nat
  <2>1. PICK f : f = b.pendingIO OBVIOUS
  <2>2. PICK g : g = c.pendingIO OBVIOUS
  <2>3. DOMAIN f = S /\ g = oneMore(f, x) /\ IsFiniteSet(S) /\ \A y \in S : f[y] \in Nat
    BY <1>3, <1>4, <2>1, <2>2 DEF Delayed
  <2>4. /\ DOMAIN g = S \cup {x} /\ IsFiniteSet(S \cup {x}) /\ \A y \in S \cup {x} : g[y] \in Nat
        /\ SumFunction(g) = SumFunction(f) + 1 /\ SumFunction(f) \in Nat
    BY ONLY <2>3, OneMore
  <2>5. QED BY <2>1, <2>2, <2>4
<1>6. BookType(c) BY <1>1, <1>2, <1>3, <1>4, <1>5 DEF BookType, SamplesIn, Alike, Delayed
<1>7. Beside(c, K) /\ NotNewer(c) BY <1>2, <1>3, <1>5 DEF Fit, Beside, NotNewer, Delayed
<1>8. Fit(c, P, W, K) BY <1>2, <1>3, <1>5, <1>6, <1>7 DEF Fit
<1>9. held(c) = held(b) + 1
  <2>1. b.lost \in Nat /\ b.ioUnmatched \in Nat
        /\ SumFunction(totals(b.flows)) \in Nat /\ SumFunction(totals(b.retired)) \in Nat
    BY <1>1, Numbers DEF BookType
  <2>2. QED BY <1>2, <1>5, <2>1 DEF held
<1>10. QED BY <1>8, <1>9

LEMMA ByteUnmatched ==
  ASSUME NEW b, NEW P, NEW W, NEW K, Fit(b, P, W, K), NEW c, Alike(b, c, Pages \ {"ioUnmatched"}),
         c.ioUnmatched = b.ioUnmatched + 1
  PROVE  Fit(c, P, W, K) /\ held(c) = held(b) + 1
<1>1. BookType(b) BY DEF Fit
<1>2. /\ c.flows = b.flows /\ c.retired = b.retired /\ c.pendingIO = b.pendingIO
      /\ c.pendingIOCount = b.pendingIOCount /\ c.lost = b.lost /\ c.leftBehind = b.leftBehind
      /\ c.inherited = b.inherited
  BY DEF Pages, Alike
<1>3. BookType(c) BY <1>1, <1>2 DEF BookType, Alike
<1>4. Fit(c, P, W, K) BY <1>2, <1>3 DEF Fit, Beside, NotNewer
<1>5. held(c) = held(b) + 1
  <2>1. b.lost \in Nat /\ b.ioUnmatched \in Nat /\ SumFunction(b.pendingIO) \in Nat
        /\ SumFunction(totals(b.flows)) \in Nat /\ SumFunction(totals(b.retired)) \in Nat
    BY <1>1, Numbers DEF BookType
  <2>2. QED BY <1>2, <2>1 DEF held
<1>6. QED BY <1>4, <1>5

(***************************************************************************)
(* The inductive invariant: the bytes of processes and the bytes of flows    *)
(* add up to what was reported, and what waits is of a known process, not    *)
(* newer than what was last heard of it.                                     *)
(***************************************************************************)
WhatWaits == {x \in Sample : x.proc \in DOMAIN pidSeen /\ x.seen <= pidSeen[x.proc]}
ProcessesCounted ==
  /\ sent \in Nat /\ ioUnindexed \in Nat /\ expiredPIDIO \in Nat /\ now \in Nat
  /\ DOMAIN pidIO \subseteq Proc /\ DOMAIN pidSeen = DOMAIN pidIO
  /\ \A p \in DOMAIN pidIO : pidIO[p] \in Nat /\ pidSeen[p] \in Nat /\ pidSeen[p] <= now
  /\ sent = total(pidIO) + ioUnindexed + expiredPIDIO
FlowsCounted(b) ==
  /\ RetiredBy(b, created) /\ Fit(b, DOMAIN pidIO, WhatWaits, Key)
  /\ held(b) + ioUnindexed = sent /\ b.pendingIOCount <= MaxPending
IOInv == ProcessesCounted /\ FlowsCounted(Books)

LEMMA IOInit == Init => IOInv
<1> SUFFICES ASSUME Init PROVE IOInv OBVIOUS
<1>1. IsFiniteSet(Key) /\ MaxPending \in Nat BY SocketIOAssumption DEF SocketIOAssumption
<1>2. PICK nothing : nothing = <<>> OBVIOUS
<1>3. DOMAIN nothing = {} BY <1>2
<1>4. IsFiniteSet({}) BY FS_EmptySet
<1>5. SumFunction(nothing) = 0 BY <1>3, SumEmpty, Total
<1>6. ProcessesCounted BY <1>2, <1>3, <1>5 DEF Init, ProcessesCounted, total
<1>7. PICK fs : fs = [k \in Key |-> NoFlow] OBVIOUS
<1>8. NoFlow \in IOFlow /\ ~NoFlow.on /\ \A p \in Proc : NoFlow.io[p] = 0 BY DEF NoFlow, IOFlow
<1>9. fs \in [Key -> IOFlow] /\ FlowsOf(fs, Key) BY <1>1, <1>7, <1>8 DEF FlowsOf
<1>10. FlowsOf(nothing, {}) BY <1>3, <1>4 DEF FlowsOf
<1>11. PICK b : b = Books OBVIOUS
<1>12. /\ DOMAIN b = Pages /\ b.flows = fs /\ b.retired = nothing /\ b.pendingIO = nothing
       /\ b.pendingIOCount = 0 /\ b.ioUnmatched = 0 /\ b.lost = 0 /\ b.leftBehind = {} /\ b.inherited = 0
  BY <1>2, <1>7, <1>11 DEF Books, Pages, Init
<1>13. SamplesIn(nothing) BY <1>3, <1>4 DEF SamplesIn
<1>14. BookType(b) BY <1>3, <1>5, <1>9, <1>10, <1>12, <1>13 DEF BookType
<1>15. Fit(b, DOMAIN pidIO, WhatWaits, Key)
  <2>1. OnlyOf(b.flows, DOMAIN pidIO) BY <1>7, <1>8, <1>12 DEF OnlyOf
  <2>2. QED BY <1>3, <1>12, <1>14, <2>1 DEF Fit, Retires, Beside, NotNewer
<1>16. SumFunction(totals(fs)) = 0
  <2>1. PICK f : f = totals(fs) OBVIOUS
  <2>2. NoFlow.io \in [Proc -> Nat] BY DEF NoFlow
  <2>3. total(NoFlow.io) = 0 BY <1>8, <2>2, NothingTotal
  <2>4. DOMAIN f = Key /\ \A k \in Key : f[k] = 0 BY <1>7, <2>1, <2>3 DEF totals
  <2>5. SumFunctionOnSet(f, Key) = 0 BY <1>1, <2>4, SumZero
  <2>6. QED BY <2>1, <2>4, <2>5, Total
<1>17. SumFunction(totals(nothing)) = 0
  <2>1. PICK f : f = totals(nothing) OBVIOUS
  <2>2. DOMAIN f = {} BY <1>3, <2>1 DEF totals
  <2>3. QED BY <2>1, <2>2, SumEmpty, Total
<1>18. held(b) = 0 BY <1>5, <1>12, <1>16, <1>17 DEF held
<1>19. FlowsCounted(b)
  BY <1>1, <1>3, <1>12, <1>15, <1>18 DEF FlowsCounted, RetiredBy, Init
<1>20. QED BY <1>6, <1>11, <1>19 DEF IOInv

LEMMA SamplesWait == ASSUME ProcessesCounted PROVE Waits(WhatWaits, DOMAIN pidIO)
  BY DEF ProcessesCounted, WhatWaits, Waits, Sample

LEMMA Copied ==
  ASSUME NEW b, NEW P, NEW W, NEW K, Fit(b, P, W, K), NEW c, Alike(b, c, Pages)
  PROVE  Fit(c, P, W, K) /\ held(c) = held(b) /\ c.pendingIOCount = b.pendingIOCount
         /\ c.retired = b.retired
<1>1. /\ c.flows = b.flows /\ c.retired = b.retired /\ c.pendingIO = b.pendingIO
      /\ c.pendingIOCount = b.pendingIOCount /\ c.ioUnmatched = b.ioUnmatched /\ c.lost = b.lost
      /\ c.leftBehind = b.leftBehind /\ c.inherited = b.inherited
  BY DEF Pages, Alike
<1>2. BookType(c) BY <1>1 DEF BookType, Alike, Fit
<1>3. QED BY <1>1, <1>2 DEF Fit, Beside, NotNewer, held

(* The books of a step that keeps every byte.                               *)
LEMMA FlowsEntered ==
  ASSUME FlowsCounted(Books), NEW c, Enter(c), Fit(c, DOMAIN pidIO', WhatWaits', Key), Kept(Books, c),
         RetiredBy(c, created'), UNCHANGED <<ioUnindexed, sent>>
  PROVE  FlowsCounted(Books)'
<1>1. PICK d : d = Books' OBVIOUS
<1>2. Alike(c, d, Pages) BY <1>1 DEF Alike, Pages, Books, Enter
<1>3. /\ Fit(d, DOMAIN pidIO', WhatWaits', Key) /\ held(d) = held(c)
      /\ d.pendingIOCount = c.pendingIOCount /\ d.retired = c.retired
  BY <1>2, Copied
<1>4. RetiredBy(d, created') BY <1>3 DEF RetiredBy
<1>5. PICK b : b = Books OBVIOUS
<1>6. held(d) + ioUnindexed = sent /\ d.pendingIOCount <= MaxPending
  <2>1. BookType(b) /\ BookType(d) BY <1>3, <1>5 DEF Fit, FlowsCounted
  <2>2. b.pendingIOCount \in Nat /\ d.pendingIOCount \in Nat BY <2>1, Numbers
  <2>3. MaxPending \in Nat BY SocketIOAssumption DEF SocketIOAssumption
  <2>4. /\ held(b) + ioUnindexed = sent /\ b.pendingIOCount <= MaxPending
        /\ held(c) = held(b) /\ c.pendingIOCount <= b.pendingIOCount
    BY <1>5 DEF FlowsCounted, Kept
  <2>5. QED BY <1>3, <2>2, <2>3, <2>4
<1>7. QED BY <1>1, <1>3, <1>4, <1>6 DEF FlowsCounted

LEMMA Entered ==
  ASSUME IOInv, NEW c, Enter(c), Fit(c, DOMAIN pidIO, WhatWaits, Key), Kept(Books, c),
         RetiredBy(c, created'), UNCHANGED <<pidIO, pidSeen, ioUnindexed, expiredPIDIO, now, sent>>
  PROVE  IOInv'
<1>1. ProcessesCounted' BY DEF IOInv, ProcessesCounted
<1>2. WhatWaits' = WhatWaits BY DEF WhatWaits
<1>3. Fit(c, DOMAIN pidIO', WhatWaits', Key) BY <1>2
<1>4. FlowsCounted(Books) BY DEF IOInv
<1>5. FlowsCounted(Books)' BY <1>3, <1>4, FlowsEntered
<1>6. QED BY <1>1, <1>5 DEF IOInv

(* No byte moves, and time may pass.                                        *)
LEMMA IOStays ==
  ASSUME IOInv, now' \in Nat, now' >= now,
         UNCHANGED <<Books, pidIO, pidSeen, ioUnindexed, expiredPIDIO, sent, created>>
  PROVE  IOInv'
<1>1. ProcessesCounted' BY DEF IOInv, ProcessesCounted
<1>2. WhatWaits' = WhatWaits BY DEF WhatWaits
<1>3. FlowsCounted(Books)' BY <1>2 DEF IOInv, FlowsCounted
<1>4. QED BY <1>1, <1>3 DEF IOInv

(***************************************************************************)
(* Each operation keeps the invariant: events.                             *)
(***************************************************************************)
LEMMA SocketOf == ASSUME NEW k \in Key PROVE natSocket(k) \in Key
  BY SocketIOAssumption DEF SocketIOAssumption, natSocket, other

LEMMA ProcessCounted ==
  ASSUME ProcessesCounted, NEW p \in Proc, Count(p)
  PROVE  /\ ProcessesCounted' /\ sent' = sent + 1 /\ sent \in Nat /\ ioUnindexed \in Nat
         /\ DOMAIN pidIO' = DOMAIN pidIO \cup {p} /\ WhatWaits \subseteq WhatWaits'
         /\ \A k \in Key : [key |-> k, proc |-> p, seen |-> now] \in WhatWaits'
<1>1. PICK io : io = pidIO OBVIOUS
<1>2. PICK S : S = DOMAIN io OBVIOUS
<1>3. S \subseteq Proc /\ \A q \in S : io[q] \in Nat BY <1>1, <1>2 DEF ProcessesCounted
<1>4. IsFiniteSet(S)
  <2>1. IsFiniteSet(Proc) BY SocketIOAssumption DEF SocketIOAssumption
  <2>2. QED BY <1>3, <2>1, FS_Subset
<1>5. PICK more : more = oneMore(io, p) OBVIOUS
<1>6. /\ DOMAIN more = S \cup {p} /\ \A q \in S \cup {p} : more[q] \in Nat
      /\ SumFunction(more) = SumFunction(io) + 1 /\ SumFunction(io) \in Nat
  BY ONLY <1>2, <1>3, <1>4, <1>5, OneMore
<1>7. pidIO' = more BY <1>1, <1>5 DEF Count
<1>8. /\ DOMAIN pidSeen' = S \cup {p} /\ pidSeen'[p] = now
      /\ \A q \in S : pidSeen'[q] \in Nat /\ pidSeen'[q] <= now /\ pidSeen'[q] >= pidSeen[q]
  <2>1. /\ \A q \in S : pidSeen[q] \in Nat /\ pidSeen[q] <= now
        /\ now \in Nat /\ DOMAIN pidSeen = S
    BY <1>1, <1>2 DEF ProcessesCounted
  <2>2. pidSeen' = put(pidSeen, p, now) BY DEF Count
  <2>3. DOMAIN pidSeen' = S \cup {p} /\ \A q \in S \cup {p} : pidSeen'[q] = IF q = p THEN now ELSE pidSeen[q]
    BY <2>1, <2>2 DEF put
  <2>4. QED BY <2>1, <2>3
<1>9. /\ sent' = sent + 1 /\ ioUnindexed' = ioUnindexed /\ expiredPIDIO' = expiredPIDIO /\ now' = now
      /\ sent \in Nat /\ ioUnindexed \in Nat /\ expiredPIDIO \in Nat /\ now \in Nat
      /\ sent = SumFunction(io) + ioUnindexed + expiredPIDIO
  BY <1>1 DEF Count, ProcessesCounted, total
<1>10. ProcessesCounted'
  <2>1. sent' = SumFunction(more) + ioUnindexed + expiredPIDIO BY <1>6, <1>9
  <2>2. S \cup {p} \subseteq Proc BY <1>3
  <2>3. \A q \in S \cup {p} : pidIO'[q] \in Nat /\ pidSeen'[q] \in Nat /\ pidSeen'[q] <= now
    BY <1>6, <1>7, <1>8, <1>9
  <2>4. QED BY <1>6, <1>7, <1>8, <1>9, <2>1, <2>2, <2>3 DEF ProcessesCounted, total
<1>11. WhatWaits \subseteq WhatWaits'
  <2>1. ASSUME NEW x \in WhatWaits PROVE x \in WhatWaits'
    <3>1. x \in Sample /\ x.proc \in S /\ x.seen <= pidSeen[x.proc] /\ x.seen \in Nat
      BY <1>1, <1>2 DEF WhatWaits, ProcessesCounted, Sample
    <3>2. pidSeen[x.proc] \in Nat BY <1>1, <1>2, <3>1 DEF ProcessesCounted
    <3>3. x.seen <= pidSeen'[x.proc] BY <1>8, <3>1, <3>2
    <3>4. QED BY <1>8, <3>1, <3>3 DEF WhatWaits
  <2>2. QED BY <2>1
<1>12. ASSUME NEW k \in Key PROVE [key |-> k, proc |-> p, seen |-> now] \in WhatWaits'
  BY <1>8, <1>9 DEF WhatWaits, Sample
<1>13. QED BY <1>1, <1>2, <1>6, <1>7, <1>9, <1>10, <1>11, <1>12

(* The books of a step that counts one byte more.                           *)
LEMMA ByteEntered ==
  ASSUME IOInv, NEW p \in Proc, Count(p), NEW c, c = Books',
         Fit(c, DOMAIN pidIO', WhatWaits', Key), held(c) = held(Books) + 1,
         c.pendingIOCount <= MaxPending, c.retired = Books.retired
  PROVE  IOInv'
<1>1. PICK b : b = Books OBVIOUS
<1>2. /\ ProcessesCounted' /\ sent' = sent + 1 /\ sent \in Nat /\ ioUnindexed \in Nat
  BY ProcessCounted DEF IOInv
<1>3. created' = created /\ ioUnindexed' = ioUnindexed BY DEF Count
<1>4. RetiredBy(c, created')
  BY <1>1, <1>3 DEF RetiredBy, IOInv, FlowsCounted
<1>5. held(c) + ioUnindexed = sent'
  <2>1. BookType(b) BY <1>1 DEF IOInv, FlowsCounted, Fit
  <2>2. held(b) \in Nat BY <2>1, Numbers
  <2>3. held(b) + ioUnindexed = sent BY <1>1 DEF IOInv, FlowsCounted
  <2>4. PICK n \in Nat : n = held(b) BY <2>2
  <2>5. held(c) = n + 1 BY <1>1, <2>4
  <2>6. n + ioUnindexed = sent BY <2>3, <2>4
  <2>7. QED BY <1>2, <2>5, <2>6
<1>6. FlowsCounted(Books)' BY <1>3, <1>4, <1>5 DEF FlowsCounted
<1>7. QED BY <1>2, <1>6 DEF IOInv

LEMMA EventOnFlowStep ==
  ASSUME IOInv, NEW p \in Proc, NEW k \in Key, EventOnFlow(p, k)
  PROVE  IOInv'
<1>1. PICK b : b = Books OBVIOUS
<1>2. PICK c : c = Books' OBVIOUS
<1>3. Count(p) BY DEF EventOnFlow
<1>4. PICK P : P = DOMAIN pidIO' OBVIOUS
<1>5. PICK W : W = WhatWaits' OBVIOUS
<1>6. p \in P /\ Fit(b, P, W, Key) /\ b.pendingIOCount <= MaxPending
  <2>1. /\ DOMAIN pidIO' = DOMAIN pidIO \cup {p} /\ WhatWaits \subseteq WhatWaits'
    BY <1>3, ProcessCounted DEF IOInv
  <2>2. Fit(b, DOMAIN pidIO, WhatWaits, Key) /\ b.pendingIOCount <= MaxPending
    BY <1>1 DEF IOInv, FlowsCounted
  <2>3. DOMAIN pidIO \subseteq P /\ WhatWaits \subseteq W BY <1>4, <1>5, <2>1
  <2>4. QED BY <1>4, <2>1, <2>2, <2>3, FitMore
<1>7. Alike(b, c, Pages \ {"flows"})
  BY <1>1, <1>2 DEF Alike, Pages, Books, EventOnFlow, Count
<1>8. Credited(b, c, k, p)
  BY <1>1, <1>2 DEF Books, EventOnFlow, Credited
<1>9. Fit(c, P, W, Key) /\ held(c) = held(b) + 1 BY <1>6, <1>7, <1>8, ByteOnFlow
<1>10. c.pendingIOCount <= MaxPending /\ c.retired = b.retired BY <1>6, <1>7 DEF Alike, Pages
<1>11. QED BY <1>1, <1>2, <1>3, <1>4, <1>5, <1>9, <1>10, ByteEntered

LEMMA EventBeforeFlowStep ==
  ASSUME IOInv, NEW p \in Proc, NEW k \in Key, EventBeforeFlow(p, k)
  PROVE  IOInv'
<1>1. PICK b : b = Books OBVIOUS
<1>2. PICK c : c = Books' OBVIOUS
<1>3. Count(p) BY DEF EventBeforeFlow
<1>4. PICK P : P = DOMAIN pidIO' OBVIOUS
<1>5. PICK W : W = WhatWaits' OBVIOUS
<1>6. PICK x : x = [key |-> k, proc |-> p, seen |-> now] OBVIOUS
<1>7. Fit(b, P, W, Key) /\ x \in W /\ x \in Sample
  <2>1. /\ DOMAIN pidIO' = DOMAIN pidIO \cup {p} /\ WhatWaits \subseteq WhatWaits'
        /\ [key |-> k, proc |-> p, seen |-> now] \in WhatWaits'
    BY <1>3, ProcessCounted DEF IOInv
  <2>2. Fit(b, DOMAIN pidIO, WhatWaits, Key) BY <1>1 DEF IOInv, FlowsCounted
  <2>3. DOMAIN pidIO \subseteq P /\ WhatWaits \subseteq W BY <1>4, <1>5, <2>1
  <2>4. Fit(b, P, W, Key) BY <2>2, <2>3, FitMore
  <2>5. now \in Nat BY DEF IOInv, ProcessesCounted
  <2>6. QED BY <1>5, <1>6, <2>1, <2>4, <2>5 DEF Sample
<1>8. Alike(b, c, Pages \ {"pendingIO", "pendingIOCount"})
  BY <1>1, <1>2 DEF Alike, Pages, Books, EventBeforeFlow, Count
<1>9. Delayed(b, c, x) /\ b.pendingIOCount < MaxPending /\ c.pendingIOCount = b.pendingIOCount + 1
  BY <1>1, <1>2, <1>6 DEF Books, EventBeforeFlow, Delayed
<1>10. Fit(c, P, W, Key) /\ held(c) = held(b) + 1 BY <1>7, <1>8, <1>9, ByteWaits
<1>11. c.retired = b.retired BY <1>8 DEF Alike, Pages
<1>12. c.pendingIOCount <= MaxPending
  <2>1. BookType(b) BY <1>7 DEF Fit
  <2>2. b.pendingIOCount \in Nat BY <2>1, Numbers
  <2>3. MaxPending \in Nat BY SocketIOAssumption DEF SocketIOAssumption
  <2>4. QED BY <1>9, <2>2, <2>3
<1>13. QED BY <1>1, <1>2, <1>3, <1>4, <1>5, <1>10, <1>11, <1>12, ByteEntered

LEMMA EventUnmatchedStep ==
  ASSUME IOInv, NEW p \in Proc, NEW k \in Key, NEW watched \in BOOLEAN, EventUnmatched(p, k, watched)
  PROVE  IOInv'
<1>1. PICK b : b = Books OBVIOUS
<1>2. PICK c : c = Books' OBVIOUS
<1>3. Count(p) BY DEF EventUnmatched
<1>4. PICK P : P = DOMAIN pidIO' OBVIOUS
<1>5. PICK W : W = WhatWaits' OBVIOUS
<1>6. Fit(b, P, W, Key) /\ b.pendingIOCount <= MaxPending
  <2>1. /\ DOMAIN pidIO' = DOMAIN pidIO \cup {p} /\ WhatWaits \subseteq WhatWaits'
    BY <1>3, ProcessCounted DEF IOInv
  <2>2. Fit(b, DOMAIN pidIO, WhatWaits, Key) /\ b.pendingIOCount <= MaxPending
    BY <1>1 DEF IOInv, FlowsCounted
  <2>3. DOMAIN pidIO \subseteq P /\ WhatWaits \subseteq W BY <1>4, <1>5, <2>1
  <2>4. QED BY <2>2, <2>3, FitMore
<1>7. Alike(b, c, Pages \ {"ioUnmatched"}) /\ c.ioUnmatched = b.ioUnmatched + 1
  BY <1>1, <1>2 DEF Alike, Pages, Books, EventUnmatched, Count
<1>8. Fit(c, P, W, Key) /\ held(c) = held(b) + 1 BY ONLY <1>6, <1>7, ByteUnmatched
<1>9. c.pendingIOCount <= MaxPending /\ c.retired = b.retired BY <1>6, <1>7 DEF Alike, Pages
<1>10. QED BY <1>1, <1>2, <1>3, <1>4, <1>5, <1>8, <1>9, ByteEntered

LEMMA EventUnindexedStep ==
  ASSUME IOInv, NEW p \in Proc, EventUnindexed(p)
  PROVE  IOInv'
<1>1. PICK b : b = Books OBVIOUS
<1>2. /\ Books' = Books /\ created' = created /\ UNCHANGED <<pidIO, pidSeen, expiredPIDIO, now>>
      /\ sent' = sent + 1 /\ ioUnindexed' = ioUnindexed + 1
  BY DEF EventUnindexed, Books
<1>3. WhatWaits' = WhatWaits BY <1>2 DEF WhatWaits
<1>4. IsFiniteSet(DOMAIN pidIO) /\ \A q \in DOMAIN pidIO : pidIO[q] \in Nat
  <2>1. IsFiniteSet(Proc) BY SocketIOAssumption DEF SocketIOAssumption
  <2>2. QED BY <2>1, FS_Subset DEF IOInv, ProcessesCounted
<1>5. total(pidIO) \in Nat BY <1>4, SumType, Total DEF total
<1>6. ProcessesCounted' BY <1>2, <1>5 DEF IOInv, ProcessesCounted
<1>7. held(b) \in Nat
  <2>1. BookType(b) BY <1>1 DEF IOInv, FlowsCounted, Fit
  <2>2. QED BY <2>1, Numbers
<1>8. FlowsCounted(Books)'
  <2>1. FlowsCounted(b) /\ sent \in Nat /\ ioUnindexed \in Nat BY <1>1 DEF IOInv, ProcessesCounted
  <2>2. held(b) + ioUnindexed' = sent' BY <1>2, <1>7, <2>1 DEF FlowsCounted
  <2>3. QED BY <1>1, <1>2, <1>3, <2>1, <2>2 DEF FlowsCounted
<1>9. QED BY <1>6, <1>8 DEF IOInv

(***************************************************************************)
(* Packets, connect results and NAT entries.                               *)
(***************************************************************************)
LEMMA OnFlow ==
  ASSUME IOInv, flows' \in [Key -> IOFlow],
         \A j \in Key : /\ flows'[j].io = flows[j].io /\ flows'[j].on = flows[j].on
                        /\ flows'[j].last \in {flows[j].last, now},
         UNCHANGED <<retired, pidIO, pidSeen, pendingIO, pendingIOCount, ioUnmatched, ioUnindexed,
                     expiredPIDIO, now, sent, lost, created, leftBehind, inherited>>
  PROVE  IOInv'
<1>1. PICK b : b = Books OBVIOUS
<1>2. PICK c : c = Books' OBVIOUS
<1>3. PICK P : P = DOMAIN pidIO OBVIOUS
<1>4. PICK W : W = WhatWaits OBVIOUS
<1>5. Fit(b, P, W, Key) /\ Waits(W, P) BY <1>1, <1>3, <1>4, SamplesWait DEF IOInv, FlowsCounted
<1>6. DOMAIN c = Pages /\ \A p \in Pages \ {"flows"} : c[p] = b[p] BY <1>1, <1>2 DEF Books, Pages
<1>7. c.flows \in [Key -> IOFlow] BY <1>2 DEF Books
<1>8. \A j \in Key : /\ c.flows[j].io = b.flows[j].io /\ c.flows[j].on = b.flows[j].on
                     /\ c.flows[j].last \in {b.flows[j].last, now}
  BY <1>1, <1>2 DEF Books
<1>9. Fit(c, P, W, Key) /\ Kept(b, c) BY <1>5, <1>6, <1>7, <1>8, SameBytes
<1>10. RetiredBy(c, created') BY <1>1, <1>2 DEF RetiredBy, IOInv, FlowsCounted, Books
<1>11. Enter(c) BY <1>2 DEF Enter, Books
<1>12. QED BY <1>1, <1>3, <1>4, <1>9, <1>10, <1>11, Entered

LEMMA FlowsAre == ASSUME IOInv PROVE flows \in [Key -> IOFlow] /\ now \in Nat
  BY DEF IOInv, FlowsCounted, Fit, BookType, Books, ProcessesCounted

LEMMA PacketOnFlowStep ==
  ASSUME IOInv, NEW k \in Key, NEW closes \in BOOLEAN, PacketOnFlow(k, closes)
  PROVE  IOInv'
<1>1. PICK f \in IOFlow : f = flows[k] BY FlowsAre
<1>2. PICK g : g = [f EXCEPT !.last = now, !.closed = @ \/ closes] OBVIOUS
<1>3. g \in IOFlow /\ g.io = f.io /\ g.on = f.on /\ g.last = now BY <1>2, FlowsAre DEF IOFlow
<1>4. flows' = [flows EXCEPT ![k] = g] BY <1>1, <1>2 DEF PacketOnFlow
<1>5. flows' \in [Key -> IOFlow] /\ \A j \in Key : flows'[j] = IF j = k THEN g ELSE flows[j]
  BY <1>3, <1>4, FlowsAre
<1>6. \A j \in Key : /\ flows'[j].io = flows[j].io /\ flows'[j].on = flows[j].on
                     /\ flows'[j].last \in {flows[j].last, now}
  BY <1>1, <1>3, <1>5
<1>7. QED BY <1>5, <1>6, OnFlow DEF PacketOnFlow

LEMMA ConnectResultOnFlowStep ==
  ASSUME IOInv, NEW k \in Key, NEW failed \in BOOLEAN, ConnectResultOnFlow(k, failed)
  PROVE  IOInv'
<1>1. PICK f \in IOFlow : f = flows[k] BY FlowsAre
<1>2. PICK g : g = [f EXCEPT !.closed = TRUE, !.last = now] OBVIOUS
<1>3. g \in IOFlow /\ g.io = f.io /\ g.on = f.on /\ g.last = now BY <1>2, FlowsAre DEF IOFlow
<1>4. flows' = [flows EXCEPT ![k] = g] BY <1>1, <1>2 DEF ConnectResultOnFlow
<1>5. flows' \in [Key -> IOFlow] /\ \A j \in Key : flows'[j] = IF j = k THEN g ELSE flows[j]
  BY <1>3, <1>4, FlowsAre
<1>6. \A j \in Key : /\ flows'[j].io = flows[j].io /\ flows'[j].on = flows[j].on
                     /\ flows'[j].last \in {flows[j].last, now}
  BY <1>1, <1>3, <1>5
<1>7. QED BY <1>5, <1>6, OnFlow DEF ConnectResultOnFlow

LEMMA PacketNewFlowStep ==
  ASSUME IOInv, NEW k \in Key, NEW syn \in BOOLEAN, PacketNewFlow(k, syn)
  PROVE  IOInv'
<1>1. PICK b : b = Books OBVIOUS
<1>2. PICK P : P = DOMAIN pidIO OBVIOUS
<1>3. PICK W : W = WhatWaits OBVIOUS
<1>4. Fit(b, P, W, Key) /\ Waits(W, P) /\ RetiredBy(b, created)
  BY <1>1, <1>2, <1>3, SamplesWait DEF IOInv, FlowsCounted
<1>5. now \in Nat BY FlowsAre
<1>6. PICK gone \in SUBSET {j \in Key \ {k} : flows[j].on} :
        LET prior == IF flows[k].on THEN retire(flushPendingKey(Books, k), k) ELSE Books
            room == evict(prior, gone)
        IN Enter(natFlow(IF syn \/ k \in UDP THEN createAttached(room, k) ELSE create(room, k), k))
  BY DEF PacketNewFlow
<1>7. gone \in SUBSET (Key \ {k}) OBVIOUS
<1>8. PICK flush : flush = TRUE OBVIOUS
<1>9. PICK prior : prior = IF b.flows[k].on
                           THEN retire(IF flush THEN flushPendingKey(b, k) ELSE b, k) ELSE b
  OBVIOUS
<1>10. PICK room : room = evict(prior, gone) OBVIOUS
<1>11. flush \in BOOLEAN BY <1>8
<1>12. /\ Fit(room, P, W, Key \ {k}) /\ (flush \/ ~b.flows[k].on => Fit(room, P, W, Key))
       /\ Kept(b, room) /\ ~room.flows[k].on /\ RetiredBy(room, created + 1)
  BY <1>4, <1>7, <1>9, <1>10, <1>11, MakeRoom
<1>13. PICK d : d = IF syn \/ k \in UDP THEN createAttached(room, k) ELSE create(room, k) OBVIOUS
<1>14. Fit(d, P, W, Key) /\ Kept(room, d) /\ d.retired = room.retired
  <2>1. CASE syn \/ k \in UDP
    <3>1. d = createAttached(room, k) BY <1>13, <2>1
    <3>2. Fit(room, P, W, Key) BY <1>8, <1>12
    <3>3. QED BY <1>4, <1>5, <1>12, <3>1, <3>2, CreateAttached
  <2>2. CASE ~(syn \/ k \in UDP)
    <3>1. d = create(room, k) BY <1>13, <2>2
    <3>2. /\ Fit(d, P, W, (Key \ {k}) \cup {k}) /\ Kept(room, d) /\ d.retired = room.retired
      BY <1>4, <1>5, <1>12, <3>1, Create
    <3>3. (Key \ {k}) \cup {k} = Key OBVIOUS
    <3>4. QED BY <3>2, <3>3
  <2>3. QED BY <2>1, <2>2
<1>15. PICK c : c = natFlow(d, k) OBVIOUS
<1>16. Fit(c, P, W, Key) /\ Kept(d, c) /\ c.retired = d.retired
  BY <1>4, <1>14, <1>15, NATFlow
<1>17. Kept(b, c)
  <2>1. BookType(b) /\ BookType(room) /\ BookType(d) /\ BookType(c) BY <1>4, <1>12, <1>14, <1>16 DEF Fit
  <2>2. Kept(b, d) BY <1>12, <1>14, <2>1, KeptTwice
  <2>3. QED BY <1>16, <2>1, <2>2, KeptTwice
<1>18. Enter(c)
  <2>1. prior = IF flows[k].on THEN retire(flushPendingKey(Books, k), k) ELSE Books
    BY <1>1, <1>8, <1>9 DEF Books
  <2>2. QED BY <1>6, <1>10, <1>13, <1>15, <2>1
<1>19. created' = created + 1 BY DEF PacketNewFlow
<1>20. RetiredBy(c, created') BY <1>12, <1>14, <1>16, <1>19 DEF RetiredBy
<1>21. UNCHANGED <<pidIO, pidSeen, ioUnindexed, expiredPIDIO, now, sent>> BY DEF PacketNewFlow
<1>22. QED BY <1>1, <1>2, <1>3, <1>16, <1>17, <1>18, <1>20, <1>21, Entered

LEMMA ConnectResultNewFlowStep ==
  ASSUME IOInv, NEW k \in Key, NEW failed \in BOOLEAN, ConnectResultNewFlow(k, failed)
  PROVE  IOInv'
<1>1. PICK b : b = Books OBVIOUS
<1>2. PICK P : P = DOMAIN pidIO OBVIOUS
<1>3. PICK W : W = WhatWaits OBVIOUS
<1>4. Fit(b, P, W, Key) /\ Waits(W, P) /\ RetiredBy(b, created)
  BY <1>1, <1>2, <1>3, SamplesWait DEF IOInv, FlowsCounted
<1>5. now \in Nat BY FlowsAre
<1>6. PICK gone \in SUBSET {j \in Key \ {k} : flows[j].on} :
        LET prior == IF flows[k].on THEN retire(Books, k) ELSE Books
            new == create(evict(prior, gone), k)
        IN Enter([new EXCEPT !.flows[k].closed = failed])
  BY DEF ConnectResultNewFlow
<1>7. gone \in SUBSET (Key \ {k}) OBVIOUS
<1>8. PICK flush : flush = FALSE OBVIOUS
<1>9. PICK prior : prior = IF b.flows[k].on
                           THEN retire(IF flush THEN flushPendingKey(b, k) ELSE b, k) ELSE b
  OBVIOUS
<1>10. PICK room : room = evict(prior, gone) OBVIOUS
<1>11. flush \in BOOLEAN BY <1>8
<1>12. /\ Fit(room, P, W, Key \ {k})
       /\ Kept(b, room) /\ ~room.flows[k].on /\ RetiredBy(room, created + 1)
  BY <1>4, <1>7, <1>9, <1>10, <1>11, MakeRoom
<1>13. PICK d : d = create(room, k) OBVIOUS
<1>14. Fit(d, P, W, Key) /\ Kept(room, d) /\ d.retired = room.retired
  <2>1. /\ Fit(d, P, W, (Key \ {k}) \cup {k}) /\ Kept(room, d) /\ d.retired = room.retired
    BY <1>4, <1>5, <1>12, <1>13, Create
  <2>2. (Key \ {k}) \cup {k} = Key OBVIOUS
  <2>3. QED BY <2>1, <2>2
<1>15. PICK c : c = [d EXCEPT !.flows[k].closed = failed] OBVIOUS
<1>16. Fit(c, P, W, Key) /\ Kept(d, c) /\ c.retired = d.retired
  BY <1>4, <1>14, <1>15, Closes
<1>17. Kept(b, c)
  <2>1. BookType(b) /\ BookType(room) /\ BookType(d) /\ BookType(c) BY <1>4, <1>12, <1>14, <1>16 DEF Fit
  <2>2. Kept(b, d) BY <1>12, <1>14, <2>1, KeptTwice
  <2>3. QED BY <1>16, <2>1, <2>2, KeptTwice
<1>18. Enter(c)
  <2>1. prior = IF flows[k].on THEN retire(Books, k) ELSE Books
    BY <1>1, <1>8, <1>9 DEF Books
  <2>2. QED BY <1>6, <1>10, <1>13, <1>15, <2>1
<1>19. created' = created + 1 BY DEF ConnectResultNewFlow
<1>20. RetiredBy(c, created') BY <1>12, <1>14, <1>16, <1>19 DEF RetiredBy
<1>21. UNCHANGED <<pidIO, pidSeen, ioUnindexed, expiredPIDIO, now, sent>> BY DEF ConnectResultNewFlow
<1>22. QED BY <1>1, <1>2, <1>3, <1>16, <1>17, <1>18, <1>20, <1>21, Entered

LEMMA LinkNATStep == ASSUME IOInv, LinkNAT PROVE IOInv'
<1>1. PICK b : b = Books OBVIOUS
<1>2. PICK P : P = DOMAIN pidIO OBVIOUS
<1>3. PICK W : W = WhatWaits OBVIOUS
<1>4. Fit(b, P, W, Key) /\ Waits(W, P) /\ RetiredBy(b, created)
  BY <1>1, <1>2, <1>3, SamplesWait DEF IOInv, FlowsCounted
<1>5. PICK c : c = linkNAT(b) OBVIOUS
<1>6. Fit(c, P, W, Key) /\ Kept(b, c) /\ c.retired = b.retired BY <1>4, <1>5, NATFlow
<1>7. Enter(c) BY <1>1, <1>5 DEF LinkNAT
<1>8. RetiredBy(c, created') BY <1>4, <1>6 DEF RetiredBy, LinkNAT
<1>9. UNCHANGED <<pidIO, pidSeen, ioUnindexed, expiredPIDIO, now, sent>> BY DEF LinkNAT
<1>10. QED BY <1>1, <1>2, <1>3, <1>6, <1>7, <1>8, <1>9, Entered

(***************************************************************************)
(* expire, and the end of the run.                                         *)
(***************************************************************************)
Silent == {p \in DOMAIN pidSeen : now - pidSeen[p] > ProcTTL}

LEMMA ProcessesExpire ==
  ASSUME ProcessesCounted, Expire
  PROVE  ProcessesCounted' /\ DOMAIN pidIO' = DOMAIN pidIO \ Silent
<1>1. PICK io : io = pidIO OBVIOUS
<1>2. PICK S : S = DOMAIN io OBVIOUS
<1>3. S \subseteq Proc /\ \A p \in S : io[p] \in Nat BY <1>1, <1>2 DEF ProcessesCounted
<1>4. IsFiniteSet(S)
  <2>1. IsFiniteSet(Proc) BY SocketIOAssumption DEF SocketIOAssumption
  <2>2. QED BY <1>3, <2>1, FS_Subset
<1>5. PICK ids : ids = Silent OBVIOUS
<1>6. ids \in SUBSET S BY <1>1, <1>2, <1>5 DEF Silent, ProcessesCounted
<1>7. PICK left : left = without(io, ids) OBVIOUS
<1>8. DOMAIN left = S \ ids /\ \A p \in S \ ids : left[p] = io[p] BY <1>2, <1>7 DEF without
<1>9. IsFiniteSet(S \ ids) /\ IsFiniteSet(ids) BY <1>4, <1>6, FS_Subset
<1>10. PICK n : n = SumFunctionOnSet(io, ids) OBVIOUS
<1>11. n \in Nat
  <2>1. \A p \in ids : io[p] \in Nat BY <1>3, <1>6
  <2>2. QED BY <1>9, <1>10, <2>1, SumType
<1>12. SumFunction(io) = n + SumFunction(left) /\ SumFunction(left) \in Nat
  <2>1. SumFunctionOnSet(io, S) = n + SumFunctionOnSet(io, S \ ids)
    BY <1>3, <1>4, <1>6, <1>10, SumSplit
  <2>2. SumFunctionOnSet(io, S \ ids) = SumFunctionOnSet(left, S \ ids) BY <1>8, <1>9, SumSame
  <2>3. \A p \in S \ ids : left[p] \in Nat BY <1>3, <1>8
  <2>4. SumFunctionOnSet(left, S \ ids) \in Nat BY <1>9, <2>3, SumType
  <2>5. SumFunction(io) = SumFunctionOnSet(io, S) BY <1>2, Total
  <2>6. SumFunction(left) = SumFunctionOnSet(left, S \ ids) BY <1>8, Total
  <2>7. QED BY <2>1, <2>2, <2>4, <2>5, <2>6
<1>13. /\ pidIO' = left /\ expiredPIDIO' = expiredPIDIO + n /\ pidSeen' = without(pidSeen, ids)
       /\ sent' = sent /\ ioUnindexed' = ioUnindexed /\ now' = now
  BY <1>1, <1>5, <1>7, <1>10 DEF Expire, Silent
<1>14. /\ sent \in Nat /\ ioUnindexed \in Nat /\ expiredPIDIO \in Nat /\ now \in Nat
       /\ sent = SumFunction(io) + ioUnindexed + expiredPIDIO
  BY <1>1 DEF ProcessesCounted, total
<1>15. sent' = SumFunction(left) + ioUnindexed' + expiredPIDIO' BY <1>11, <1>12, <1>13, <1>14
<1>16. DOMAIN pidSeen' = S \ ids /\ \A p \in S \ ids : pidSeen'[p] = pidSeen[p]
  BY <1>1, <1>2, <1>13 DEF without, ProcessesCounted
<1>17. \A p \in S \ ids : pidSeen'[p] \in Nat /\ pidSeen'[p] <= now
  BY <1>1, <1>2, <1>16 DEF ProcessesCounted
<1>18. S \ ids \subseteq Proc BY <1>3
<1>19. \A p \in S \ ids : left[p] \in Nat BY <1>3, <1>8
<1>20. expiredPIDIO' \in Nat BY <1>11, <1>13, <1>14
<1>21. ProcessesCounted'
  BY <1>8, <1>13, <1>14, <1>15, <1>16, <1>17, <1>18, <1>19, <1>20 DEF ProcessesCounted, total
<1>22. QED BY <1>1, <1>2, <1>5, <1>8, <1>13, <1>21

(* Samples that still wait are of processes that stay.                      *)
LEMMA SamplesOutlived ==
  ASSUME ProcessesCounted, Expire, NEW x \in WhatWaits, ~tooOld(x)
  PROVE  x \in WhatWaits'
<1>1. x \in Sample /\ x.proc \in DOMAIN pidSeen /\ x.seen <= pidSeen[x.proc] /\ x.seen \in Nat
  BY DEF WhatWaits, Sample
<1>2. pidSeen[x.proc] \in Nat /\ now \in Nat BY <1>1 DEF ProcessesCounted
<1>3. Patience \in Nat /\ ProcTTL \in Nat /\ Patience < ProcTTL
  BY SocketIOAssumption DEF SocketIOAssumption
<1>4. x.proc \notin Silent BY <1>1, <1>2, <1>3 DEF Silent, tooOld
<1>5. pidSeen' = without(pidSeen, Silent) BY DEF Expire, Silent
<1>6. x.proc \in DOMAIN pidSeen' /\ pidSeen'[x.proc] = pidSeen[x.proc] BY <1>1, <1>4, <1>5 DEF without
<1>7. QED BY <1>1, <1>6 DEF WhatWaits

LEMMA ExpireStep == ASSUME IOInv, Expire PROVE IOInv'
<1>1. PICK b : b = Books OBVIOUS
<1>2. PICK P : P = DOMAIN pidIO OBVIOUS
<1>3. PICK W : W = WhatWaits OBVIOUS
<1>4. Fit(b, P, W, Key) /\ RetiredBy(b, created) /\ P \subseteq Proc
  BY <1>1, <1>2, <1>3 DEF IOInv, FlowsCounted, ProcessesCounted
<1>5. PICK V : V = WhatWaits' OBVIOUS
<1>6. PICK ids : ids = Silent OBVIOUS
<1>7. ids \in SUBSET Proc BY <1>2, <1>4, <1>6 DEF Silent, IOInv, ProcessesCounted
<1>8. PICK flushAll : flushAll = FALSE OBVIOUS
<1>9. flushAll \in BOOLEAN BY <1>8
<1>10. PICK d : d = expirePendingIO(b, flushAll) OBVIOUS
<1>11. /\ Fit(d, P, W, Key) /\ Kept(b, d) /\ d.flows = b.flows /\ d.retired = b.retired
       /\ \A x \in DOMAIN d.pendingIO : ~tooOld(x)
  BY <1>4, <1>9, <1>10, ExpirePendingIO
<1>12. DOMAIN d.pendingIO \subseteq V
  <2>1. DOMAIN d.pendingIO \subseteq WhatWaits BY <1>3, <1>11 DEF Fit
  <2>2. QED BY <1>5, <1>11, <2>1, SamplesOutlived DEF IOInv
<1>13. PICK e : e = forget(d, ids) OBVIOUS
<1>14. /\ Fit(e, P \ ids, V, Key) /\ Kept(d, e) /\ DOMAIN e.retired = DOMAIN d.retired
       /\ e.pendingIO = d.pendingIO
  BY <1>7, <1>11, <1>12, <1>13, Forget
<1>15. PICK c : c = expireFlows(e) OBVIOUS
<1>16. now \in Nat BY FlowsAre
<1>17. \A x \in DOMAIN e.pendingIO : ~tooOld(x) BY <1>11, <1>14
<1>18. Fit(c, P \ ids, V, Key) /\ Kept(e, c) /\ DOMAIN c.retired \subseteq DOMAIN e.retired
  BY <1>14, <1>15, <1>16, <1>17, ExpireFlows
<1>19. Kept(b, c)
  <2>1. BookType(b) /\ BookType(d) /\ BookType(e) /\ BookType(c) BY <1>4, <1>11, <1>14, <1>18 DEF Fit
  <2>2. Kept(b, e) BY <1>11, <1>14, <2>1, KeptTwice
  <2>3. QED BY <1>18, <2>1, <2>2, KeptTwice
<1>20. Enter(c) BY <1>1, <1>6, <1>8, <1>10, <1>13, <1>15 DEF Expire, Silent
<1>21. created' = created BY DEF Expire
<1>22. RetiredBy(c, created') BY <1>4, <1>11, <1>14, <1>18, <1>21 DEF RetiredBy
<1>23. ProcessesCounted' /\ DOMAIN pidIO' = P \ ids BY <1>2, <1>6, ProcessesExpire DEF IOInv
<1>24. Fit(c, DOMAIN pidIO', WhatWaits', Key) BY <1>5, <1>18, <1>23
<1>25. UNCHANGED <<ioUnindexed, sent>> BY DEF Expire
<1>26. FlowsCounted(Books)' BY <1>1, <1>19, <1>20, <1>22, <1>24, <1>25, FlowsEntered DEF IOInv
<1>27. QED BY <1>23, <1>26 DEF IOInv

LEMMA FinishStep == ASSUME IOInv, Finish PROVE IOInv'
<1>1. PICK b : b = Books OBVIOUS
<1>2. PICK P : P = DOMAIN pidIO OBVIOUS
<1>3. PICK W : W = WhatWaits OBVIOUS
<1>4. Fit(b, P, W, Key) /\ RetiredBy(b, created) BY <1>1, <1>2, <1>3 DEF IOInv, FlowsCounted
<1>5. PICK flushAll : flushAll = TRUE OBVIOUS
<1>6. flushAll \in BOOLEAN BY <1>5
<1>7. PICK c : c = expirePendingIO(b, flushAll) OBVIOUS
<1>8. Fit(c, P, W, Key) /\ Kept(b, c) /\ c.retired = b.retired BY <1>4, <1>6, <1>7, ExpirePendingIO
<1>9. Enter(c) BY <1>1, <1>5, <1>7 DEF Finish
<1>10. RetiredBy(c, created') BY <1>4, <1>8 DEF RetiredBy, Finish
<1>11. UNCHANGED <<pidIO, pidSeen, ioUnindexed, expiredPIDIO, now, sent>> BY DEF Finish
<1>12. QED BY <1>1, <1>2, <1>3, <1>8, <1>9, <1>10, <1>11, Entered

LEMMA IOStep == IOInv /\ [Next]_vars => IOInv'
<1> SUFFICES ASSUME IOInv, [Next]_vars PROVE IOInv'
  OBVIOUS
<1>1. Next \/ UNCHANGED vars OBVIOUS
<1>2. CASE UNCHANGED vars
  <2>1. now' \in Nat /\ now' >= now BY <1>2, FlowsAre DEF vars
  <2>2. UNCHANGED <<Books, pidIO, pidSeen, ioUnindexed, expiredPIDIO, sent, created>>
    BY <1>2 DEF vars, Books
  <2>3. QED BY <2>1, <2>2, IOStays
<1>3. ASSUME NEW p \in Proc, NEW k \in Key, Event(p, k) PROVE IOInv'
  <2>1. PICK s \in Key : s = natSocket(k) BY SocketOf
  <2>2. QED
    BY <1>3, <2>1, EventUnindexedStep, EventOnFlowStep, EventBeforeFlowStep, EventUnmatchedStep DEF Event
<1>4. CASE ForgetNAT
  <2>1. now' \in Nat /\ now' >= now BY <1>4, FlowsAre DEF ForgetNAT
  <2>2. UNCHANGED <<Books, pidIO, pidSeen, ioUnindexed, expiredPIDIO, sent, created>>
    BY <1>4 DEF ForgetNAT, Books
  <2>3. QED BY <2>1, <2>2, IOStays
<1>5. CASE Tick
  <2>1. now' \in Nat /\ now' >= now BY <1>5, FlowsAre DEF Tick
  <2>2. UNCHANGED <<Books, pidIO, pidSeen, ioUnindexed, expiredPIDIO, sent, created>>
    BY <1>5 DEF Tick, Books
  <2>3. QED BY <2>1, <2>2, IOStays
<1>6. QED
  BY <1>1, <1>2, <1>3, <1>4, <1>5, PacketOnFlowStep, PacketNewFlowStep, ConnectResultOnFlowStep,
     ConnectResultNewFlowStep, LinkNATStep, ExpireStep, FinishStep DEF Next

(* Every byte a process moved is counted once for a process and once for a   *)
(* flow, or as one that has none, however packets, events, NAT entries and    *)
(* expiry interleave, and no more samples wait than there is room for         *)
(* (eventAt, attachPendingIO, flushPendingKey, expirePendingIO, linkNAT,     *)
(* expire): for any processes, five-tuples and number of flows.             *)
THEOREM EveryByteCounted == Spec => []BytesCounted
<1>1. Init => IOInv BY IOInit
<1>2. IOInv /\ [Next]_vars => IOInv' BY IOStep
<1>3. IOInv => BytesCounted
  <2> SUFFICES ASSUME IOInv PROVE BytesCounted OBVIOUS
  <2>1. PICK b : b = Books OBVIOUS
  <2>2. BookType(b) BY <2>1 DEF IOInv, FlowsCounted, Fit
  <2>3. /\ SumFunction(totals(flows)) \in Nat /\ SumFunction(totals(retired)) \in Nat
        /\ SumFunction(pendingIO) \in Nat
    BY <2>1, <2>2, Numbers DEF Books
  <2>4. pendingIOCount = SumFunction(pendingIO) /\ ioUnmatched \in Nat /\ lost \in Nat
    BY <2>1, <2>2 DEF BookType, Books
  <2>5. pendingIOCount <= MaxPending BY DEF IOInv, FlowsCounted, Books
  <2>6. held(b) = SumFunction(totals(flows)) + SumFunction(totals(retired)) + SumFunction(pendingIO)
                    + ioUnmatched + lost
    BY <2>1 DEF held, Books
  <2>7. held(b) + ioUnindexed = sent /\ ioUnindexed \in Nat
    BY <2>1 DEF IOInv, FlowsCounted, ProcessesCounted
  <2>8. FlowBytesOnce BY <2>3, <2>4, <2>6, <2>7 DEF FlowBytesOnce, onFlows, waiting
  <2>9. ProcessBytesOnce BY DEF IOInv, ProcessesCounted, ProcessBytesOnce
  <2>10. QED BY <2>4, <2>5, <2>8, <2>9 DEF BytesCounted, BytesOnce, PendingCounted, waiting
<1>4. QED BY <1>1, <1>2, <1>3, PTL DEF Spec

(* No flow, retired ones included, has bytes of a process the collector has  *)
(* forgotten, and no sample a flow left behind when it was created goes to a  *)
(* later flow of the five-tuple, unless that flow was evicted (expire,        *)
(* packetAt, evict).                                                        *)
THEOREM BytesOfTheirProcess == Spec => []BytesOfProcesses
<1>1. Init => IOInv BY IOInit
<1>2. IOInv /\ [Next]_vars => IOInv' BY IOStep
<1>3. IOInv => BytesOfProcesses
  <2> SUFFICES ASSUME IOInv PROVE BytesOfProcesses OBVIOUS
  <2>1. /\ OnlyOf(flows, DOMAIN pidIO) /\ Retires(retired, DOMAIN pidIO) /\ inherited = 0
        /\ DOMAIN flows = Key
    BY DEF IOInv, FlowsCounted, Fit, Books, BookType
  <2>2. QED
    BY <2>1 DEF IOInv, ProcessesCounted, OnlyOf, Retires, BytesOfProcesses, ProcessesKnown, NotInherited
<1>4. QED BY <1>1, <1>2, <1>3, PTL DEF Spec
=============================================================================
