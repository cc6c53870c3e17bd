--------------------------- MODULE FlowTableProofs ---------------------------
(***************************************************************************)
(* Theorems about the flow table, for every set of keys, every table size  *)
(* and every timeout.                                                      *)
(***************************************************************************)
EXTENDS FlowTable, Sums

AnyPacket == TCPPacket \cup UDPPacket \cup ICMPPacket

(* Packet(k) yields packets for every key. *)
LEMMA PacketIsAny == ASSUME NEW k \in Key PROVE Packet(k) \subseteq AnyPacket
  BY DEF Packet, AnyPacket, Key

(* The fields of a packet that end up in a flow. *)
LEMMA PacketFields ==
  ASSUME NEW p \in AnyPacket
  PROVE  p.src \in End /\ p.seq \in Seq32 /\ p.bytes \in Nat
<1>1. CASE p \in TCPPacket
  BY <1>1, FlowTableAssumption DEF TCPPacket
<1>2. CASE p \in UDPPacket
  BY <1>2, FlowTableAssumption DEF UDPPacket
<1>3. CASE p \in ICMPPacket
  BY <1>3, FlowTableAssumption DEF ICMPPacket
<1> QED BY <1>1, <1>2, <1>3 DEF AnyPacket

(* What a packet does to a flow keeps it a flow. *)
LEMMA CountType ==
  ASSUME NEW f \in Flow, NEW p \in AnyPacket, now \in Nat
  PROVE  countPacket(f, p) \in Flow
<1>1. f.RX \in Nat /\ f.TX \in Nat /\ f.Packets + 1 \in Nat
  BY DEF Flow
<1>2. /\ f.RX + p.bytes \in Nat
      /\ f.TX + p.bytes \in Nat
  BY <1>1, PacketFields
<1> QED BY <1>1, <1>2 DEF countPacket, Flow

LEMMA StartType ==
  ASSUME NEW f \in Flow, NEW p \in AnyPacket
  PROVE  observeStart(f, p) \in Flow
<1>1. p.src \in End /\ p.seq \in Seq32
  BY PacketFields
<1>2. CASE IsTCP(f) /\ p.flags = "SYN"
  BY <1>1, <1>2 DEF observeStart, Flow, States, Directions
<1>3. CASE ~IsTCP(f) /\ f.Initiator = "none"
  BY <1>1, <1>3 DEF observeStart, Flow, Directions
<1> QED BY <1>2, <1>3 DEF observeStart

LEMMA AnswerType ==
  ASSUME NEW f \in Flow, NEW p \in AnyPacket
  PROVE  observeAnswer(f, p) \in Flow
  BY DEF observeAnswer, Flow, States, IsTCP

LEMMA ClientType ==
  ASSUME NEW f \in Flow, NEW p \in AnyPacket
  PROVE  observeClient(f, p) \in Flow
<1>1. p.src \in End
  BY PacketFields
<1> QED BY <1>1 DEF observeClient, Flow, Directions

LEMMA EndType ==
  ASSUME NEW f \in Flow, NEW p \in AnyPacket
  PROVE  observeEnd(f, p) \in Flow
<1>1. p.src \in End
  BY PacketFields
<1>2. refuse(f, refusedByReset(f, p)) \in Flow
  BY DEF refuse, Flow
<1>3. (f.Fin \cup {p.src}) \in SUBSET End
  BY <1>1 DEF Flow
<1>4. CASE p.flags = "RST"
  BY <1>2, <1>4 DEF observeEnd, Flow, States
<1>5. CASE p.flags = "FIN"
  BY <1>3, <1>5 DEF observeEnd, Flow, States
<1> QED BY <1>4, <1>5 DEF observeEnd

LEMMA ObserveType ==
  ASSUME NEW f \in Flow, NEW p \in AnyPacket, now \in Nat
  PROVE  started(f, p) \in Flow /\ observe(f, p) \in Flow
  BY CountType, StartType, AnswerType, ClientType, EndType DEF started, observe

LEMMA MarkType ==
  ASSUME NEW f \in Flow, NEW p \in AnyPacket
  PROVE  markICMP(f, p) \in Flow
<1>1. refuse(f, refusedByICMP(f, p)) \in Flow
  BY DEF refuse, Flow
<1> QED BY <1>1 DEF markICMP, Flow

(* The flows that the collector creates are flows. *)
LEMMA CreatedType ==
  ASSUME NEW k \in Key, NEW src \in End, NEW failed \in BOOLEAN, now \in Nat
  PROVE  /\ Blank \in Flow
         /\ newFlow(k) \in Flow
         /\ withResult(probeFlow(k), failed) \in Flow
         /\ droppedPacketFlow(k, src) \in Flow
<1>1. Blank \in Flow
  BY FlowTableAssumption DEF Blank, Flow, States, Directions
<1>2. newFlow(k) \in Flow
  BY <1>1 DEF newFlow, Flow, States, Blank
<1>3. probeFlow(k) \in Flow
  BY <1>1 DEF probeFlow, Flow, States, Directions, End, Blank
<1>4. withResult(probeFlow(k), failed) \in Flow
  BY <1>3 DEF withResult, Flow
<1>5. droppedPacketFlow(k, src) \in Flow
  BY <1>2 DEF droppedPacketFlow, Flow
<1> QED BY <1>1, <1>2, <1>4, <1>5

(***************************************************************************)
(* Counting attempts.                                                      *)
(***************************************************************************)
Summaries == [Addr -> Summary]

LEMMA RefusedType ==
  ASSUME NEW a \in Summaries, NEW f, now \in Nat
  PROVE  noteRefused(a, f) \in Summaries
<1> DEFINE x == RemoteAddr[f.key]
<1>1. CASE x \in Addr
  BY <1>1 DEF noteRefused, Summaries, Summary
<1>2. CASE x \notin Addr
  BY <1>2 DEF noteRefused, Summaries
<1> QED BY <1>1, <1>2

LEMMA SlotSets ==
  ASSUME NEW S \in SUBSET Slot
  PROVE  IsFiniteSet(S) /\ Cardinality(S) \in Nat
  BY FlowTableAssumption, FS_Subset, FS_CardinalityType

LEMMA AddrSets ==
  ASSUME NEW A \in SUBSET Addr
  PROVE  IsFiniteSet(A) /\ Cardinality(A) \in Nat
  BY FlowTableAssumption, FS_Subset, FS_CardinalityType

LEMMA UnansweredType ==
  ASSUME NEW a \in Summaries, NEW S \in SUBSET Slot, now \in Nat,
         NEW b \in noteUnanswered(a, S)
  PROVE  b \in Summaries
<1> DEFINE from(x) == {s \in Unanswered(S) : RemoteAddr[flow[s].key] = x}
<1>1. \A x \in Addr : Cardinality(from(x)) \in Nat
  BY SlotSets DEF Unanswered
<1>2. PICK A \in SUBSET Addr :
        b = [x \in Addr |->
              IF from(x) # {} /\ (a[x].known \/ x \in A)
              THEN [known |-> TRUE, Refused |-> a[x].Refused,
                    Unanswered |-> a[x].Unanswered + Cardinality(from(x)), Last |-> now]
              ELSE a[x]]
  BY DEF noteUnanswered
<1>3. ASSUME NEW x \in Addr
      PROVE  b[x] \in Summary
  <2>1. a[x] \in Summary /\ Cardinality(from(x)) \in Nat
    BY <1>1 DEF Summaries
  <2>2. b[x] = IF from(x) # {} /\ (a[x].known \/ x \in A)
               THEN [known |-> TRUE, Refused |-> a[x].Refused,
                     Unanswered |-> a[x].Unanswered + Cardinality(from(x)), Last |-> now]
               ELSE a[x]
    BY <1>2
  <2> HIDE DEF from
  <2> QED BY <2>1, <2>2 DEF Summary
<1> QED BY <1>2, <1>3 DEF Summaries

(***************************************************************************)
(* Making room: retiring keeps every object, evicting frees only           *)
(* candidates.                                                             *)
(***************************************************************************)
Tables == [Slot -> {"free", "flows", "retired"}]

LEMMA RetireTable ==
  ASSUME NEW k, NEW p, place \in Tables
  PROVE  /\ retire(k, p) \in Tables /\ staleRetired(k) \in Tables
         /\ Held(retire(k, p)) = Held(place) /\ Held(staleRetired(k)) = Held(place)
         /\ Candidates(retire(k, p)) \subseteq Candidates(place)
         /\ Candidates(staleRetired(k)) \subseteq Candidates(place)
         /\ \A s \in Slot : retire(k, p)[s] \in {place[s], "retired"}
         /\ \A s \in Slot : staleRetired(k)[s] \in {place[s], "retired"}
         /\ \A s \in Slot : place[s] # "flows" =>
                retire(k, p)[s] = place[s] /\ staleRetired(k)[s] = place[s]
  BY DEF retire, staleRetired, Tables, Held, Candidates, Indexed

LEMMA EvictTable ==
  ASSUME NEW pl \in Tables, NEW E \in evict(pl)
  PROVE  /\ E \subseteq Slot
         /\ \A s \in E : pl[s] = "flows"
         /\ removed(pl, E) \in Tables
         /\ Held(removed(pl, E)) = Held(pl) \ E
<1>1. E \subseteq Candidates(pl)
  BY DEF evict
<1>2. E \subseteq Slot /\ \A s \in E : pl[s] = "flows"
  BY <1>1 DEF Candidates
<1> QED BY <1>2 DEF removed, Held, Tables

LEMMA RemovedTable ==
  ASSUME NEW pl \in Tables, NEW E \in SUBSET Slot, flow \in [Slot -> Flow], now \in Nat
  PROVE  /\ removed(pl, E) \in Tables
         /\ Held(removed(pl, E)) \subseteq Held(pl)
         /\ blanked(E) \in [Slot -> Flow]
<1>1. Blank \in Flow
  BY FlowTableAssumption DEF Blank, Flow, States, Directions
<1> QED BY <1>1 DEF removed, Held, Tables, blanked

(* One more object in a table that is not full keeps the bound. *)
LEMMA RoomForOne ==
  ASSUME NEW pl \in Tables, NEW s \in Slot, ~Full(pl)
  PROVE  Cardinality(Held([pl EXCEPT ![s] = "flows"])) <= MaxFlows
<1>1. Held([pl EXCEPT ![s] = "flows"]) = Held(pl) \cup {s}
  BY DEF Held, Tables
<1>2. IsFiniteSet(Held(pl)) /\ Cardinality(Held(pl)) \in Nat
  BY SlotSets DEF Held
<1>3. Cardinality(Held(pl) \cup {s}) \in {Cardinality(Held(pl)), Cardinality(Held(pl)) + 1}
  BY <1>2, FS_AddElement
<1>4. Cardinality(Held(pl)) < MaxFlows
  BY <1>2, FlowTableAssumption DEF Full
<1>5. MaxFlows \in Nat
  BY FlowTableAssumption
<1>6. \A n, c, m \in Nat : n \in {c, c + 1} /\ c < m => n <= m
  OBVIOUS
<1>7. Cardinality(Held(pl) \cup {s}) \in Nat
  BY <1>2, <1>3
<1> QED BY <1>1, <1>2, <1>3, <1>4, <1>5, <1>6, <1>7

LEMMA FewerObjects ==
  ASSUME NEW A \in SUBSET Slot, NEW B \in SUBSET A
  PROVE  Cardinality(B) <= Cardinality(A)
  BY SlotSets, FS_Subset

(* The packet's own flow, and the one it quotes, are all that take changes; *)
(* quoting an error leaves a flow's key and its worth as they were.         *)
LEMMA MarkKeeps ==
  ASSUME NEW f \in Flow, NEW p
  PROVE  /\ disposable(markICMP(f, p)) = disposable(f)
         /\ markICMP(f, p).key = f.key
         /\ markICMP(f, p).Closed = f.Closed
         /\ markICMP(f, p).SYNSeen = f.SYNSeen
         /\ markICMP(f, p).SYNSeq = f.SYNSeq
<1>1. \A yes : refuse(f, yes) = [f EXCEPT !.refusals = IF yes /\ Inbound(f) THEN @ + 1 ELSE @]
  BY DEF refuse
<1>2. \A yes : LET g == refuse(f, yes) IN
        /\ g.key = f.key /\ g.Closed = f.Closed /\ g.SYNSeen = f.SYNSeen
        /\ g.SYNSeq = f.SYNSeq /\ g.TCPState = f.TCPState /\ g.SynAck = f.SynAck
        /\ g.Packets = f.Packets /\ g.RX = f.RX /\ g.TX = f.TX
  BY <1>1 DEF Flow
<1> QED BY <1>2 DEF markICMP, disposable

LEMMA ObserveKeeps ==
  ASSUME NEW f \in Flow, NEW p \in AnyPacket, now \in Nat
  PROVE  /\ observe(f, p).key = f.key
         /\ f.Closed => observe(f, p).Closed
         /\ f.SYNSeen => observe(f, p).SYNSeen
         /\ f.SYNSeen /\ ~priorGeneration(f, p) => observe(f, p).SYNSeq = f.SYNSeq
<1> DEFINE c == countPacket(f, p)
           g == observeStart(c, p)
           n == observeAnswer(g, p)
           h == observeClient(n, p)
<1>1. c \in Flow /\ g \in Flow /\ n \in Flow /\ h \in Flow
  BY CountType, StartType, AnswerType, ClientType
<1>2. /\ c.key = f.key /\ c.Closed = f.Closed
      /\ c.SYNSeen = f.SYNSeen /\ c.SYNSeq = f.SYNSeq
  BY DEF countPacket, Flow
<1> HIDE DEF c
<1>3. /\ g.key = c.key /\ g.Closed = c.Closed /\ (c.SYNSeen => g.SYNSeen)
      /\ g.SYNSeq = IF IsTCP(c) /\ p.flags = "SYN" THEN p.seq ELSE c.SYNSeq
  BY <1>1 DEF observeStart, Flow
<1> HIDE DEF g
<1>4. n.key = g.key /\ n.Closed = g.Closed /\ n.SYNSeen = g.SYNSeen /\ n.SYNSeq = g.SYNSeq
  BY <1>1 DEF observeAnswer, Flow
<1> HIDE DEF n
<1>5. h.key = g.key /\ h.Closed = g.Closed /\ h.SYNSeen = g.SYNSeen /\ h.SYNSeq = g.SYNSeq
  BY <1>1, <1>4 DEF observeClient, Flow
<1> HIDE DEF h
<1>6. LET r == refuse(h, refusedByReset(h, p)) IN
        r \in Flow /\ r.key = h.key /\ r.SYNSeen = h.SYNSeen /\ r.SYNSeq = h.SYNSeq
  BY <1>1 DEF refuse, Flow
<1>7. LET e == observeEnd(h, p) IN
        /\ e.key = h.key /\ (h.Closed => e.Closed)
        /\ e.SYNSeen = h.SYNSeen /\ e.SYNSeq = h.SYNSeq
  <2>1. CASE p.flags = "RST"
    BY <1>6, <2>1 DEF observeEnd, Flow
  <2>2. CASE p.flags = "FIN"
    BY <1>1, <2>2 DEF observeEnd, Flow
  <2> QED BY <2>1, <2>2 DEF observeEnd
<1>8. observe(f, p) = observeEnd(h, p)
  BY DEF observe, started, h, n, g, c
<1>9. f.SYNSeen /\ ~priorGeneration(f, p) /\ IsTCP(c) /\ p.flags = "SYN" => p.seq = f.SYNSeq
  BY <1>2 DEF priorGeneration, IsTCP
<1> QED BY <1>2, <1>3, <1>5, <1>7, <1>8, <1>9

LEMMA TakeStep ==
  ASSUME NEW pl \in Tables, NEW fl \in [Slot -> Flow], NEW a \in Summaries,
         NEW b \in BOOLEAN, NEW s \in Slot, NEW p \in AnyPacket, now \in Nat,
         take(pl, fl, a, b, s, p)
  PROVE  /\ place' = pl
         /\ flow' \in [Slot -> Flow]
         /\ attempts' \in Summaries
         /\ evictionBlocked' = (b /\ ~disposable(flow'[s]))
         /\ flow'[s] = observe(fl[s], p)
         /\ \A x \in Slot : x # s => flow'[x] \in {fl[x], markICMP(fl[x], p)}
         /\ \A x \in Slot : x # s /\ pl[x] # "flows" => flow'[x] = fl[x]
<1> DEFINE r == Indexed(pl, fl, p.quoted)
<1>1. /\ place' = pl
      /\ flow' = [x \in Slot |-> IF x = s THEN observe(fl[s], p)
                                 ELSE IF x \in r THEN markICMP(fl[x], p) ELSE fl[x]]
      /\ evictionBlocked' = unblockedBy(b, observe(fl[s], p))
  BY DEF take
<1>2. observe(fl[s], p) \in Flow /\ \A x \in Slot : markICMP(fl[x], p) \in Flow
  BY ObserveType, MarkType
<1>3. flow' \in [Slot -> Flow]
  BY <1>1, <1>2
<1>4. \/ attempts' = a
      \/ attempts' = noteRefused(a, started(fl[s], p))
      \/ \E x \in r : attempts' = noteRefused(a, fl[x])
  BY DEF take
<1>5. attempts' \in Summaries
  BY <1>4, RefusedType
<1>6. \A x \in Slot : pl[x] # "flows" => x \notin r
  BY DEF Indexed
<1> QED BY <1>1, <1>3, <1>5, <1>6 DEF unblockedBy

(***************************************************************************)
(* The inductive invariant.  BlockedMeansNoCandidate is inductive only     *)
(* because every action that can make an indexed flow disposable clears    *)
(* the flag; TableBound because a flow is created only below the bound and *)
(* retiring moves an object without adding one.                            *)
(***************************************************************************)
Inv == TypeOK /\ OneFlowPerKey /\ TableBound /\ BlockedMeansNoCandidate

LEMMA CaptureStep ==
  ASSUME TypeOK, NEW p \in AnyPacket, capture(p)
  PROVE  packets' \in 0..MaxPackets /\ rxBytes' \in Nat /\ txBytes' \in Nat /\ now' = now
<1>1. p.bytes \in Nat
  BY PacketFields
<1>2. packets \in 0..MaxPackets /\ rxBytes \in Nat /\ txBytes \in Nat /\ MaxPackets \in Nat
  BY FlowTableAssumption DEF TypeOK
<1>3. packets' \in 0..MaxPackets
  BY <1>2 DEF capture
<1>4. rxBytes' \in Nat /\ txBytes' \in Nat
  <2>1. rxBytes + p.bytes \in Nat /\ txBytes + p.bytes \in Nat
    BY <1>1, <1>2
  <2> QED BY <1>2, <2>1 DEF capture
<1> QED BY <1>3, <1>4 DEF capture

LEMMA NowType == TypeOK => now \in Nat /\ flow \in [Slot -> Flow] /\ place \in Tables /\ attempts \in Summaries
  BY FlowTableAssumption DEF TypeOK, Tables, Summaries

(* A table in which slot s is the only object to take a key stays a map, if *)
(* every other indexed object was indexed before under the same key.        *)
LEMMA StaysMap ==
  ASSUME OneFlowPerKey, NEW s \in Slot,
         \A x \in Slot \ {s} : place'[x] = "flows" =>
           place[x] = "flows" /\ flow'[x].key = flow[x].key /\ flow[x].key # flow'[s].key
  PROVE  OneFlowPerKey'
  BY DEF OneFlowPerKey

(* And no other indexed object becomes disposable. *)
LEMMA StaysBlocked ==
  ASSUME NEW s \in Slot, Candidates(place) = {},
         ~disposable(flow'[s]),
         \A x \in Slot \ {s} : place'[x] = "flows" =>
           place[x] = "flows" /\ disposable(flow'[x]) = disposable(flow[x])
  PROVE  Candidates(place)' = {}
  BY DEF Candidates

LEMMA PacketOnFlowStep ==
  ASSUME Inv, NEW k \in Key, NEW p \in Packet(k), PacketOnFlow(k, p)
  PROVE  Inv'
<1>1. p \in AnyPacket /\ now \in Nat /\ flow \in [Slot -> Flow] /\ place \in Tables
      /\ attempts \in Summaries /\ evictionBlocked \in BOOLEAN
  BY PacketIsAny, NowType DEF Inv, TypeOK
<1>2. PICK s \in Indexed(place, flow, k) : take(place, flow, attempts, evictionBlocked, s, p)
  BY DEF PacketOnFlow
<1>3. s \in Slot /\ place[s] = "flows" /\ flow[s].key = k
  BY <1>2 DEF Indexed
<1>4. /\ place' = place
      /\ flow' \in [Slot -> Flow]
      /\ attempts' \in Summaries
      /\ evictionBlocked' = (evictionBlocked /\ ~disposable(flow'[s]))
      /\ flow'[s] = observe(flow[s], p)
      /\ \A x \in Slot : x # s => flow'[x] \in {flow[x], markICMP(flow[x], p)}
  BY <1>1, <1>2, <1>3, TakeStep
<1>5. flow'[s].key = flow[s].key
  BY <1>1, <1>3, <1>4, ObserveKeeps
<1>6. \A x \in Slot : x # s => flow'[x].key = flow[x].key /\ disposable(flow'[x]) = disposable(flow[x])
  BY <1>1, <1>4, MarkKeeps
<1>7. TypeOK'
  BY <1>1, <1>4, CaptureStep DEF PacketOnFlow, TypeOK, Tables, Summaries, capture, Inv
<1>8. OneFlowPerKey'
  BY <1>3, <1>4, <1>5, <1>6 DEF OneFlowPerKey, Inv
<1>9. TableBound'
  BY <1>4 DEF TableBound, Held, Inv
<1>10. BlockedMeansNoCandidate'
  BY <1>3, <1>4, <1>6, StaysBlocked DEF BlockedMeansNoCandidate, Inv
<1> QED BY <1>7, <1>8, <1>9, <1>10 DEF Inv

(* Evicting, or not, after retiring some objects. *)
LEMMA RoomStep ==
  ASSUME Inv, NEW pl \in Tables, NEW E \in evict(pl),
         Held(pl) = Held(place), Candidates(pl) \subseteq Candidates(place),
         \A s \in Slot : pl[s] \in {place[s], "retired"},
         \A s \in Slot : place[s] # "flows" => pl[s] = place[s]
  PROVE  /\ E \in SUBSET Slot
         /\ removed(pl, E) \in Tables /\ blanked(E) \in [Slot -> Flow]
         /\ Held(removed(pl, E)) \subseteq Held(place)
         /\ \A s \in Slot : removed(pl, E)[s] = "flows" =>
                place[s] = "flows" /\ s \notin E /\ pl[s] = "flows" /\ blanked(E)[s] = flow[s]
         /\ \A s \in Slot : place[s] = "free" => removed(pl, E)[s] = "free"
         /\ blockedBy(pl) \in BOOLEAN
         /\ blockedBy(pl) => Candidates(pl) = {}
         /\ Full(removed(pl, E)) => blockedBy(pl) /\ E = {}
<1>1. now \in Nat /\ flow \in [Slot -> Flow] /\ place \in Tables /\ evictionBlocked \in BOOLEAN
  BY NowType DEF Inv, TypeOK
<1>2. E \in SUBSET Slot /\ (\A s \in E : pl[s] = "flows")
      /\ removed(pl, E) \in Tables /\ Held(removed(pl, E)) = Held(pl) \ E
  BY EvictTable
<1>3. blanked(E) \in [Slot -> Flow]
  BY <1>1, <1>2, RemovedTable
<1>4. blockedBy(pl) \in BOOLEAN
  BY <1>1 DEF blockedBy
<1>5. blockedBy(pl) => Candidates(pl) = {}
  BY DEF blockedBy, BlockedMeansNoCandidate, Inv
<1>6. ASSUME Full(removed(pl, E))
      PROVE  blockedBy(pl) /\ E = {}
  <2>1. Cardinality(Held(pl)) <= MaxFlows /\ IsFiniteSet(Held(pl)) /\ Cardinality(Held(pl)) \in Nat
    BY SlotSets DEF TableBound, Held, Inv
  <2>2. MaxFlows \in Nat /\ MaxFlows \div 10 + 1 \in Nat \ {0}
    BY FlowTableAssumption
  <2>3. Held(removed(pl, E)) \in SUBSET Held(pl) /\ Cardinality(Held(removed(pl, E))) \in Nat
    BY <1>2, SlotSets DEF Held
  <2>4. Full(pl)
    <3>1. Cardinality(Held(removed(pl, E))) <= Cardinality(Held(pl))
      BY <2>3, FewerObjects DEF Held
    <3> QED BY <1>6, <2>1, <2>2, <2>3, <3>1 DEF Full
  <2>5. CASE evictionBlocked
    BY <2>5 DEF blockedBy, evict
  <2>6. CASE ~evictionBlocked
    <3>1. E \in SUBSET Candidates(pl)
          /\ Cardinality(E) = Min({Cardinality(Candidates(pl)), MaxFlows \div 10 + 1})
      BY <2>4, <2>6 DEF evict
    <3>2. E = {}
      <4>1. SUFFICES ASSUME NEW e \in E PROVE FALSE
        OBVIOUS
      <4>2. e \in Held(pl) /\ e \notin Held(removed(pl, E))
        BY <1>2 DEF Held
      <4>3. Held(removed(pl, E)) \in SUBSET (Held(pl) \ {e})
        BY <2>3, <4>2
      <4>4. Cardinality(Held(pl) \ {e}) = Cardinality(Held(pl)) - 1
        BY <2>1, <4>2, FS_RemoveElement
      <4>5. Cardinality(Held(removed(pl, E))) <= Cardinality(Held(pl) \ {e})
        BY <4>3, FewerObjects DEF Held
      <4>6. Cardinality(Held(removed(pl, E))) >= MaxFlows
        BY <1>6 DEF Full
      <4> QED BY <2>1, <2>2, <2>3, <4>4, <4>5, <4>6
    <3>3. Candidates(pl) = {}
      <4>1. IsFiniteSet(Candidates(pl)) /\ Cardinality(Candidates(pl)) \in Nat
        BY SlotSets DEF Candidates
      <4>2. Cardinality(E) = 0
        BY <3>2, FS_EmptySet
      <4>3. \A m, n \in Nat : Min({m, n}) = 0 => m = 0 \/ n = 0
        <5>1. SUFFICES ASSUME NEW m \in Nat, NEW n \in Nat PROVE Min({m, n}) \in {m, n}
          OBVIOUS
        <5>2. \E x \in {m, n} : \A y \in {m, n} : x <= y
          <6>1. CASE m <= n
            BY <6>1
          <6>2. CASE n <= m
            BY <6>2
          <6> QED BY <6>1, <6>2
        <5> QED BY <5>2 DEF Min
      <4>4. Cardinality(Candidates(pl)) = 0
        BY <2>2, <3>1, <4>1, <4>2, <4>3
      <4> QED BY <4>1, <4>4, FS_EmptySet
    <3> QED BY <2>4, <3>2, <3>3 DEF blockedBy
  <2> QED BY <2>5, <2>6
<1>7. \A s \in Slot : removed(pl, E)[s] = "flows" =>
         place[s] = "flows" /\ s \notin E /\ pl[s] = "flows" /\ blanked(E)[s] = flow[s]
  BY DEF removed, blanked
<1>8. \A s \in Slot : place[s] = "free" => removed(pl, E)[s] = "free"
  BY DEF removed
<1> QED BY <1>2, <1>3, <1>4, <1>5, <1>6, <1>7, <1>8

LEMMA PacketNewFlowStep ==
  ASSUME Inv, NEW k \in Key, NEW p \in Packet(k), PacketNewFlow(k, p)
  PROVE  Inv'
<1> DEFINE pl == retire(k, p)
<1>1. p \in AnyPacket /\ now \in Nat /\ flow \in [Slot -> Flow] /\ place \in Tables
      /\ attempts \in Summaries
  BY PacketIsAny, NowType DEF Inv
<1>2. /\ pl \in Tables /\ Held(pl) = Held(place) /\ Candidates(pl) \subseteq Candidates(place)
      /\ \A s \in Slot : pl[s] \in {place[s], "retired"}
      /\ \A s \in Slot : place[s] # "flows" => pl[s] = place[s]
  BY <1>1, RetireTable
<1>3. PICK E \in evict(pl) :
        /\ ~Full(removed(pl, E))
        /\ \E a \in noteUnanswered(attempts, E), s \in Slot :
             /\ place[s] = "free"
             /\ take([removed(pl, E) EXCEPT ![s] = "flows"],
                     [blanked(E) EXCEPT ![s] = newFlow(k)], a, blockedBy(pl), s, p)
  BY DEF PacketNewFlow
<1>4. PICK a \in noteUnanswered(attempts, E), s \in Slot :
        /\ place[s] = "free"
        /\ take([removed(pl, E) EXCEPT ![s] = "flows"],
                [blanked(E) EXCEPT ![s] = newFlow(k)], a, blockedBy(pl), s, p)
  BY <1>3
<1> DEFINE pl2 == [removed(pl, E) EXCEPT ![s] = "flows"]
           fl2 == [blanked(E) EXCEPT ![s] = newFlow(k)]
<1>5. /\ E \in SUBSET Slot
      /\ removed(pl, E) \in Tables /\ blanked(E) \in [Slot -> Flow]
      /\ \A x \in Slot : removed(pl, E)[x] = "flows" =>
             place[x] = "flows" /\ pl[x] = "flows" /\ blanked(E)[x] = flow[x]
      /\ blockedBy(pl) \in BOOLEAN
      /\ blockedBy(pl) => Candidates(pl) = {}
  BY <1>2, RoomStep
<1>6. newFlow(k) \in Flow /\ newFlow(k).key = k
  <2>1. newFlow(k) \in Flow
    BY <1>1, CreatedType DEF End
  <2> QED BY <2>1 DEF newFlow, Blank
<1>7. pl2 \in Tables /\ fl2 \in [Slot -> Flow] /\ fl2[s] = newFlow(k)
  BY <1>5, <1>6 DEF Tables
<1>8. a \in Summaries
  BY <1>1, <1>5, UnansweredType
<1>9. /\ place' = pl2
      /\ flow' \in [Slot -> Flow]
      /\ attempts' \in Summaries
      /\ evictionBlocked' = (blockedBy(pl) /\ ~disposable(flow'[s]))
      /\ flow'[s] = observe(newFlow(k), p)
      /\ \A x \in Slot : x # s => flow'[x] \in {fl2[x], markICMP(fl2[x], p)}
  <2>1. take(pl2, fl2, a, blockedBy(pl), s, p)
    BY <1>4
  <2>2. s \in Slot /\ blockedBy(pl) \in BOOLEAN
    BY <1>5
  <2> HIDE DEF pl2, fl2, pl
  <2> QED BY <1>1, <1>7, <1>8, <2>1, <2>2, TakeStep
<1>10. flow'[s].key = k
  BY <1>1, <1>6, <1>9, ObserveKeeps
<1>11. \A x \in Slot \ {s} : place'[x] = "flows" =>
          /\ place[x] = "flows" /\ pl[x] = "flows"
          /\ flow'[x].key = flow[x].key
          /\ disposable(flow'[x]) = disposable(flow[x])
  BY <1>1, <1>5, <1>9, MarkKeeps
<1>12. TypeOK'
  BY <1>1, <1>7, <1>9, CaptureStep
  DEF PacketNewFlow, TypeOK, Tables, Summaries, capture, Inv
<1>13. OneFlowPerKey'
  <2>1. \A x \in Slot : pl[x] = "flows" => flow[x].key # k
    BY DEF PacketNewFlow, Indexed
  <2> QED BY <2>1, <1>10, <1>11, StaysMap DEF Inv
<1>14. TableBound'
  BY <1>3, <1>5, <1>9, RoomForOne DEF TableBound, Held
<1>15. BlockedMeansNoCandidate'
  <2>1. SUFFICES ASSUME evictionBlocked' PROVE Candidates(place)' = {}
    BY DEF BlockedMeansNoCandidate
  <2>2. Candidates(pl) = {} /\ ~disposable(flow'[s])
    BY <2>1, <1>5, <1>9
  <2>3. \A x \in Slot : pl[x] = "flows" => ~disposable(flow[x])
    BY <2>2 DEF Candidates
  <2> QED BY <2>2, <2>3, <1>11 DEF Candidates
<1> QED BY <1>12, <1>13, <1>14, <1>15 DEF Inv

(* A step that evicts and creates nothing. *)
LEMMA NoFlowStep ==
  ASSUME Inv, NEW pl \in Tables, NEW E \in evict(pl),
         Held(pl) = Held(place), Candidates(pl) \subseteq Candidates(place),
         \A s \in Slot : pl[s] \in {place[s], "retired"},
         \A s \in Slot : place[s] # "flows" => pl[s] = place[s],
         attempts' \in noteUnanswered(attempts, E),
         place' = removed(pl, E), flow' = blanked(E), evictionBlocked' = blockedBy(pl)
  PROVE  /\ place' \in Tables /\ flow' \in [Slot -> Flow]
         /\ evictionBlocked' \in BOOLEAN /\ attempts' \in Summaries
         /\ OneFlowPerKey' /\ TableBound' /\ BlockedMeansNoCandidate'
<1>1. now \in Nat /\ attempts \in Summaries /\ place \in Tables
  BY NowType DEF Inv
<1>2. /\ E \in SUBSET Slot
      /\ removed(pl, E) \in Tables /\ blanked(E) \in [Slot -> Flow]
      /\ Held(removed(pl, E)) \subseteq Held(place)
      /\ \A x \in Slot : removed(pl, E)[x] = "flows" =>
             place[x] = "flows" /\ pl[x] = "flows" /\ blanked(E)[x] = flow[x]
      /\ blockedBy(pl) \in BOOLEAN
      /\ blockedBy(pl) => Candidates(pl) = {}
  BY RoomStep
<1>3. attempts' \in Summaries
  BY <1>1, <1>2, UnansweredType
<1>4. OneFlowPerKey'
  BY <1>2 DEF OneFlowPerKey, Inv
<1>5. TableBound'
  <2>1. Held(place') \in SUBSET Held(place) /\ Held(place) \in SUBSET Slot
    BY <1>2 DEF Held
  <2>2. Cardinality(Held(place')) <= Cardinality(Held(place))
    BY <2>1, FewerObjects
  <2>3. Cardinality(Held(place)) <= MaxFlows /\ MaxFlows \in Nat
        /\ Cardinality(Held(place)) \in Nat /\ Cardinality(Held(place')) \in Nat
    BY <2>1, SlotSets, FlowTableAssumption DEF TableBound, Inv
  <2>4. Cardinality(Held(place')) <= MaxFlows
    BY <2>2, <2>3
  <2> QED BY <2>4 DEF TableBound, Held
<1>6. BlockedMeansNoCandidate'
  BY <1>2 DEF BlockedMeansNoCandidate, Candidates
<1> QED BY <1>2, <1>3, <1>4, <1>5, <1>6

LEMMA PacketUnindexedStep ==
  ASSUME Inv, NEW k \in Key, NEW p \in Packet(k), PacketUnindexed(k, p)
  PROVE  Inv'
<1> DEFINE pl == retire(k, p)
<1>1. p \in AnyPacket /\ place \in Tables
  BY PacketIsAny, NowType DEF Inv
<1>2. /\ pl \in Tables /\ Held(pl) = Held(place) /\ Candidates(pl) \subseteq Candidates(place)
      /\ \A s \in Slot : pl[s] \in {place[s], "retired"}
      /\ \A s \in Slot : place[s] # "flows" => pl[s] = place[s]
  BY <1>1, RetireTable
<1>3. PICK E \in evict(pl) :
        /\ attempts' \in noteUnanswered(attempts, E)
        /\ place' = removed(pl, E) /\ flow' = blanked(E) /\ evictionBlocked' = blockedBy(pl)
  BY DEF PacketUnindexed
<1>4. /\ place' \in Tables /\ flow' \in [Slot -> Flow]
      /\ evictionBlocked' \in BOOLEAN /\ attempts' \in Summaries
      /\ OneFlowPerKey' /\ TableBound' /\ BlockedMeansNoCandidate'
  <2> HIDE DEF pl
  <2> QED BY <1>2, <1>3, NoFlowStep
<1>5. packets' \in 0..MaxPackets /\ rxBytes' \in Nat /\ txBytes' \in Nat /\ now' = now
  BY <1>1, CaptureStep DEF PacketUnindexed, Inv
<1>6. unindexedRX' \in Nat /\ unindexedTX' \in Nat /\ droppedFlow' \in Nat
  <2>1. unindexedRX + p.bytes \in Nat /\ unindexedTX + p.bytes \in Nat
        /\ unindexedRX \in Nat /\ unindexedTX \in Nat /\ droppedFlow + 1 \in Nat
    BY <1>1, PacketFields DEF Inv, TypeOK
  <2> QED BY <2>1 DEF PacketUnindexed
<1>7. TypeOK'
  BY <1>4, <1>5, <1>6 DEF TypeOK, Tables, Summaries, Inv
<1> QED BY <1>4, <1>7 DEF Inv

LEMMA ConnectResultOnFlowStep ==
  ASSUME Inv, NEW k \in TCPKey, NEW failed \in BOOLEAN, ConnectResultOnFlow(k, failed)
  PROVE  Inv'
<1>1. now \in Nat /\ flow \in [Slot -> Flow] /\ evictionBlocked \in BOOLEAN
  BY NowType DEF Inv, TypeOK
<1>2. PICK s \in Indexed(place, flow, k) :
        /\ flow' = [flow EXCEPT ![s] = withResult(@, failed)]
        /\ evictionBlocked' = unblockedBy(evictionBlocked, withResult(flow[s], failed))
  BY DEF ConnectResultOnFlow
<1>3. s \in Slot /\ place[s] = "flows"
  BY <1>2 DEF Indexed
<1>4. withResult(flow[s], failed) \in Flow /\ withResult(flow[s], failed).key = flow[s].key
  <2>1. flow[s] \in Flow
    BY <1>1, <1>3
  <2> QED BY <1>1, <2>1 DEF withResult, Flow
<1>5. /\ flow' \in [Slot -> Flow] /\ flow'[s] = withResult(flow[s], failed)
      /\ flow'[s].key = flow[s].key
      /\ \A x \in Slot : x # s => flow'[x] = flow[x]
      /\ evictionBlocked' = (evictionBlocked /\ ~disposable(flow'[s]))
  BY <1>1, <1>2, <1>3, <1>4 DEF unblockedBy
<1>6. TypeOK'
  BY <1>1, <1>5 DEF ConnectResultOnFlow, TypeOK, counters, Inv
<1>7. OneFlowPerKey' /\ TableBound'
  BY <1>5 DEF ConnectResultOnFlow, OneFlowPerKey, TableBound, Held, Inv
<1>8. BlockedMeansNoCandidate'
  BY <1>5, StaysBlocked, <1>3 DEF ConnectResultOnFlow, BlockedMeansNoCandidate, Inv
<1> QED BY <1>6, <1>7, <1>8 DEF Inv

LEMMA ConnectResultNewFlowStep ==
  ASSUME Inv, NEW k \in TCPKey, NEW failed \in BOOLEAN, ConnectResultNewFlow(k, failed)
  PROVE  Inv'
<1> DEFINE pl == staleRetired(k)
           f == withResult(probeFlow(k), failed)
<1>1. place \in Tables /\ now \in Nat /\ attempts \in Summaries
  BY NowType DEF Inv
<1>2. /\ pl \in Tables /\ Held(pl) = Held(place) /\ Candidates(pl) \subseteq Candidates(place)
      /\ \A s \in Slot : pl[s] \in {place[s], "retired"}
      /\ \A s \in Slot : place[s] # "flows" => pl[s] = place[s]
  BY <1>1, RetireTable
<1>3. PICK E \in evict(pl) :
        /\ attempts' \in noteUnanswered(attempts, E)
        /\ \/ /\ place' = removed(pl, E) /\ flow' = blanked(E) /\ evictionBlocked' = blockedBy(pl)
           \/ /\ ~Full(removed(pl, E))
              /\ \E s \in Slot :
                   /\ place' = [removed(pl, E) EXCEPT ![s] = "flows"]
                   /\ flow' = [blanked(E) EXCEPT ![s] = f]
              /\ evictionBlocked' = unblockedBy(blockedBy(pl), f)
  BY DEF ConnectResultNewFlow
<1>4. CASE /\ place' = removed(pl, E) /\ flow' = blanked(E) /\ evictionBlocked' = blockedBy(pl)
  <2>1. /\ place' \in Tables /\ flow' \in [Slot -> Flow]
        /\ evictionBlocked' \in BOOLEAN /\ attempts' \in Summaries
        /\ OneFlowPerKey' /\ TableBound' /\ BlockedMeansNoCandidate'
    <3> HIDE DEF pl
    <3> QED BY <1>2, <1>3, <1>4, NoFlowStep
  <2>2. TypeOK'
    BY <2>1 DEF ConnectResultNewFlow, TypeOK, Tables, Summaries, Inv
  <2> QED BY <2>1, <2>2 DEF Inv
<1>5. ASSUME ~Full(removed(pl, E)), NEW s \in Slot,
             place' = [removed(pl, E) EXCEPT ![s] = "flows"],
             flow' = [blanked(E) EXCEPT ![s] = f],
             evictionBlocked' = unblockedBy(blockedBy(pl), f)
      PROVE  Inv'
  <2>1. /\ E \in SUBSET Slot
        /\ removed(pl, E) \in Tables /\ blanked(E) \in [Slot -> Flow]
        /\ \A x \in Slot : removed(pl, E)[x] = "flows" =>
               place[x] = "flows" /\ pl[x] = "flows" /\ blanked(E)[x] = flow[x]
        /\ blockedBy(pl) \in BOOLEAN
        /\ blockedBy(pl) => Candidates(pl) = {}
    <3> HIDE DEF pl
    <3> QED BY <1>2, RoomStep
  <2>2. f \in Flow /\ f.key = k
    <3>1. k \in Key /\ "local" \in End
      BY DEF Key, End
    <3>2. f \in Flow
      BY <1>1, <3>1, CreatedType
    <3>3. probeFlow(k).key = k
      BY DEF probeFlow, Blank
    <3> QED BY <3>2, <3>3 DEF withResult
  <2>3. place' \in Tables /\ flow' \in [Slot -> Flow] /\ flow'[s] = f
        /\ \A x \in Slot \ {s} : place'[x] = "flows" =>
              place[x] = "flows" /\ pl[x] = "flows" /\ flow'[x] = flow[x]
    BY <1>5, <2>1, <2>2 DEF Tables
  <2>4. TypeOK'
    <3>1. attempts' \in Summaries
      BY <1>1, <1>3, <2>1, UnansweredType
    <3>2. evictionBlocked' \in BOOLEAN
      BY <1>5, <2>1 DEF unblockedBy
    <3> QED BY <2>3, <3>1, <3>2 DEF ConnectResultNewFlow, TypeOK, Tables, Summaries, Inv
  <2>5. OneFlowPerKey'
    <3>1. \A x \in Slot : pl[x] = "flows" => flow[x].key # k
      BY DEF ConnectResultNewFlow, Indexed
    <3> QED BY <2>2, <2>3, <3>1, StaysMap DEF Inv
  <2>6. TableBound'
    BY <1>5, <2>1, RoomForOne DEF TableBound, Held
  <2>7. BlockedMeansNoCandidate'
    <3>1. evictionBlocked' => ~disposable(flow'[s]) /\ Candidates(pl) = {}
      BY <1>5, <2>1, <2>3 DEF unblockedBy
    <3>2. Candidates(pl) = {} => \A x \in Slot : pl[x] = "flows" => ~disposable(flow[x])
      BY DEF Candidates
    <3> QED BY <2>3, <3>1, <3>2 DEF BlockedMeansNoCandidate, Candidates
  <2> QED BY <2>4, <2>5, <2>6, <2>7 DEF Inv
<1> QED BY <1>3, <1>4, <1>5

LEMMA RecordDropOnFlowStep ==
  ASSUME Inv, NEW k \in Key, RecordDropOnFlow(k)
  PROVE  Inv'
<1>1. now \in Nat /\ flow \in [Slot -> Flow]
  BY NowType DEF Inv
<1>2. PICK s \in Slot : flow' = [flow EXCEPT ![s].Last = now]
  BY DEF RecordDropOnFlow, Indexed
<1>3. /\ flow' \in [Slot -> Flow]
      /\ \A x \in Slot : flow'[x].key = flow[x].key /\ disposable(flow'[x]) = disposable(flow[x])
  <2>1. flow[s] \in Flow
    BY <1>1
  <2>2. [flow[s] EXCEPT !.Last = now] \in Flow
        /\ [flow[s] EXCEPT !.Last = now].key = flow[s].key
        /\ disposable([flow[s] EXCEPT !.Last = now]) = disposable(flow[s])
    BY <1>1, <2>1 DEF Flow, disposable
  <2>3. flow' = [flow EXCEPT ![s] = [flow[s] EXCEPT !.Last = now]]
    BY <1>2
  <2> QED BY <1>1, <2>2, <2>3
<1>4. TypeOK'
  BY <1>3 DEF RecordDropOnFlow, TypeOK, counters, Inv
<1> QED BY <1>3, <1>4
  DEF RecordDropOnFlow, OneFlowPerKey, TableBound, Held, BlockedMeansNoCandidate, Candidates, Inv

(* Naming the initiator of a flow leaves its key, its end and its worth.   *)
LEMMA NamingKeeps ==
  ASSUME NEW f \in Flow, NEW i \in End, NEW g \in {withRole(f, i), withInventory(f, i)}
  PROVE  /\ g \in Flow
         /\ disposable(g) = disposable(f)
         /\ g.key = f.key /\ g.Closed = f.Closed
         /\ g.SYNSeen = f.SYNSeen /\ g.SYNSeq = f.SYNSeq
<1>1. i # "none"
  BY DEF End
<1>2. CASE g = withRole(f, i)
  BY <1>1, <1>2 DEF withRole, Flow, Directions, disposable
<1>3. CASE g = withInventory(f, i)
  BY <1>1, <1>3 DEF withInventory, Flow, Directions, disposable
<1> QED BY <1>2, <1>3

(* What the two handlers that name initiators do to the table. *)
LEMMA NamingStep ==
  ASSUME TypeOK,
         \/ \E k \in TCPKey, i \in End : SocketEventOnFlow(k, i)
         \/ ApplySocketInventory
  PROVE  /\ UNCHANGED <<place, evictionBlocked, attempts, counters, now>>
         /\ flow' \in [Slot -> Flow]
         /\ \A x \in Slot :
              /\ place[x] # "flows" => flow'[x] = flow[x]
              /\ disposable(flow'[x]) = disposable(flow[x])
              /\ flow'[x].key = flow[x].key /\ flow'[x].Closed = flow[x].Closed
              /\ flow'[x].SYNSeen = flow[x].SYNSeen /\ flow'[x].SYNSeq = flow[x].SYNSeq
<1>1. flow \in [Slot -> Flow]
  BY DEF TypeOK
<1>2. UNCHANGED <<place, evictionBlocked, attempts, counters, now>>
  BY DEF SocketEventOnFlow, ApplySocketInventory
<1>3. /\ flow' = [x \in Slot |-> flow'[x]]
      /\ \A x \in Slot : \/ flow'[x] = flow[x]
                         \/ /\ place[x] = "flows"
                            /\ \E i \in End : flow'[x] \in {withRole(flow[x], i), withInventory(flow[x], i)}
  <2>1. CASE \E k \in TCPKey, i \in End : SocketEventOnFlow(k, i)
    <3>1. PICK i \in End, s \in Slot :
            place[s] = "flows" /\ flow' = [flow EXCEPT ![s] = withRole(@, i)]
      BY <2>1 DEF SocketEventOnFlow, Indexed
    <3> QED BY <1>1, <3>1
  <2>2. CASE ApplySocketInventory
    <3>1. PICK i \in [uninitiated -> End \cup {"none"}] :
            flow' = [s \in Slot |-> IF s \in uninitiated THEN withInventory(flow[s], i[s])
                                    ELSE flow[s]]
      BY <2>2 DEF ApplySocketInventory
    <3>2. \A s \in uninitiated : place[s] = "flows" /\ i[s] \in End \cup {"none"}
      BY DEF uninitiated
    <3>3. \A s \in Slot : i[s] = "none" => withInventory(flow[s], i[s]) = flow[s]
      BY DEF withInventory
    <3> QED BY <3>1, <3>2, <3>3
  <2> QED BY <2>1, <2>2
<1>4. \A x \in Slot : /\ flow'[x] \in Flow
                      /\ disposable(flow'[x]) = disposable(flow[x])
                      /\ flow'[x].key = flow[x].key /\ flow'[x].Closed = flow[x].Closed
                      /\ flow'[x].SYNSeen = flow[x].SYNSeen /\ flow'[x].SYNSeq = flow[x].SYNSeq
  <2> TAKE x \in Slot
  <2>1. flow[x] \in Flow
    BY <1>1
  <2>2. CASE flow'[x] = flow[x]
    BY <2>1, <2>2
  <2>3. CASE flow'[x] # flow[x]
    BY <1>3, <2>1, <2>3, NamingKeeps
  <2> QED BY <2>2, <2>3
<1>5. flow' \in [Slot -> Flow]
  BY <1>3, <1>4
<1>6. \A x \in Slot : place[x] # "flows" => flow'[x] = flow[x]
  BY <1>3
<1> QED BY <1>2, <1>4, <1>5, <1>6

LEMMA NamingInv ==
  ASSUME Inv,
         \/ \E k \in TCPKey, i \in End : SocketEventOnFlow(k, i)
         \/ ApplySocketInventory
  PROVE  Inv'
<1>1. TypeOK
  BY DEF Inv
<1>2. /\ UNCHANGED <<place, evictionBlocked, attempts, counters, now>>
      /\ flow' \in [Slot -> Flow]
      /\ \A x \in Slot : disposable(flow'[x]) = disposable(flow[x]) /\ flow'[x].key = flow[x].key
  BY <1>1, NamingStep
<1>3. TypeOK'
  BY <1>1, <1>2 DEF TypeOK, counters
<1> QED BY <1>2, <1>3
  DEF OneFlowPerKey, TableBound, Held, BlockedMeansNoCandidate, Candidates, Inv

LEMMA RecordDropNewFlowStep ==
  ASSUME Inv, NEW k \in Key, NEW src \in End, RecordDropNewFlow(k, src)
  PROVE  Inv'
<1> DEFINE f == droppedPacketFlow(k, src)
<1>1. place \in Tables /\ now \in Nat /\ flow \in [Slot -> Flow] /\ evictionBlocked \in BOOLEAN
  BY NowType DEF Inv, TypeOK
<1>2. PICK s \in Slot : /\ place[s] = "free"
                        /\ place' = [place EXCEPT ![s] = "flows"]
                        /\ flow' = [flow EXCEPT ![s] = f]
  BY DEF RecordDropNewFlow
<1>3. f \in Flow /\ f.key = k
  <2>1. f \in Flow
    BY <1>1, CreatedType
  <2> QED BY <2>1 DEF droppedPacketFlow, newFlow, Blank
<1>4. place' \in Tables /\ flow' \in [Slot -> Flow] /\ flow'[s] = f
      /\ \A x \in Slot \ {s} : place'[x] = place[x] /\ flow'[x] = flow[x]
  BY <1>1, <1>2, <1>3 DEF Tables
<1>5. evictionBlocked' = (evictionBlocked /\ ~disposable(flow'[s]))
  BY <1>4 DEF RecordDropNewFlow, unblockedBy
<1>6. TypeOK'
  BY <1>1, <1>4, <1>5 DEF RecordDropNewFlow, TypeOK, Tables, counters, Inv
<1>7. OneFlowPerKey'
  <2>1. \A x \in Slot : place[x] = "flows" => flow[x].key # k
    BY DEF RecordDropNewFlow, Indexed
  <2> QED BY <1>3, <1>4, <2>1, StaysMap DEF Inv
<1>8. TableBound'
  BY <1>1, <1>2, RoomForOne DEF RecordDropNewFlow, TableBound, Held
<1>9. BlockedMeansNoCandidate'
  BY <1>4, <1>5 DEF BlockedMeansNoCandidate, Candidates, Inv
<1> QED BY <1>6, <1>7, <1>8, <1>9 DEF Inv

LEMMA ExpireStep ==
  ASSUME Inv, Expire
  PROVE  Inv'
<1>1. place \in Tables /\ now \in Nat /\ flow \in [Slot -> Flow] /\ attempts \in Summaries
  BY NowType DEF Inv
<1>2. idle \in SUBSET Slot
  BY DEF idle
<1>3. place' \in Tables /\ Held(place') \subseteq Held(place) /\ flow' \in [Slot -> Flow]
  BY <1>1, <1>2, RemovedTable DEF Expire
<1>4. currentAttempts \in Summaries
  BY <1>1 DEF currentAttempts, Summaries, Summary, NoSummary
<1>5. attempts' \in Summaries
  BY <1>1, <1>2, <1>4, UnansweredType DEF Expire
<1>6. \A x \in Slot : place'[x] = "flows" => place[x] = "flows" /\ flow'[x] = flow[x]
  BY DEF Expire, removed, blanked
<1>7. TypeOK'
  BY <1>3, <1>5 DEF Expire, TypeOK, Tables, Summaries, Inv
<1>8. OneFlowPerKey' /\ BlockedMeansNoCandidate'
  BY <1>6 DEF Expire, OneFlowPerKey, BlockedMeansNoCandidate, Candidates, Inv
<1>9. TableBound'
  <2>1. Held(place') \in SUBSET Held(place) /\ Held(place) \in SUBSET Slot
    BY <1>3 DEF Held
  <2>2. Cardinality(Held(place')) <= Cardinality(Held(place))
    BY <2>1, FewerObjects
  <2>3. Cardinality(Held(place)) <= MaxFlows /\ MaxFlows \in Nat
        /\ Cardinality(Held(place)) \in Nat /\ Cardinality(Held(place')) \in Nat
    BY <2>1, SlotSets, FlowTableAssumption DEF TableBound, Inv
  <2>4. Cardinality(Held(place')) <= MaxFlows
    BY <2>2, <2>3
  <2> QED BY <2>4 DEF TableBound, Held
<1> QED BY <1>7, <1>8, <1>9 DEF Inv

LEMMA StutterStep == Inv /\ UNCHANGED vars => Inv'
<1> SUFFICES ASSUME Inv, UNCHANGED vars PROVE Inv'
  OBVIOUS
<1>1. UNCHANGED <<place, flow, evictionBlocked, attempts, packets, rxBytes, txBytes,
                  unindexedRX, unindexedTX, droppedFlow, now>>
  BY DEF vars, table, counters
<1> QED BY <1>1 DEF Inv, TypeOK, OneFlowPerKey, TableBound, Held, BlockedMeansNoCandidate, Candidates

LEMMA TickStep == ASSUME Inv, Tick PROVE Inv'
<1>1. UNCHANGED <<place, flow, evictionBlocked, attempts, packets, rxBytes, txBytes,
                  unindexedRX, unindexedTX, droppedFlow>>
  BY DEF Tick, table, counters
<1>2. now' \in 0..MaxNow
  BY FlowTableAssumption DEF Tick, TypeOK, Inv
<1> QED BY <1>1, <1>2 DEF Inv, TypeOK, OneFlowPerKey, TableBound, Held, BlockedMeansNoCandidate, Candidates

LEMMA InitInv == Init => Inv
<1> SUFFICES ASSUME Init PROVE Inv
  OBVIOUS
<1>1. Blank \in Flow /\ NoSummary \in Summary
  BY FlowTableAssumption DEF Blank, Flow, States, Directions, NoSummary, Summary
<1>2. TypeOK
  <2>1. 0 \in 0..MaxPackets /\ 0 \in 0..MaxNow
    BY FlowTableAssumption
  <2>2. /\ place \in [Slot -> {"free", "flows", "retired"}]
        /\ flow \in [Slot -> Flow] /\ attempts \in [Addr -> Summary]
    BY <1>1 DEF Init
  <2> QED BY <2>1, <2>2 DEF Init, TypeOK
<1>3. Held(place) = {}
  BY DEF Init, Held
<1>4. TableBound
  BY <1>3, FS_EmptySet, FlowTableAssumption DEF TableBound
<1> QED BY <1>2, <1>4 DEF Init, Inv, OneFlowPerKey, BlockedMeansNoCandidate

LEMMA NextInv == Inv /\ [Next]_vars => Inv'
<1> SUFFICES ASSUME Inv, [Next]_vars PROVE Inv'
  OBVIOUS
<1>1. ASSUME NEW k \in Key, NEW p \in Packet(k), PacketOnFlow(k, p) PROVE Inv'
  BY <1>1, PacketOnFlowStep
<1>2. ASSUME NEW k \in Key, NEW p \in Packet(k), PacketNewFlow(k, p) PROVE Inv'
  BY <1>2, PacketNewFlowStep
<1>3. ASSUME NEW k \in Key, NEW p \in Packet(k), PacketUnindexed(k, p) PROVE Inv'
  BY <1>3, PacketUnindexedStep
<1>4. ASSUME NEW k \in TCPKey, NEW failed \in BOOLEAN, ConnectResultOnFlow(k, failed) PROVE Inv'
  BY <1>4, ConnectResultOnFlowStep
<1>5. ASSUME NEW k \in TCPKey, NEW failed \in BOOLEAN, ConnectResultNewFlow(k, failed) PROVE Inv'
  BY <1>5, ConnectResultNewFlowStep
<1>6. ASSUME NEW k \in TCPKey \cup UDPKey, RecordDropOnFlow(k) PROVE Inv'
  BY <1>6, RecordDropOnFlowStep DEF Key
<1>7. ASSUME NEW k \in TCPKey \cup UDPKey, NEW src \in End, RecordDropNewFlow(k, src) PROVE Inv'
  BY <1>7, RecordDropNewFlowStep DEF Key
<1>8. CASE Expire
  BY <1>8, ExpireStep
<1>9. CASE Tick
  BY <1>9, TickStep
<1>10. CASE UNCHANGED vars
  BY <1>10, StutterStep
<1>11. CASE (\E k \in TCPKey, i \in End : SocketEventOnFlow(k, i)) \/ ApplySocketInventory
  BY <1>11, NamingInv
<1> QED BY <1>1, <1>2, <1>3, <1>4, <1>5, <1>6, <1>7, <1>8, <1>9, <1>10, <1>11 DEF Next

(* The invariant holds of every behaviour of the flow table. *)
THEOREM Invariance == Spec => []Inv
  BY InitInv, NextInv, PTL DEF Spec

(* Every variable keeps its type (the state of packetAt, evict and expire). *)
THEOREM TypeCorrect == Spec => []TypeOK
<1>1. Inv => TypeOK
  BY DEF Inv
<1> QED BY Invariance, <1>1, PTL

(* c.flows is a map across retiring and recreating a reused five-tuple. *)
THEOREM MapCorrect == Spec => []OneFlowPerKey
<1>1. Inv => OneFlowPerKey
  BY DEF Inv
<1> QED BY Invariance, <1>1, PTL

(* Indexed and retired flows together never exceed maxFlows, for every     *)
(* maxFlows: no path of packetAt, connectResult or recordDrop outgrows it. *)
THEOREM TableBounded == Spec => []TableBound
<1>1. Inv => TableBound
  BY DEF Inv
<1> QED BY Invariance, <1>1, PTL

(* evictionBlocked is never stale: while it is set, no indexed flow could  *)
(* be evicted.                                                             *)
THEOREM FlagCorrect == Spec => []BlockedMeansNoCandidate
<1>1. Inv => BlockedMeansNoCandidate
  BY DEF Inv
<1> QED BY Invariance, <1>1, PTL

(* A packet goes unindexed only when no indexed flow is disposable. *)
LEMMA DropStep ==
  ASSUME Inv, NEW k \in Key, NEW p \in Packet(k), PacketUnindexed(k, p)
  PROVE  Candidates(place') = {}
<1> DEFINE pl == retire(k, p)
<1>1. place \in Tables
  BY NowType DEF Inv
<1>2. /\ pl \in Tables /\ Held(pl) = Held(place) /\ Candidates(pl) \subseteq Candidates(place)
      /\ \A s \in Slot : pl[s] \in {place[s], "retired"}
      /\ \A s \in Slot : place[s] # "flows" => pl[s] = place[s]
  BY <1>1, RetireTable
<1>3. PICK E \in evict(pl) : Full(removed(pl, E)) /\ place' = removed(pl, E)
  BY DEF PacketUnindexed
<1>4. blockedBy(pl) => Candidates(pl) = {}
  <2> HIDE DEF pl
  <2> QED BY <1>2, <1>3, RoomStep
<1>5. blockedBy(pl)
  <2> HIDE DEF pl
  <2> QED BY <1>2, <1>3, RoomStep
<1>6. Candidates(removed(pl, E)) \subseteq Candidates(pl)
  BY DEF Candidates, removed
<1> QED BY <1>3, <1>4, <1>5, <1>6

THEOREM DropsJustified == Spec => DropsOnlyWithoutCandidates
<1>1. Inv /\ [Next]_vars => [droppedFlow' > droppedFlow => Candidates(place') = {}]_vars
  <2> SUFFICES ASSUME Inv, Next, droppedFlow' > droppedFlow
               PROVE  Candidates(place') = {}
    OBVIOUS
  <2>1. droppedFlow \in Nat
    BY DEF Inv, TypeOK
  <2>2. droppedFlow' # droppedFlow
    BY <2>1
  <2>3. \E k \in Key : \E p \in Packet(k) : PacketUnindexed(k, p)
    BY <2>2 DEF Next, PacketOnFlow, PacketNewFlow, ConnectResultOnFlow, ConnectResultNewFlow,
                RecordDropOnFlow, RecordDropNewFlow, SocketEventOnFlow, ApplySocketInventory,
                Expire, Tick, counters
  <2> QED BY <2>3, DropStep
<1> QED BY Invariance, <1>1, PTL DEF Spec, DropsOnlyWithoutCandidates

(***************************************************************************)
(* Generations: what a step may do to a flow that stays in the table.      *)
(***************************************************************************)
SameConnection(s) ==
  /\ place[s] = "flows" /\ place'[s] # "free" =>
       /\ flow'[s].key = flow[s].key
       /\ flow[s].SYNSeen => flow'[s].SYNSeen /\ flow'[s].SYNSeq = flow[s].SYNSeq
       /\ flow[s].Closed => flow'[s].Closed
  /\ place[s] = "retired" =>
       place'[s] = "free" \/ (place'[s] = "retired" /\ flow'[s] = flow[s])

LEMMA UntouchedConnection ==
  ASSUME NEW s \in Slot, flow'[s] = flow[s], place'[s] \in {place[s], "retired", "free"}
  PROVE  SameConnection(s)
  BY DEF SameConnection

LEMMA PacketOnFlowConnection ==
  ASSUME Inv, NEW k \in Key, NEW p \in Packet(k), PacketOnFlow(k, p), NEW x \in Slot
  PROVE  SameConnection(x)
<1>1. p \in AnyPacket /\ now \in Nat /\ flow \in [Slot -> Flow] /\ place \in Tables
      /\ attempts \in Summaries /\ evictionBlocked \in BOOLEAN
  BY PacketIsAny, NowType DEF Inv, TypeOK
<1>2. PICK s \in Indexed(place, flow, k) :
        ~priorGeneration(flow[s], p) /\ take(place, flow, attempts, evictionBlocked, s, p)
  BY DEF PacketOnFlow
<1>3. s \in Slot /\ place[s] = "flows"
  BY <1>2 DEF Indexed
<1>4. /\ place' = place
      /\ flow'[s] = observe(flow[s], p)
      /\ \A y \in Slot : y # s => flow'[y] \in {flow[y], markICMP(flow[y], p)}
      /\ \A y \in Slot : y # s /\ place[y] # "flows" => flow'[y] = flow[y]
  BY <1>1, <1>2, <1>3, TakeStep
<1>5. CASE x = s
  BY <1>1, <1>2, <1>3, <1>4, <1>5, ObserveKeeps DEF SameConnection
<1>6. CASE x # s
  BY <1>1, <1>4, <1>6, MarkKeeps DEF SameConnection
<1> QED BY <1>5, <1>6

LEMMA PacketNewFlowConnection ==
  ASSUME Inv, NEW k \in Key, NEW p \in Packet(k), PacketNewFlow(k, p), NEW x \in Slot
  PROVE  SameConnection(x)
<1> DEFINE pl == retire(k, p)
<1>1. p \in AnyPacket /\ now \in Nat /\ flow \in [Slot -> Flow] /\ place \in Tables
      /\ attempts \in Summaries
  BY PacketIsAny, NowType DEF Inv
<1>2. /\ pl \in Tables /\ Held(pl) = Held(place) /\ Candidates(pl) \subseteq Candidates(place)
      /\ \A s \in Slot : pl[s] \in {place[s], "retired"}
      /\ \A s \in Slot : place[s] # "flows" => pl[s] = place[s]
  BY <1>1, RetireTable
<1>3. PICK E \in evict(pl) :
         \E a \in noteUnanswered(attempts, E), s \in Slot :
           /\ place[s] = "free"
           /\ take([removed(pl, E) EXCEPT ![s] = "flows"],
                   [blanked(E) EXCEPT ![s] = newFlow(k)], a, blockedBy(pl), s, p)
  BY DEF PacketNewFlow
<1>4. PICK a \in noteUnanswered(attempts, E), s \in Slot :
        /\ place[s] = "free"
        /\ take([removed(pl, E) EXCEPT ![s] = "flows"],
                [blanked(E) EXCEPT ![s] = newFlow(k)], a, blockedBy(pl), s, p)
  BY <1>3
<1> DEFINE pl2 == [removed(pl, E) EXCEPT ![s] = "flows"]
           fl2 == [blanked(E) EXCEPT ![s] = newFlow(k)]
<1>5. /\ E \in SUBSET Slot /\ removed(pl, E) \in Tables /\ blanked(E) \in [Slot -> Flow]
      /\ blockedBy(pl) \in BOOLEAN
  <2> HIDE DEF pl
  <2> QED BY <1>2, <1>4, RoomStep
<1>6. newFlow(k) \in Flow
  BY <1>1, CreatedType DEF End
<1>7. pl2 \in Tables /\ fl2 \in [Slot -> Flow]
  BY <1>5, <1>6 DEF Tables
<1>8. a \in Summaries
  BY <1>1, <1>4, <1>5, UnansweredType
<1>9. /\ place' = pl2
      /\ \A y \in Slot : y # s => flow'[y] \in {fl2[y], markICMP(fl2[y], p)}
      /\ \A y \in Slot : y # s /\ pl2[y] # "flows" => flow'[y] = fl2[y]
  <2>1. take(pl2, fl2, a, blockedBy(pl), s, p)
    BY <1>4
  <2> HIDE DEF pl2, fl2, pl
  <2> QED BY <1>1, <1>5, <1>7, <1>8, <2>1, TakeStep
<1>10. CASE x = s
  BY <1>4, <1>10 DEF SameConnection
<1>11. CASE x # s /\ x \in E
  <2>1. place'[x] = "free" /\ pl[x] = "flows"
    BY <1>9, <1>11, <1>2, <1>4, EvictTable DEF removed
  <2>2. place[x] # "retired"
    BY <1>2, <2>1
  <2> QED BY <2>1, <2>2 DEF SameConnection
<1>12. CASE x # s /\ x \notin E
  <2>1. fl2[x] = flow[x] /\ place'[x] = pl[x] /\ pl2[x] = pl[x]
    BY <1>5, <1>9, <1>12 DEF blanked, removed, Tables
  <2>2. flow[x] \in Flow
    BY <1>1
  <2>3. /\ flow'[x].key = flow[x].key
        /\ flow'[x].SYNSeen = flow[x].SYNSeen /\ flow'[x].SYNSeq = flow[x].SYNSeq
        /\ flow'[x].Closed = flow[x].Closed
    BY <1>9, <1>12, <2>1, <2>2, MarkKeeps
  <2>4. place[x] = "retired" => pl[x] = "retired" /\ flow'[x] = flow[x]
    BY <1>2, <1>9, <1>12, <2>1
  <2> QED BY <2>1, <2>3, <2>4 DEF SameConnection
<1> QED BY <1>10, <1>11, <1>12

LEMMA NoFlowConnection ==
  ASSUME NEW pl \in Tables, NEW E \in evict(pl), NEW x \in Slot,
         \A s \in Slot : pl[s] \in {place[s], "retired"},
         place'[x] = removed(pl, E)[x], flow'[x] = blanked(E)[x]
  PROVE  SameConnection(x)
<1>1. CASE x \in E
  <2>1. pl[x] = "flows" /\ place'[x] = "free"
    BY <1>1, EvictTable DEF removed
  <2>2. place[x] = "flows"
    BY <2>1
  <2> QED BY <2>1, <2>2 DEF SameConnection
<1>2. CASE x \notin E
  BY <1>2, UntouchedConnection DEF removed, blanked
<1> QED BY <1>1, <1>2

LEMMA ConnectResultConnection ==
  ASSUME Inv, NEW k \in TCPKey, NEW failed \in BOOLEAN, NEW x \in Slot,
         ConnectResultOnFlow(k, failed) \/ ConnectResultNewFlow(k, failed)
  PROVE  SameConnection(x)
<1>1. flow \in [Slot -> Flow] /\ place \in Tables /\ now \in Nat
  BY NowType DEF Inv
<1>2. CASE ConnectResultOnFlow(k, failed)
  <2>1. PICK s \in Indexed(place, flow, k) : flow' = [flow EXCEPT ![s] = withResult(@, failed)]
    BY <1>2 DEF ConnectResultOnFlow
  <2>2. flow[x] \in Flow
    BY <1>1
  <2>3. LET g == withResult(flow[x], failed) IN
        /\ g.key = flow[x].key /\ g.SYNSeen = flow[x].SYNSeen /\ g.SYNSeq = flow[x].SYNSeq
        /\ flow[x].Closed => g.Closed
    BY <2>2 DEF withResult, Flow
  <2>4. CASE x = s
    BY <1>1, <1>2, <2>1, <2>3, <2>4 DEF ConnectResultOnFlow, Indexed, SameConnection
  <2>5. CASE x # s
    BY <1>1, <1>2, <2>1, <2>5, UntouchedConnection DEF ConnectResultOnFlow
  <2> QED BY <2>4, <2>5
<1>3. CASE ConnectResultNewFlow(k, failed)
  <2> DEFINE pl == staleRetired(k)
  <2>1. pl \in Tables /\ \A s \in Slot : pl[s] \in {place[s], "retired"}
    BY <1>1, RetireTable
  <2>2. PICK E \in evict(pl) :
          \/ place' = removed(pl, E) /\ flow' = blanked(E)
          \/ \E s \in Slot : /\ place[s] = "free"
                            /\ place' = [removed(pl, E) EXCEPT ![s] = "flows"]
                            /\ flow' = [blanked(E) EXCEPT ![s] = withResult(probeFlow(k), failed)]
    BY <1>3 DEF ConnectResultNewFlow
  <2>3. CASE place[x] = "free"
    BY <2>3 DEF SameConnection
  <2>4. CASE place[x] # "free"
    <3>1. place'[x] = removed(pl, E)[x] /\ flow'[x] = blanked(E)[x]
      BY <2>2, <2>4 DEF removed, blanked
    <3> HIDE DEF pl
    <3> QED BY <2>1, <3>1, NoFlowConnection
  <2> QED BY <2>3, <2>4
<1> QED BY <1>2, <1>3

LEMMA NextConnection ==
  ASSUME Inv, Next, NEW x \in Slot
  PROVE  SameConnection(x)
<1>1. flow \in [Slot -> Flow] /\ place \in Tables /\ now \in Nat
  BY NowType DEF Inv
<1>2. ASSUME NEW k \in Key, NEW p \in Packet(k), PacketUnindexed(k, p)
      PROVE  SameConnection(x)
  <2>1. retire(k, p) \in Tables /\ \A s \in Slot : retire(k, p)[s] \in {place[s], "retired"}
    BY <1>1, RetireTable
  <2> QED BY <1>2, <2>1, NoFlowConnection DEF PacketUnindexed
<1>3. ASSUME NEW k \in TCPKey \cup UDPKey, RecordDropOnFlow(k)
      PROVE  SameConnection(x)
  <2>1. flow[x] \in Flow
    BY <1>1
  <2>2. flow'[x] \in {flow[x], [flow[x] EXCEPT !.Last = now]}
    BY <1>1, <1>3 DEF RecordDropOnFlow
  <2>3. place'[x] = place[x] /\ (place[x] # "flows" => flow'[x] = flow[x])
    BY <1>1, <1>3 DEF RecordDropOnFlow, Indexed
  <2> QED BY <2>1, <2>2, <2>3 DEF SameConnection, Flow
<1>4. ASSUME NEW k \in TCPKey \cup UDPKey, NEW src \in End, RecordDropNewFlow(k, src)
      PROVE  SameConnection(x)
  <2>1. CASE place[x] = "free"
    BY <2>1 DEF SameConnection
  <2>2. CASE place[x] # "free"
    BY <1>1, <1>4, <2>2, UntouchedConnection DEF RecordDropNewFlow
  <2> QED BY <2>1, <2>2
<1>5. CASE Expire
  <2>1. x \in idle => place'[x] = "free"
    BY <1>5 DEF Expire, removed
  <2>2. x \notin idle => place'[x] = place[x] /\ flow'[x] = flow[x]
    BY <1>5 DEF Expire, removed, blanked
  <2> QED BY <2>1, <2>2 DEF SameConnection
<1>6. CASE Tick
  BY <1>6, UntouchedConnection DEF Tick, table
<1>7. CASE (\E k \in TCPKey, i \in End : SocketEventOnFlow(k, i)) \/ ApplySocketInventory
  BY <1>7, NamingStep DEF SameConnection, Inv
<1> QED BY <1>2, <1>3, <1>4, <1>5, <1>6, <1>7, PacketOnFlowConnection, PacketNewFlowConnection,
           ConnectResultConnection DEF Next

(* A connection keeps its opening SYN, never reopens, and a retired flow   *)
(* stays as it was until it expires (packetAt's generations).              *)
THEOREM GenerationsHold == Spec => Generations
<1>1. Inv /\ [Next]_vars => [\A s \in Slot : SameConnection(s)]_vars
  BY NextConnection
<1> QED BY Invariance, <1>1, PTL DEF Spec, Generations, SameConnection

(***************************************************************************)
(* The bound of the attempt summaries.                                     *)
(***************************************************************************)
Within(a) == Cardinality(Known(a)) <= MaxFlows

(* A summary that is added for a refused attempt is added below the bound. *)
LEMMA RefusedWithin ==
  ASSUME NEW a \in Summaries, NEW f, Within(a)
  PROVE  Within(noteRefused(a, f))
<1> DEFINE x == RemoteAddr[f.key]
           b == noteRefused(a, f)
<1>1. CASE b = a
  BY <1>1
<1>2. CASE b # a
  <2>1. x \in Addr /\ (a[x].known \/ Cardinality(Known(a)) < MaxFlows)
    BY <1>2 DEF noteRefused, Summaries
  <2>2. Known(b) = Known(a) \cup {x}
    BY <1>2, <2>1 DEF noteRefused, Known, Summaries
  <2>3. IsFiniteSet(Known(a)) /\ Cardinality(Known(a)) \in Nat
    BY AddrSets DEF Known
  <2>4. Cardinality(Known(b)) = IF x \in Known(a) THEN Cardinality(Known(a))
                                ELSE Cardinality(Known(a)) + 1
    BY <2>2, <2>3, FS_AddElement
  <2>5. a[x].known => x \in Known(a)
    BY <2>1 DEF Known
  <2> HIDE DEF b, x
  <2>6. Cardinality(Known(b)) <= MaxFlows
    BY <2>1, <2>3, <2>4, <2>5, FlowTableAssumption DEF Within
  <2> QED BY <2>6 DEF Within, b
<1> QED BY <1>1, <1>2 DEF Within

(* One sweep adds the sources that still fit, and no more. *)
LEMMA UnansweredWithin ==
  ASSUME NEW a \in Summaries, NEW S \in SUBSET Slot, NEW b \in noteUnanswered(a, S), Within(a)
  PROVE  Within(b)
<1> DEFINE from(x) == {s \in Unanswered(S) : RemoteAddr[flow[s].key] = x}
           new == {x \in Addr : from(x) # {} /\ ~a[x].known}
<1>1. PICK A \in SUBSET new :
        /\ \/ A = new /\ Cardinality(new) + Cardinality(Known(a)) <= MaxFlows
           \/ Cardinality(A) + Cardinality(Known(a)) = MaxFlows
        /\ b = [x \in Addr |->
                 IF from(x) # {} /\ (a[x].known \/ x \in A)
                 THEN [known |-> TRUE, Refused |-> a[x].Refused,
                       Unanswered |-> a[x].Unanswered + Cardinality(from(x)), Last |-> now]
                 ELSE a[x]]
  BY DEF noteUnanswered
<1>2. \A x \in Addr : b[x].known = (x \in A \/ a[x].known)
  <2> TAKE x \in Addr
  <2>1. x \in A => from(x) # {}
    OBVIOUS
  <2>2. a[x].known \in BOOLEAN
    BY DEF Summaries, Summary
  <2>3. CASE from(x) # {} /\ (a[x].known \/ x \in A)
    BY <1>1, <2>2, <2>3
  <2>4. CASE ~(from(x) # {} /\ (a[x].known \/ x \in A))
    <3>1. b[x] = a[x]
      BY <1>1, <2>4
    <3> QED BY <2>1, <2>2, <2>4, <3>1
  <2> QED BY <2>3, <2>4
<1>3. Known(b) = Known(a) \cup A /\ Known(a) \cap A = {}
  BY <1>2 DEF Known
<1>4. A \in SUBSET Addr /\ Known(a) \in SUBSET Addr
  BY DEF Known
<1>5. Cardinality(Known(b)) = Cardinality(Known(a)) + Cardinality(A)
  <2>1. IsFiniteSet(A) /\ IsFiniteSet(Known(a)) /\ Cardinality(A) \in Nat /\ Cardinality(Known(a)) \in Nat
    BY <1>4, AddrSets
  <2>2. Cardinality(Known(b)) = Cardinality(Known(a)) + Cardinality(A) - Cardinality({})
    BY <1>3, <2>1, FS_Union
  <2> QED BY <2>1, <2>2, FS_EmptySet
<1>6. Cardinality(A) \in Nat /\ Cardinality(Known(a)) \in Nat
  BY <1>4, AddrSets
<1> HIDE DEF new, from
<1>7. Cardinality(Known(b)) <= MaxFlows
  BY <1>1, <1>5, <1>6, FlowTableAssumption
<1> QED BY <1>7 DEF Within

(* What a packet that has its flow does to the summaries. *)
LEMMA TakeWithin ==
  ASSUME NEW pl, NEW fl, NEW a \in Summaries, NEW b, NEW s, NEW p, Within(a),
         take(pl, fl, a, b, s, p)
  PROVE  Within(attempts')
<1>1. \/ attempts' = a
      \/ attempts' = noteRefused(a, started(fl[s], p))
      \/ \E x \in Indexed(pl, fl, p.quoted) : attempts' = noteRefused(a, fl[x])
  BY DEF take
<1> QED BY <1>1, RefusedWithin

(* Old summaries only make room. *)
LEMMA CurrentWithin ==
  ASSUME attempts \in Summaries, now \in Nat, Within(attempts)
  PROVE  currentAttempts \in Summaries /\ Within(currentAttempts)
<1>1. currentAttempts \in Summaries
  BY DEF currentAttempts, Summaries, Summary, NoSummary
<1>2. Known(currentAttempts) \in SUBSET Known(attempts) /\ Known(attempts) \in SUBSET Addr
  BY DEF currentAttempts, Known, NoSummary
<1>3. /\ IsFiniteSet(Known(attempts))
      /\ Cardinality(Known(attempts)) \in Nat /\ Cardinality(Known(currentAttempts)) \in Nat
  BY <1>2, AddrSets
<1>4. Cardinality(Known(currentAttempts)) <= Cardinality(Known(attempts))
  BY <1>2, <1>3, FS_Subset
<1>5. Cardinality(Known(currentAttempts)) <= MaxFlows
  BY <1>3, <1>4, FlowTableAssumption DEF Within
<1> QED BY <1>1, <1>5 DEF Within

LEMMA NextWithin ==
  ASSUME Inv, [Next]_vars, Within(attempts)
  PROVE  Within(attempts')
<1>1. attempts \in Summaries /\ now \in Nat /\ place \in Tables
  BY NowType DEF Inv
<1>2. ASSUME NEW k \in Key, NEW p \in Packet(k), PacketOnFlow(k, p) PROVE Within(attempts')
  BY <1>1, <1>2, TakeWithin DEF PacketOnFlow
<1>3. ASSUME NEW pl, NEW E \in evict(pl) PROVE E \in SUBSET Slot
  BY <1>3 DEF evict, Candidates
<1>4. ASSUME NEW k \in Key, NEW p \in Packet(k), PacketNewFlow(k, p) PROVE Within(attempts')
  <2>1. PICK E \in evict(retire(k, p)) :
          \E a \in noteUnanswered(attempts, E), s \in Slot :
            take([removed(retire(k, p), E) EXCEPT ![s] = "flows"],
                 [blanked(E) EXCEPT ![s] = newFlow(k)],
                 a, blockedBy(retire(k, p)), s, p)
    BY <1>4 DEF PacketNewFlow
  <2>2. E \in SUBSET Slot
    BY <1>3
  <2>3. \A a \in noteUnanswered(attempts, E) : a \in Summaries /\ Within(a)
    BY <1>1, <2>2, UnansweredType, UnansweredWithin
  <2> QED BY <2>1, <2>3, TakeWithin
<1>5. ASSUME NEW k \in Key, NEW p \in Packet(k), PacketUnindexed(k, p) PROVE Within(attempts')
  <2>1. PICK E \in evict(retire(k, p)) : attempts' \in noteUnanswered(attempts, E)
    BY <1>5 DEF PacketUnindexed
  <2>2. E \in SUBSET Slot
    BY <1>3
  <2> QED BY <1>1, <2>1, <2>2, UnansweredWithin
<1>6. ASSUME NEW k \in TCPKey, NEW failed \in BOOLEAN, ConnectResultNewFlow(k, failed)
      PROVE  Within(attempts')
  <2>1. PICK E \in evict(staleRetired(k)) : attempts' \in noteUnanswered(attempts, E)
    BY <1>6 DEF ConnectResultNewFlow
  <2>2. E \in SUBSET Slot
    BY <1>3
  <2> QED BY <1>1, <2>1, <2>2, UnansweredWithin
<1>7. CASE Expire
  <2>1. idle \in SUBSET Slot
    BY DEF idle
  <2>2. attempts' \in noteUnanswered(currentAttempts, idle)
    BY <1>7 DEF Expire
  <2>3. currentAttempts \in Summaries /\ Within(currentAttempts)
    BY <1>1, CurrentWithin
  <2> QED BY <2>1, <2>2, <2>3, UnansweredWithin
<1>8. CASE UNCHANGED attempts
  BY <1>8 DEF Within
<1>9. \/ UNCHANGED attempts \/ Expire
      \/ \E k \in Key : \E p \in Packet(k) :
           PacketOnFlow(k, p) \/ PacketNewFlow(k, p) \/ PacketUnindexed(k, p)
      \/ \E k \in TCPKey, failed \in BOOLEAN : ConnectResultNewFlow(k, failed)
  BY DEF Next, ConnectResultOnFlow, RecordDropOnFlow, RecordDropNewFlow, SocketEventOnFlow,
         ApplySocketInventory, Tick, vars, table
<1> QED BY <1>2, <1>4, <1>5, <1>6, <1>7, <1>8, <1>9

(* The attempt summaries never exceed maxFlows (noteAttempt), although one *)
(* sweep may add many sources at once.                                     *)
THEOREM AttemptsBounded == Spec => []AttemptsBound
<1>1. Init => AttemptsBound
  <2>1. Init => Known(attempts) = {}
    BY DEF Init, Known, NoSummary
  <2> QED BY <2>1, FS_EmptySet, FlowTableAssumption DEF AttemptsBound
<1>2. Inv /\ AttemptsBound /\ [Next]_vars => AttemptsBound'
  BY NextWithin DEF Within, AttemptsBound, Known
<1> QED BY Invariance, <1>1, <1>2, PTL DEF Spec
(***************************************************************************)
(* Refused once: a refusal closes a TCP flow and marks a UDP flow, and      *)
(* neither mark is ever taken back.                                        *)
(***************************************************************************)
OneRefusal(f) ==
  \/ f.refusals = 0
  \/ f.refusals = 1 /\ (IF f.key \in TCPKey THEN f.Closed ELSE f.ICMPError)

LEMMA RefuseOne ==
  ASSUME NEW f \in Flow, NEW yes \in BOOLEAN
  PROVE  /\ refuse(f, yes) \in Flow
         /\ refuse(f, yes).key = f.key /\ refuse(f, yes).Closed = f.Closed
         /\ refuse(f, yes).ICMPError = f.ICMPError
         /\ refuse(f, yes).refusals \in {f.refusals, f.refusals + 1}
         /\ ~yes => refuse(f, yes).refusals = f.refusals
  BY DEF refuse, Flow

LEMMA ObserveRefusal ==
  ASSUME NEW f \in Flow, NEW p \in AnyPacket, now \in Nat, OneRefusal(f)
  PROVE  OneRefusal(observe(f, p))
<1> DEFINE c == countPacket(f, p)
           g == observeStart(c, p)
           n == observeAnswer(g, p)
           h == observeClient(n, p)
           yes == refusedByReset(h, p)
<1>1. c \in Flow /\ g \in Flow /\ n \in Flow /\ h \in Flow
  BY CountType, StartType, AnswerType, ClientType
<1>2. c.key = f.key /\ c.Closed = f.Closed /\ c.ICMPError = f.ICMPError /\ c.refusals = f.refusals
  BY DEF countPacket, Flow
<1> HIDE DEF c
<1>3. g.key = c.key /\ g.Closed = c.Closed /\ g.ICMPError = c.ICMPError /\ g.refusals = c.refusals
  BY <1>1 DEF observeStart, Flow
<1> HIDE DEF g
<1>4. n.key = g.key /\ n.Closed = g.Closed /\ n.ICMPError = g.ICMPError /\ n.refusals = g.refusals
  BY <1>1 DEF observeAnswer, Flow
<1> HIDE DEF n
<1>5. h.key = n.key /\ h.Closed = n.Closed /\ h.ICMPError = n.ICMPError /\ h.refusals = n.refusals
  BY <1>1 DEF observeClient, Flow
<1>6. OneRefusal(h)
  BY <1>2, <1>3, <1>4, <1>5 DEF OneRefusal
<1>7. observe(f, p) = observeEnd(h, p)
  BY DEF observe, started, h, n, g, c
<1> HIDE DEF h
<1>8. CASE p.flags = "RST"
  <2>1. yes \in BOOLEAN /\ (yes => h.key \in TCPKey /\ ~h.Closed)
    BY DEF refusedByReset, IsTCP
  <2>2. observeEnd(h, p) = [refuse(h, yes) EXCEPT !.TCPState = "reset", !.Closed = TRUE]
    BY <1>8 DEF observeEnd
  <2> HIDE DEF yes
  <2>3. LET e == observeEnd(h, p) IN
        /\ e.key = h.key /\ e.Closed /\ e.ICMPError = h.ICMPError
        /\ e.refusals = refuse(h, yes).refusals
    <3> DEFINE r == refuse(h, yes)
    <3>1. r \in Flow /\ r.key = h.key /\ r.ICMPError = h.ICMPError
      BY <1>1, <2>1, RefuseOne
    <3>2. observeEnd(h, p) = [r EXCEPT !.TCPState = "reset", !.Closed = TRUE]
      BY <2>2
    <3> HIDE DEF r
    <3>3. LET e == observeEnd(h, p) IN
          e.key = r.key /\ e.Closed /\ e.ICMPError = r.ICMPError /\ e.refusals = r.refusals
      BY <3>1, <3>2 DEF Flow
    <3> QED BY <3>1, <3>3 DEF r
  <2>4. CASE yes
    <3>1. h.refusals = 0
      BY <1>6, <2>1, <2>4 DEF OneRefusal
    <3>2. refuse(h, yes).refusals \in {0, 1}
      BY <1>1, <2>1, <3>1, RefuseOne
    <3> QED BY <1>7, <2>1, <2>3, <2>4, <3>2 DEF OneRefusal
  <2>5. CASE ~yes
    <3>1. refuse(h, yes).refusals = h.refusals
      BY <1>1, <2>1, <2>5, RefuseOne
    <3> QED BY <1>6, <1>7, <2>3, <3>1 DEF OneRefusal
  <2> QED BY <2>4, <2>5
<1>9. CASE p.flags = "FIN"
  <2>1. LET e == observeEnd(h, p) IN
        /\ e.key = h.key /\ (h.Closed => e.Closed) /\ e.ICMPError = h.ICMPError
        /\ e.refusals = h.refusals
    BY <1>1, <1>9 DEF observeEnd, Flow
  <2> QED BY <1>6, <1>7, <2>1 DEF OneRefusal
<1>10. CASE p.flags \notin {"RST", "FIN"}
  BY <1>6, <1>7, <1>10 DEF observeEnd
<1> QED BY <1>8, <1>9, <1>10

LEMMA MarkRefusal ==
  ASSUME NEW f \in Flow, NEW p \in AnyPacket, OneRefusal(f)
  PROVE  OneRefusal(markICMP(f, p))
<1> DEFINE yes == refusedByICMP(f, p)
<1>1. yes \in BOOLEAN /\ (yes => f.key \notin TCPKey /\ ~f.ICMPError)
  <2>1. p.unreachable \in BOOLEAN
    BY DEF AnyPacket, TCPPacket, UDPPacket, ICMPPacket
  <2> QED BY <2>1, FlowTableAssumption DEF refusedByICMP
<1>2. markICMP(f, p) = [refuse(f, yes) EXCEPT !.ICMPError = TRUE]
  BY DEF markICMP
<1> HIDE DEF yes
<1>3. /\ markICMP(f, p).key = f.key /\ markICMP(f, p).Closed = f.Closed
      /\ markICMP(f, p).ICMPError /\ markICMP(f, p).refusals = refuse(f, yes).refusals
  BY <1>1, <1>2, RefuseOne DEF Flow
<1>4. CASE yes
  <2>1. f.refusals = 0
    BY <1>1, <1>4 DEF OneRefusal
  <2>2. refuse(f, yes).refusals \in {0, 1}
    BY <1>1, <2>1, RefuseOne
  <2> QED BY <1>1, <1>3, <1>4, <2>2 DEF OneRefusal
<1>5. CASE ~yes
  BY <1>1, <1>3, <1>5, RefuseOne DEF OneRefusal
<1> QED BY <1>4, <1>5

(* The flows that the collector creates and those whose initiator is named. *)
LEMMA CreatedRefusal ==
  ASSUME NEW k, NEW src, NEW failed
  PROVE  /\ OneRefusal(Blank) /\ OneRefusal(newFlow(k)) /\ OneRefusal(droppedPacketFlow(k, src))
         /\ OneRefusal(withResult(probeFlow(k), failed))
<1>1. OneRefusal(Blank) /\ newFlow(k).refusals = 0 /\ droppedPacketFlow(k, src).refusals = 0
  BY DEF OneRefusal, Blank, newFlow, droppedPacketFlow
<1>2. probeFlow(k).refusals = 0 /\ withResult(probeFlow(k), failed).refusals = 0
  BY DEF probeFlow, withResult, Blank
<1> QED BY <1>1, <1>2 DEF OneRefusal

LEMMA NamedRefusal ==
  ASSUME NEW f \in Flow, OneRefusal(f), NEW i, NEW failed
  PROVE  /\ OneRefusal(withRole(f, i)) /\ OneRefusal(withInventory(f, i))
         /\ OneRefusal(withResult(f, failed)) /\ OneRefusal([f EXCEPT !.Last = now])
<1>1. \A g \in {withRole(f, i), withInventory(f, i), [f EXCEPT !.Last = now]} :
        g.key = f.key /\ g.Closed = f.Closed /\ g.ICMPError = f.ICMPError /\ g.refusals = f.refusals
  BY ZenonT(30) DEF withRole, withInventory, Flow
<1>2. LET g == withResult(f, failed) IN
      g.key = f.key /\ (f.Closed => g.Closed) /\ g.ICMPError = f.ICMPError /\ g.refusals = f.refusals
  BY DEF withResult, Flow
<1> QED BY <1>1, <1>2 DEF OneRefusal

LEMMA TakeRefusal ==
  ASSUME NEW pl, NEW fl \in [Slot -> Flow], NEW a, NEW b, NEW s, NEW p \in AnyPacket, now \in Nat,
         \A x \in Slot : OneRefusal(fl[x]), take(pl, fl, a, b, s, p), NEW y \in Slot
  PROVE  OneRefusal(flow'[y])
<1>1. flow'[y] \in {observe(fl[y], p), markICMP(fl[y], p), fl[y]}
  BY DEF take
<1> QED BY <1>1, ObserveRefusal, MarkRefusal

LEMMA NextRefusal ==
  ASSUME Inv, [Next]_vars, \A x \in Slot : OneRefusal(flow[x]), NEW y \in Slot
  PROVE  OneRefusal(flow'[y])
<1>1. flow \in [Slot -> Flow] /\ now \in Nat /\ flow[y] \in Flow
  BY NowType DEF Inv
<1>2. \A E, x : x \in Slot => OneRefusal(blanked(E)[x])
  BY CreatedRefusal DEF blanked
<1>3. ASSUME NEW k \in Key, NEW p \in Packet(k), PacketOnFlow(k, p) PROVE OneRefusal(flow'[y])
  BY <1>1, <1>3, TakeRefusal, PacketIsAny DEF PacketOnFlow
<1>4. ASSUME NEW k \in Key, NEW p \in Packet(k), PacketNewFlow(k, p) PROVE OneRefusal(flow'[y])
  <2>1. PICK E \in evict(retire(k, p)) :
          \E a \in noteUnanswered(attempts, E), s \in Slot :
            take([removed(retire(k, p), E) EXCEPT ![s] = "flows"],
                 [blanked(E) EXCEPT ![s] = newFlow(k)], a, blockedBy(retire(k, p)), s, p)
    BY <1>4 DEF PacketNewFlow
  <2>2. PICK s \in Slot :
          \E pl, a : take(pl, [blanked(E) EXCEPT ![s] = newFlow(k)], a, blockedBy(retire(k, p)), s, p)
    BY <2>1
  <2> DEFINE fl == [blanked(E) EXCEPT ![s] = newFlow(k)]
  <2>3. blanked(E) \in [Slot -> Flow] /\ newFlow(k) \in Flow
    BY <1>1, CreatedType DEF blanked, End
  <2>4. fl \in [Slot -> Flow] /\ \A x \in Slot : OneRefusal(fl[x])
    BY <1>2, <2>3, CreatedRefusal
  <2>5. \E pl, a, b : take(pl, fl, a, b, s, p)
    BY <2>2
  <2> HIDE DEF fl
  <2> QED BY <1>1, <2>4, <2>5, TakeRefusal, PacketIsAny
<1>5. ASSUME NEW k \in Key, NEW p \in Packet(k), PacketUnindexed(k, p) PROVE OneRefusal(flow'[y])
  BY <1>2, <1>5 DEF PacketUnindexed
<1>6. ASSUME NEW k \in TCPKey, NEW failed \in BOOLEAN, ConnectResultOnFlow(k, failed)
      PROVE  OneRefusal(flow'[y])
  <2>1. flow'[y] \in {flow[y], withResult(flow[y], failed)}
    BY <1>1, <1>6 DEF ConnectResultOnFlow
  <2> QED BY <1>1, <2>1, NamedRefusal
<1>7. ASSUME NEW k \in TCPKey, NEW failed \in BOOLEAN, ConnectResultNewFlow(k, failed)
      PROVE  OneRefusal(flow'[y])
  <2>1. PICK E : flow'[y] \in {blanked(E)[y], withResult(probeFlow(k), failed)}
    <3>1. PICK E \in evict(staleRetired(k)) :
            \/ flow' = blanked(E)
            \/ \E s \in Slot : flow' = [blanked(E) EXCEPT ![s] = withResult(probeFlow(k), failed)]
      BY <1>7 DEF ConnectResultNewFlow
    <3> QED BY <3>1 DEF blanked
  <2> QED BY <1>2, <2>1, CreatedRefusal
<1>8. ASSUME NEW k \in Key, RecordDropOnFlow(k) PROVE OneRefusal(flow'[y])
  <2>1. flow'[y] \in {flow[y], [flow[y] EXCEPT !.Last = now]}
    BY <1>1, <1>8 DEF RecordDropOnFlow
  <2> QED BY <1>1, <2>1, NamedRefusal
<1>9. ASSUME NEW k \in Key, NEW src \in End, RecordDropNewFlow(k, src) PROVE OneRefusal(flow'[y])
  BY <1>1, <1>9, CreatedRefusal DEF RecordDropNewFlow
<1>10. CASE \E k \in TCPKey, i \in End : SocketEventOnFlow(k, i)
  <2>1. \E i \in End : flow'[y] \in {flow[y], withRole(flow[y], i)}
    BY <1>1, <1>10 DEF SocketEventOnFlow
  <2> QED BY <1>1, <2>1, NamedRefusal
<1>11. CASE ApplySocketInventory
  <2>1. \E i : flow'[y] \in {flow[y], withInventory(flow[y], i)}
    BY <1>11 DEF ApplySocketInventory
  <2> QED BY <1>1, <2>1, NamedRefusal
<1>12. CASE Expire
  BY <1>2, <1>12 DEF Expire
<1>13. CASE UNCHANGED flow
  BY <1>13
<1>14. (Tick \/ UNCHANGED vars) => UNCHANGED flow
  BY DEF Tick, vars, table
<1> QED BY <1>3, <1>4, <1>5, <1>6, <1>7, <1>8, <1>9, <1>10, <1>11, <1>12, <1>13, <1>14
        DEF Next, Key

(* An attempt is counted refused at most once, however often the target    *)
(* resets it or an ICMP error quotes it (packetAt, icmp).                   *)
THEOREM RefusedAtMostOnce == Spec => []RefusedOnce
<1> DEFINE One == \A s \in Slot : OneRefusal(flow[s])
<1>1. Init => One
  BY CreatedRefusal DEF Init
<1>2. Inv /\ One /\ [Next]_vars => One'
  BY NextRefusal DEF OneRefusal
<1>3. One => RefusedOnce
  BY DEF OneRefusal, RefusedOnce
<1> HIDE DEF One
<1> QED BY Invariance, <1>1, <1>2, <1>3, PTL DEF Spec

(***************************************************************************)
(* Bytes: what is on the flows of the table, and what a step does to it.   *)
(***************************************************************************)
R(pl, fl) == SumFunctionOnSet(received(fl), Held(pl))
T(pl, fl) == SumFunctionOnSet(sent(fl), Held(pl))
In(p) == IF Outgoing(p) THEN 0 ELSE p.bytes
Out(p) == IF Outgoing(p) THEN p.bytes ELSE 0
SameBytes(f, g) == g.RX = f.RX /\ g.TX = f.TX
NoBytes(f) == f.RX = 0 /\ f.TX = 0

(* Objects that leave take their bytes along. *)
LEMMA SumLeft ==
  ASSUME NEW H \in SUBSET Slot, NEW E \in SUBSET H, NEW g \in [Slot -> Nat], NEW h,
         \A x \in H \ E : h[x] = g[x]
  PROVE  /\ SumFunctionOnSet(g, H) = SumFunctionOnSet(g, E) + SumFunctionOnSet(h, H \ E)
         /\ SumFunctionOnSet(g, H) \in Nat /\ SumFunctionOnSet(g, E) \in Nat
         /\ SumFunctionOnSet(h, H \ E) \in Nat
<1>1. IsFiniteSet(H) /\ IsFiniteSet(E) /\ IsFiniteSet(H \ E)
  BY SlotSets
<1>2. SumFunctionOnSet(g, H) = SumFunctionOnSet(g, E) + SumFunctionOnSet(g, H \ E)
  BY <1>1, SumSplit
<1>3. SumFunctionOnSet(g, H \ E) = SumFunctionOnSet(h, H \ E)
  BY <1>1, SumSame
<1>4. SumFunctionOnSet(g, H) \in Nat /\ SumFunctionOnSet(g, E) \in Nat /\ SumFunctionOnSet(g, H \ E) \in Nat
  BY <1>1, SumType
<1>5. QED BY <1>2, <1>3, <1>4

(* One object that gains n bytes, or joins the table with them. *)
LEMMA SumPut ==
  ASSUME NEW H \in SUBSET Slot, NEW s \in Slot, NEW g \in [Slot -> Nat], NEW h \in [Slot -> Nat],
         NEW n \in Nat, \A x \in H \ {s} : h[x] = g[x],
         s \in H => h[s] = g[s] + n, s \notin H => h[s] = n
  PROVE  SumFunctionOnSet(h, H \cup {s}) = SumFunctionOnSet(g, H) + n
<1> DEFINE W == H \ {s}
<1>1. IsFiniteSet(H) /\ IsFiniteSet(W) /\ IsFiniteSet(H \cup {s})
  BY SlotSets
<1>2. (H \cup {s}) \ {s} = W
  OBVIOUS
<1>3. SumFunctionOnSet(h, H \cup {s}) = h[s] + SumFunctionOnSet(h, (H \cup {s}) \ {s})
  BY <1>1, SumWithout
<1>4. SumFunctionOnSet(h, W) = SumFunctionOnSet(g, W) /\ SumFunctionOnSet(g, W) \in Nat
  BY <1>1, SumSame, SumType
<1>5. CASE s \in H
  <2>1. SumFunctionOnSet(g, H) = g[s] + SumFunctionOnSet(g, W)
    BY <1>1, <1>5, SumWithout
  <2>2. g[s] \in Nat /\ h[s] = g[s] + n
    BY <1>5
  <2>3. SumFunctionOnSet(h, H \cup {s}) = h[s] + SumFunctionOnSet(g, W)
    BY <1>2, <1>3, <1>4
  <2> HIDE DEF W
  <2>4. QED BY <1>4, <2>1, <2>2, <2>3
<1>6. CASE s \notin H
  <2>1. W = H
    BY <1>6
  <2>2. QED BY <1>2, <1>3, <1>4, <1>6, <2>1
<1>7. QED BY <1>5, <1>6

LEMMA ByteFunctions ==
  ASSUME NEW fl \in [Slot -> Flow]
  PROVE  /\ received(fl) \in [Slot -> Nat] /\ sent(fl) \in [Slot -> Nat]
         /\ \A x \in Slot : received(fl)[x] = fl[x].RX /\ sent(fl)[x] = fl[x].TX
  BY DEF received, sent, Flow

LEMMA ObserveBytes ==
  ASSUME NEW f \in Flow, NEW p \in AnyPacket, now \in Nat
  PROVE  observe(f, p).RX = f.RX + In(p) /\ observe(f, p).TX = f.TX + Out(p)
<1> DEFINE c == countPacket(f, p)
           g == observeStart(c, p)
           n == observeAnswer(g, p)
           h == observeClient(n, p)
<1>1. c \in Flow /\ g \in Flow /\ n \in Flow /\ h \in Flow
  BY CountType, StartType, AnswerType, ClientType
<1>2. f.RX \in Nat /\ f.TX \in Nat
  BY DEF Flow
<1>3. c.RX = f.RX + In(p) /\ c.TX = f.TX + Out(p)
  BY <1>2, PacketFields DEF countPacket, Flow, In, Out
<1> HIDE DEF c
<1>4. SameBytes(c, g)
  BY <1>1 DEF observeStart, Flow, SameBytes
<1> HIDE DEF g
<1>5. SameBytes(g, n)
  BY <1>1 DEF observeAnswer, Flow, SameBytes
<1> HIDE DEF n
<1>6. SameBytes(n, h)
  BY <1>1 DEF observeClient, Flow, SameBytes
<1>7. observe(f, p) = observeEnd(h, p)
  BY DEF observe, started, h, n, g, c
<1> HIDE DEF h
<1>8. SameBytes(h, observeEnd(h, p))
  BY <1>1 DEF observeEnd, refuse, Flow, SameBytes
<1>9. QED BY <1>3, <1>4, <1>5, <1>6, <1>7, <1>8 DEF SameBytes

LEMMA MarkBytes == ASSUME NEW f \in Flow, NEW p PROVE SameBytes(f, markICMP(f, p))
  BY DEF markICMP, refuse, Flow, SameBytes

LEMMA CreatedBytes ==
  ASSUME NEW k, NEW src, NEW failed
  PROVE  /\ NoBytes(Blank) /\ NoBytes(newFlow(k)) /\ NoBytes(droppedPacketFlow(k, src))
         /\ NoBytes(withResult(probeFlow(k), failed))
<1>1. NoBytes(Blank) /\ NoBytes(newFlow(k)) /\ NoBytes(droppedPacketFlow(k, src))
  BY DEF NoBytes, Blank, newFlow, droppedPacketFlow
<1>2. NoBytes(withResult(probeFlow(k), failed))
  BY DEF NoBytes, probeFlow, withResult, Blank
<1>3. QED BY <1>1, <1>2

LEMMA NamedBytes ==
  ASSUME NEW f \in Flow, NEW i, NEW failed
  PROVE  /\ SameBytes(f, withRole(f, i)) /\ SameBytes(f, withInventory(f, i))
         /\ SameBytes(f, withResult(f, failed)) /\ SameBytes(f, [f EXCEPT !.Last = now])
  BY DEF SameBytes, withRole, withInventory, withResult, Flow

(* The bytes of a packet go to the flow that takes it. *)
LEMMA TakeBytes ==
  ASSUME NEW pl \in Tables, NEW fl \in [Slot -> Flow], NEW a \in Summaries, NEW b \in BOOLEAN,
         NEW s \in Slot, pl[s] = "flows", NEW p \in AnyPacket, now \in Nat,
         take(pl, fl, a, b, s, p)
  PROVE  R(place, flow)' = R(pl, fl) + In(p) /\ T(place, flow)' = T(pl, fl) + Out(p)
<1>1. /\ place' = pl /\ flow' \in [Slot -> Flow] /\ flow'[s] = observe(fl[s], p)
      /\ \A x \in Slot : x # s => flow'[x] \in {fl[x], markICMP(fl[x], p)}
  BY TakeStep
<1>2. PICK gl : gl = flow'
  OBVIOUS
<1>3. /\ \A x \in Slot : x # s => SameBytes(fl[x], gl[x])
      /\ gl[s].RX = fl[s].RX + In(p) /\ gl[s].TX = fl[s].TX + Out(p)
  BY <1>1, <1>2, MarkBytes, ObserveBytes DEF SameBytes
<1>4. PICK H \in SUBSET Slot : H = Held(pl)
  BY DEF Held
<1>5. s \in H /\ H \cup {s} = H
  BY <1>4 DEF Held
<1>6. In(p) \in Nat /\ Out(p) \in Nat
  BY PacketFields DEF In, Out
<1>7. \A x \in Slot : x # s => received(gl)[x] = received(fl)[x] /\ sent(gl)[x] = sent(fl)[x]
  BY <1>1, <1>2, <1>3, ByteFunctions DEF SameBytes
<1>8. received(gl)[s] = received(fl)[s] + In(p) /\ sent(gl)[s] = sent(fl)[s] + Out(p)
  BY <1>1, <1>2, <1>3, ByteFunctions
<1>9. SumFunctionOnSet(received(gl), H \cup {s}) = SumFunctionOnSet(received(fl), H) + In(p)
  BY <1>1, <1>2, <1>5, <1>6, <1>7, <1>8, ByteFunctions, SumPut
<1>10. SumFunctionOnSet(sent(gl), H \cup {s}) = SumFunctionOnSet(sent(fl), H) + Out(p)
  BY <1>1, <1>2, <1>5, <1>6, <1>7, <1>8, ByteFunctions, SumPut
<1>11. R(place, flow)' = R(pl, gl) /\ T(place, flow)' = T(pl, gl)
  BY <1>1, <1>2 DEF R, T, Held, received, sent
<1>12. QED BY <1>4, <1>5, <1>9, <1>10, <1>11 DEF R, T

LEMMA OnFlowsType ==
  ASSUME NEW pl, NEW fl \in [Slot -> Flow]
  PROVE  R(pl, fl) \in Nat /\ T(pl, fl) \in Nat
<1>1. PICK H \in SUBSET Slot : H = Held(pl)
  BY DEF Held
<1>2. IsFiniteSet(H)
  BY SlotSets
<1>3. SumFunctionOnSet(received(fl), H) \in Nat /\ SumFunctionOnSet(sent(fl), H) \in Nat
  BY <1>2, ByteFunctions, SumType
<1>4. QED BY <1>1, <1>3 DEF R, T

LEMMA SameOnFlows ==
  ASSUME NEW pl, NEW fl \in [Slot -> Flow], NEW gl \in [Slot -> Flow],
         \A x \in Slot : SameBytes(fl[x], gl[x])
  PROVE  R(pl, gl) = R(pl, fl) /\ T(pl, gl) = T(pl, fl)
<1>1. received(gl) = received(fl) /\ sent(gl) = sent(fl)
  BY DEF SameBytes, received, sent
<1>2. QED BY <1>1 DEF R, T

LEMMA JoinBytes ==
  ASSUME NEW pl \in Tables, NEW fl \in [Slot -> Flow], NEW s \in Slot, pl[s] = "free",
         NEW f \in Flow, NoBytes(f)
  PROVE  /\ R([pl EXCEPT ![s] = "flows"], [fl EXCEPT ![s] = f]) = R(pl, fl)
         /\ T([pl EXCEPT ![s] = "flows"], [fl EXCEPT ![s] = f]) = T(pl, fl)
<1>1. PICK H \in SUBSET Slot : H = Held(pl)
  BY DEF Held
<1>2. s \notin H /\ Held([pl EXCEPT ![s] = "flows"]) = H \cup {s}
  BY <1>1 DEF Held, Tables
<1>3. PICK gl \in [Slot -> Flow] : gl = [fl EXCEPT ![s] = f]
  OBVIOUS
<1>4. /\ received(gl)[s] = 0 /\ sent(gl)[s] = 0
      /\ \A x \in Slot \ {s} : received(gl)[x] = received(fl)[x] /\ sent(gl)[x] = sent(fl)[x]
  BY ZenonT(30), <1>3, ByteFunctions DEF NoBytes
<1>5. \A x \in H \ {s} : received(gl)[x] = received(fl)[x] /\ sent(gl)[x] = sent(fl)[x]
  BY <1>4
<1>6. /\ received(gl) \in [Slot -> Nat] /\ sent(gl) \in [Slot -> Nat]
      /\ received(fl) \in [Slot -> Nat] /\ sent(fl) \in [Slot -> Nat]
  BY ByteFunctions
<1>7. ASSUME NEW g \in [Slot -> Nat], NEW h \in [Slot -> Nat], h[s] = 0,
             \A x \in H \ {s} : h[x] = g[x]
      PROVE  SumFunctionOnSet(h, H \cup {s}) = SumFunctionOnSet(g, H) + 0
  <2>1. PICK n \in Nat : n = 0
    OBVIOUS
  <2>2. s \in H => h[s] = g[s] + n
    BY <1>2
  <2>3. s \notin H => h[s] = n
    BY <1>7, <2>1
  <2>4. SumFunctionOnSet(h, H \cup {s}) = SumFunctionOnSet(g, H) + n
    BY <1>7, <2>2, <2>3, SumPut
  <2>5. QED BY <2>1, <2>4
<1>8. /\ SumFunctionOnSet(received(gl), H \cup {s}) = SumFunctionOnSet(received(fl), H) + 0
      /\ SumFunctionOnSet(sent(gl), H \cup {s}) = SumFunctionOnSet(sent(fl), H) + 0
  BY <1>4, <1>5, <1>6, <1>7
<1>9. R(pl, fl) \in Nat /\ T(pl, fl) \in Nat
  BY OnFlowsType
<1>10. R(pl, fl) = SumFunctionOnSet(received(fl), H) /\ T(pl, fl) = SumFunctionOnSet(sent(fl), H)
  BY <1>1 DEF R, T
<1>11. R(pl, fl) + 0 = R(pl, fl) /\ T(pl, fl) + 0 = T(pl, fl)
  BY <1>9
<1>12. QED BY <1>2, <1>3, <1>8, <1>10, <1>11 DEF R, T

(* What leaves the table is in the expired totals afterwards. *)
LEMMA SweepBytes ==
  ASSUME flow \in [Slot -> Flow], NEW pl \in Tables, Held(pl) = Held(place),
         NEW E \in SUBSET Held(place), expireFlows(E), expiredRX \in Nat, expiredTX \in Nat
  PROVE  /\ expiredRX' \in Nat /\ expiredTX' \in Nat
         /\ expiredRX' + R(removed(pl, E), blanked(E)) = expiredRX + R(place, flow)
         /\ expiredTX' + T(removed(pl, E), blanked(E)) = expiredTX + T(place, flow)
<1>1. PICK H \in SUBSET Slot : H = Held(place)
  BY DEF Held
<1>2. Held(removed(pl, E)) = H \ E
  BY <1>1 DEF removed, Held, Tables
<1>3. /\ received(flow) \in [Slot -> Nat] /\ sent(flow) \in [Slot -> Nat]
      /\ \A x \in H \ E : /\ received(blanked(E))[x] = received(flow)[x]
                          /\ sent(blanked(E))[x] = sent(flow)[x]
  BY ByteFunctions DEF blanked, received, sent
<1>4. E \in SUBSET H
  BY <1>1
<1>5. /\ SumFunctionOnSet(received(flow), H) =
           SumFunctionOnSet(received(flow), E) + SumFunctionOnSet(received(blanked(E)), H \ E)
      /\ SumFunctionOnSet(received(flow), E) \in Nat
      /\ SumFunctionOnSet(received(blanked(E)), H \ E) \in Nat
  BY ZenonT(30), <1>3, <1>4, SumLeft
<1>6. /\ SumFunctionOnSet(sent(flow), H) =
           SumFunctionOnSet(sent(flow), E) + SumFunctionOnSet(sent(blanked(E)), H \ E)
      /\ SumFunctionOnSet(sent(flow), E) \in Nat
      /\ SumFunctionOnSet(sent(blanked(E)), H \ E) \in Nat
  BY ZenonT(30), <1>3, <1>4, SumLeft
<1>7. /\ expiredRX' = expiredRX + SumFunctionOnSet(received(flow), E)
      /\ expiredTX' = expiredTX + SumFunctionOnSet(sent(flow), E)
  BY DEF expireFlows
<1>8. QED BY <1>1, <1>2, <1>5, <1>6, <1>7 DEF R, T

(***************************************************************************)
(* The books balance.  That the expired totals are numbers is part of the  *)
(* invariant: a sum is one only while its terms are.                       *)
(***************************************************************************)
Balance == BytesConserved /\ expiredRX \in Nat /\ expiredTX \in Nat

LEMMA BalanceIs ==
  Balance <=> /\ expiredRX \in Nat /\ expiredTX \in Nat
              /\ rxBytes = expiredRX + unindexedRX + R(place, flow)
              /\ txBytes = expiredTX + unindexedTX + T(place, flow)
  BY DEF Balance, BytesConserved, R, T

LEMMA BalanceNext ==
  ASSUME expiredRX' \in Nat, expiredTX' \in Nat,
         rxBytes' = expiredRX' + unindexedRX' + R(place, flow)',
         txBytes' = expiredTX' + unindexedTX' + T(place, flow)'
  PROVE  Balance'
  BY DEF Balance, BytesConserved, R, T

LEMMA CaptureBytes ==
  ASSUME Inv, NEW p \in AnyPacket, capture(p)
  PROVE  /\ rxBytes' = rxBytes + In(p) /\ txBytes' = txBytes + Out(p)
         /\ rxBytes \in Nat /\ txBytes \in Nat /\ unindexedRX \in Nat /\ unindexedTX \in Nat
         /\ In(p) \in Nat /\ Out(p) \in Nat
<1>1. rxBytes \in Nat /\ txBytes \in Nat /\ unindexedRX \in Nat /\ unindexedTX \in Nat
  BY DEF Inv, TypeOK
<1>2. p.bytes \in Nat
  BY PacketFields
<1>3. QED BY <1>1, <1>2 DEF capture, In, Out

LEMMA EvictedHeld ==
  ASSUME NEW pl \in Tables, NEW E \in evict(pl)
  PROVE  E \in SUBSET Held(pl)
  BY EvictTable DEF Held

(* A step that moves no bytes. *)
LEMMA QuietBalance ==
  ASSUME Inv, Balance, NEW fl \in [Slot -> Flow], flow' = fl, Held(place)' = Held(place),
         \A x \in Slot : SameBytes(flow[x], fl[x]),
         UNCHANGED <<rxBytes, txBytes, unindexedRX, unindexedTX, expiredRX, expiredTX>>
  PROVE  Balance'
<1>1. R(place, fl) = R(place, flow) /\ T(place, fl) = T(place, flow)
  BY SameOnFlows, NowType DEF Inv
<1>2. R(place, flow)' = R(place, fl) /\ T(place, flow)' = T(place, fl)
  BY DEF R, T, received, sent
<1>3. QED BY <1>1, <1>2, BalanceIs, BalanceNext

LEMMA PacketOnFlowBytes ==
  ASSUME Inv, Balance, NEW k \in Key, NEW p \in Packet(k), PacketOnFlow(k, p)
  PROVE  Balance'
<1>1. p \in AnyPacket /\ now \in Nat /\ flow \in [Slot -> Flow] /\ place \in Tables
      /\ attempts \in Summaries /\ evictionBlocked \in BOOLEAN /\ capture(p)
  BY PacketIsAny, NowType DEF Inv, TypeOK, PacketOnFlow
<1>2. PICK s \in Indexed(place, flow, k) : take(place, flow, attempts, evictionBlocked, s, p)
  BY DEF PacketOnFlow
<1>3. s \in Slot /\ place[s] = "flows"
  BY <1>2 DEF Indexed
<1>4. R(place, flow)' = R(place, flow) + In(p) /\ T(place, flow)' = T(place, flow) + Out(p)
  BY <1>1, <1>2, <1>3, TakeBytes
<1>5. UNCHANGED <<unindexedRX, unindexedTX, expiredRX, expiredTX>>
  BY DEF PacketOnFlow
<1>6. R(place, flow) \in Nat /\ T(place, flow) \in Nat
  BY <1>1, OnFlowsType
<1>7. QED BY <1>1, <1>4, <1>5, <1>6, CaptureBytes, BalanceIs, BalanceNext

LEMMA PacketNewFlowBytes ==
  ASSUME Inv, Balance, NEW k \in Key, NEW p \in Packet(k), PacketNewFlow(k, p)
  PROVE  Balance'
<1>1. p \in AnyPacket /\ now \in Nat /\ flow \in [Slot -> Flow] /\ place \in Tables
      /\ attempts \in Summaries /\ evictionBlocked \in BOOLEAN /\ capture(p)
  BY PacketIsAny, NowType DEF Inv, TypeOK, PacketNewFlow
<1>2. PICK pl \in Tables : pl = retire(k, p)
  BY <1>1, RetireTable
<1>3. Held(pl) = Held(place) /\ \A s \in Slot : place[s] # "flows" => pl[s] = place[s]
  BY <1>1, <1>2, RetireTable
<1>4. PICK E \in evict(pl) :
        /\ expireFlows(E)
        /\ \E a \in noteUnanswered(attempts, E), s \in Slot :
             /\ place[s] = "free"
             /\ take([removed(pl, E) EXCEPT ![s] = "flows"],
                     [blanked(E) EXCEPT ![s] = newFlow(k)], a, blockedBy(pl), s, p)
  BY <1>2 DEF PacketNewFlow
<1>5. PICK a \in noteUnanswered(attempts, E), s \in Slot :
        /\ place[s] = "free"
        /\ take([removed(pl, E) EXCEPT ![s] = "flows"],
                [blanked(E) EXCEPT ![s] = newFlow(k)], a, blockedBy(pl), s, p)
  BY <1>4
<1>6. E \in SUBSET Held(place) /\ E \in SUBSET Slot
  BY <1>3, EvictedHeld DEF Held
<1>7. PICK pm \in Tables : pm = removed(pl, E)
  BY <1>6, <1>1, RemovedTable
<1>8. PICK fm \in [Slot -> Flow] : fm = blanked(E)
  BY <1>6, <1>1, RemovedTable
<1>9. pm[s] = "free"
  BY <1>3, <1>5, <1>7 DEF removed
<1>10. newFlow(k) \in Flow /\ NoBytes(newFlow(k))
  BY <1>1, CreatedType, CreatedBytes DEF End
<1>11. PICK pt \in Tables : pt = [pm EXCEPT ![s] = "flows"]
  BY DEF Tables
<1>12. PICK ft \in [Slot -> Flow] : ft = [fm EXCEPT ![s] = newFlow(k)]
  BY <1>10
<1>13. R(pt, ft) = R(pm, fm) /\ T(pt, ft) = T(pm, fm)
  <2>1. PICK f \in Flow : f = newFlow(k)
    BY <1>10
  <2>2. NoBytes(f)
    BY <1>10, <2>1
  <2>3. /\ R([pm EXCEPT ![s] = "flows"], [fm EXCEPT ![s] = f]) = R(pm, fm)
        /\ T([pm EXCEPT ![s] = "flows"], [fm EXCEPT ![s] = f]) = T(pm, fm)
    BY <1>9, <2>2, JoinBytes
  <2>4. QED BY <1>11, <1>12, <2>1, <2>3
<1>14. a \in Summaries /\ blockedBy(pl) \in BOOLEAN /\ pt[s] = "flows"
  BY <1>1, <1>6, <1>11, UnansweredType DEF blockedBy, Tables
<1>15. take(pt, ft, a, blockedBy(pl), s, p)
  BY <1>5, <1>7, <1>8, <1>11, <1>12
<1>16. R(place, flow)' = R(pt, ft) + In(p) /\ T(place, flow)' = T(pt, ft) + Out(p)
  BY <1>1, <1>14, <1>15, TakeBytes
<1>17. /\ expiredRX' \in Nat /\ expiredTX' \in Nat
       /\ expiredRX' + R(pm, fm) = expiredRX + R(place, flow)
       /\ expiredTX' + T(pm, fm) = expiredTX + T(place, flow)
  BY <1>1, <1>3, <1>4, <1>6, <1>7, <1>8, SweepBytes, BalanceIs
<1>18. UNCHANGED <<unindexedRX, unindexedTX>>
  BY DEF PacketNewFlow
<1>19. /\ R(place, flow) \in Nat /\ T(place, flow) \in Nat
       /\ R(pm, fm) \in Nat /\ T(pm, fm) \in Nat
  BY <1>1, OnFlowsType
<1>20. /\ rxBytes' = rxBytes + In(p) /\ txBytes' = txBytes + Out(p)
       /\ unindexedRX \in Nat /\ unindexedTX \in Nat /\ In(p) \in Nat /\ Out(p) \in Nat
  BY <1>1, CaptureBytes
<1>21. /\ rxBytes = expiredRX + unindexedRX + R(place, flow)
       /\ txBytes = expiredTX + unindexedTX + T(place, flow)
       /\ expiredRX \in Nat /\ expiredTX \in Nat
  BY BalanceIs
<1>22. rxBytes' = expiredRX' + unindexedRX + R(place, flow)'
  <2>1. R(place, flow)' = R(pm, fm) + In(p)
    BY <1>13, <1>16
  <2>2. QED BY <1>17, <1>19, <1>20, <1>21, <2>1
<1>23. txBytes' = expiredTX' + unindexedTX + T(place, flow)'
  <2>1. T(place, flow)' = T(pm, fm) + Out(p)
    BY <1>13, <1>16
  <2>2. QED BY <1>17, <1>19, <1>20, <1>21, <2>1
<1>24. QED BY <1>17, <1>18, <1>22, <1>23, BalanceNext

LEMMA PacketUnindexedBytes ==
  ASSUME Inv, Balance, NEW k \in Key, NEW p \in Packet(k), PacketUnindexed(k, p)
  PROVE  Balance'
<1>1. p \in AnyPacket /\ now \in Nat /\ flow \in [Slot -> Flow] /\ place \in Tables /\ capture(p)
  BY PacketIsAny, NowType DEF Inv, TypeOK, PacketUnindexed
<1>2. PICK pl \in Tables : pl = retire(k, p)
  BY <1>1, RetireTable
<1>3. Held(pl) = Held(place)
  BY <1>1, <1>2, RetireTable
<1>4. PICK E \in evict(pl) :
        expireFlows(E) /\ place' = removed(pl, E) /\ flow' = blanked(E)
  BY <1>2 DEF PacketUnindexed
<1>5. E \in SUBSET Held(place)
  BY <1>3, EvictedHeld
<1>6. PICK fm \in [Slot -> Flow] : fm = blanked(E)
  BY <1>5, <1>1, <1>2, RemovedTable DEF Held
<1>7. /\ expiredRX' \in Nat /\ expiredTX' \in Nat
      /\ expiredRX' + R(removed(pl, E), fm) = expiredRX + R(place, flow)
      /\ expiredTX' + T(removed(pl, E), fm) = expiredTX + T(place, flow)
  BY <1>1, <1>3, <1>4, <1>5, <1>6, SweepBytes, BalanceIs
<1>8. R(place, flow)' = R(removed(pl, E), fm) /\ T(place, flow)' = T(removed(pl, E), fm)
  BY <1>4, <1>6 DEF R, T, Held, received, sent
<1>9. unindexedRX' = unindexedRX + In(p) /\ unindexedTX' = unindexedTX + Out(p)
  <2>1. unindexedRX \in Nat /\ unindexedTX \in Nat
    BY DEF Inv, TypeOK
  <2>2. QED BY <2>1 DEF PacketUnindexed, In, Out
<1>10. /\ R(place, flow) \in Nat /\ T(place, flow) \in Nat
       /\ R(removed(pl, E), fm) \in Nat /\ T(removed(pl, E), fm) \in Nat
  BY <1>1, OnFlowsType
<1>11. QED BY <1>1, <1>7, <1>8, <1>9, <1>10, CaptureBytes, BalanceIs, BalanceNext

LEMMA ConnectResultNewFlowBytes ==
  ASSUME Inv, Balance, NEW k \in TCPKey, NEW failed \in BOOLEAN, ConnectResultNewFlow(k, failed)
  PROVE  Balance'
<1>1. now \in Nat /\ flow \in [Slot -> Flow] /\ place \in Tables
  BY NowType DEF Inv
<1>2. PICK pl \in Tables : pl = staleRetired(k)
  BY <1>1, RetireTable
<1>3. Held(pl) = Held(place) /\ \A s \in Slot : place[s] # "flows" => pl[s] = place[s]
  BY <1>1, <1>2, RetireTable
<1>4. PICK f \in Flow : f = withResult(probeFlow(k), failed)
  BY <1>1, CreatedType DEF End, Key
<1>5. NoBytes(f)
  BY <1>4, CreatedBytes
<1>6. PICK E \in evict(pl) :
        /\ expireFlows(E)
        /\ \/ place' = removed(pl, E) /\ flow' = blanked(E)
           \/ \E s \in Slot : /\ place[s] = "free"
                              /\ place' = [removed(pl, E) EXCEPT ![s] = "flows"]
                              /\ flow' = [blanked(E) EXCEPT ![s] = f]
  BY <1>2, <1>4 DEF ConnectResultNewFlow
<1>7. E \in SUBSET Held(place) /\ E \in SUBSET Slot
  BY <1>3, EvictedHeld DEF Held
<1>8. PICK pm \in Tables : pm = removed(pl, E)
  BY <1>7, <1>1, RemovedTable
<1>9. PICK fm \in [Slot -> Flow] : fm = blanked(E)
  BY <1>7, <1>1, RemovedTable
<1>10. PICK pn, fn : pn = place' /\ fn = flow'
  OBVIOUS
<1>11. R(pn, fn) = R(pm, fm) /\ T(pn, fn) = T(pm, fm)
  <2>1. CASE pn = pm /\ fn = fm
    BY <2>1
  <2>2. ASSUME NEW s \in Slot, place[s] = "free",
               pn = [pm EXCEPT ![s] = "flows"], fn = [fm EXCEPT ![s] = f]
        PROVE  R(pn, fn) = R(pm, fm) /\ T(pn, fn) = T(pm, fm)
    <3>1. pm[s] = "free"
      BY <1>3, <1>8, <2>2 DEF removed
    <3>2. QED BY <1>5, <2>2, <3>1, JoinBytes
  <2>3. QED BY <1>6, <1>8, <1>9, <1>10, <2>1, <2>2
<1>12. /\ expiredRX' \in Nat /\ expiredTX' \in Nat
       /\ expiredRX' + R(pm, fm) = expiredRX + R(place, flow)
       /\ expiredTX' + T(pm, fm) = expiredTX + T(place, flow)
  BY <1>1, <1>3, <1>6, <1>7, <1>8, <1>9, SweepBytes, BalanceIs
<1>13. R(place, flow)' = R(pn, fn) /\ T(place, flow)' = T(pn, fn)
  BY <1>10 DEF R, T, Held, received, sent
<1>14. /\ UNCHANGED <<rxBytes, txBytes, unindexedRX, unindexedTX>>
       /\ unindexedRX \in Nat /\ unindexedTX \in Nat
  BY DEF ConnectResultNewFlow, Inv, TypeOK
<1>15. /\ R(place, flow) \in Nat /\ T(place, flow) \in Nat
       /\ R(pm, fm) \in Nat /\ T(pm, fm) \in Nat
  BY <1>1, OnFlowsType
<1>16. QED BY <1>11, <1>12, <1>13, <1>14, <1>15, BalanceIs, BalanceNext

LEMMA ExpireBytes == ASSUME Inv, Balance, Expire PROVE Balance'
<1>1. flow \in [Slot -> Flow] /\ place \in Tables /\ now \in Nat
  BY NowType DEF Inv
<1>2. idle \in SUBSET Held(place) /\ idle \in SUBSET Slot
  BY DEF idle, Held
<1>3. PICK fm \in [Slot -> Flow] : fm = blanked(idle)
  BY <1>1, <1>2, RemovedTable
<1>4. expireFlows(idle) /\ place' = removed(place, idle) /\ flow' = fm
  BY <1>3 DEF Expire
<1>5. PICK pm : pm = removed(place, idle)
  OBVIOUS
<1>6. /\ expiredRX' \in Nat /\ expiredTX' \in Nat
      /\ expiredRX' + R(pm, fm) = expiredRX + R(place, flow)
      /\ expiredTX' + T(pm, fm) = expiredTX + T(place, flow)
  BY <1>1, <1>2, <1>3, <1>4, <1>5, SweepBytes, BalanceIs
<1>7. R(place, flow)' = R(pm, fm) /\ T(place, flow)' = T(pm, fm)
  BY <1>4, <1>5 DEF R, T, Held, received, sent
<1>8. /\ UNCHANGED <<rxBytes, txBytes, unindexedRX, unindexedTX>>
      /\ unindexedRX \in Nat /\ unindexedTX \in Nat
  BY DEF Expire, Inv, TypeOK
<1>9. /\ R(place, flow) \in Nat /\ T(place, flow) \in Nat
      /\ R(pm, fm) \in Nat /\ T(pm, fm) \in Nat
  BY <1>1, OnFlowsType
<1>10. QED BY <1>6, <1>7, <1>8, <1>9, BalanceIs, BalanceNext

LEMMA RecordDropNewFlowBytes ==
  ASSUME Inv, Balance, NEW k \in Key, NEW src \in End, RecordDropNewFlow(k, src)
  PROVE  Balance'
<1>1. flow \in [Slot -> Flow] /\ place \in Tables /\ now \in Nat
  BY NowType DEF Inv
<1>2. PICK f \in Flow : f = droppedPacketFlow(k, src)
  BY <1>1, CreatedType
<1>3. NoBytes(f)
  BY <1>2, CreatedBytes
<1>4. PICK s \in Slot : /\ place[s] = "free"
                        /\ place' = [place EXCEPT ![s] = "flows"]
                        /\ flow' = [flow EXCEPT ![s] = f]
  BY <1>2 DEF RecordDropNewFlow
<1>5. /\ R([place EXCEPT ![s] = "flows"], [flow EXCEPT ![s] = f]) = R(place, flow)
      /\ T([place EXCEPT ![s] = "flows"], [flow EXCEPT ![s] = f]) = T(place, flow)
  BY <1>1, <1>3, <1>4, JoinBytes
<1>6. R(place, flow)' = R(place, flow) /\ T(place, flow)' = T(place, flow)
  BY <1>4, <1>5 DEF R, T, Held, received, sent
<1>7. UNCHANGED counters
  BY DEF RecordDropNewFlow
<1>8. QED BY <1>6, <1>7, BalanceIs, BalanceNext DEF counters

(* Results, drop reports and socket events on a known flow, and the socket  *)
(* inventory, name and end flows and leave their bytes alone.               *)
LEMMA QuietBytes ==
  ASSUME Inv, Balance, UNCHANGED place, UNCHANGED counters,
         \A x \in Slot : \/ flow'[x] = flow[x]
                         \/ \E i, failed : flow'[x] \in
                              {withRole(flow[x], i), withInventory(flow[x], i),
                               withResult(flow[x], failed), [flow[x] EXCEPT !.Last = now]},
         flow' \in [Slot -> Flow]
  PROVE  Balance'
<1>1. flow \in [Slot -> Flow]
  BY NowType DEF Inv
<1>2. PICK fl \in [Slot -> Flow] : fl = flow'
  OBVIOUS
<1>3. ASSUME NEW x \in Slot PROVE SameBytes(flow[x], fl[x])
  <2>1. flow[x] \in Flow /\ SameBytes(flow[x], flow[x])
    BY <1>1 DEF SameBytes
  <2>2. QED BY ZenonT(30), <1>2, <2>1, NamedBytes
<1>4. Held(place)' = Held(place)
  BY DEF Held
<1>5. QED BY <1>2, <1>3, <1>4, QuietBalance DEF counters

LEMMA NextBytes == Inv /\ Inv' /\ Balance /\ [Next]_vars => Balance'
<1> SUFFICES ASSUME Inv, Inv', Balance, [Next]_vars PROVE Balance'
  OBVIOUS
<1>1. flow \in [Slot -> Flow] /\ flow' \in [Slot -> Flow]
  BY DEF Inv, TypeOK
<1>2. ASSUME NEW k \in TCPKey, NEW failed \in BOOLEAN, ConnectResultOnFlow(k, failed) PROVE Balance'
  <2>1. \A x \in Slot : flow'[x] \in {flow[x], withResult(flow[x], failed)}
    BY <1>1, <1>2 DEF ConnectResultOnFlow
  <2>2. UNCHANGED <<place, counters>>
    BY <1>2 DEF ConnectResultOnFlow
  <2>3. QED BY <1>1, <2>1, <2>2, QuietBytes
<1>3. ASSUME NEW k \in Key, RecordDropOnFlow(k) PROVE Balance'
  <2>1. \A x \in Slot : flow'[x] \in {flow[x], [flow[x] EXCEPT !.Last = now]}
    BY <1>1, <1>3 DEF RecordDropOnFlow
  <2>2. UNCHANGED <<place, counters>>
    BY <1>3 DEF RecordDropOnFlow
  <2>3. QED BY <1>1, <2>1, <2>2, QuietBytes
<1>4. ASSUME NEW k \in TCPKey, NEW i \in End, SocketEventOnFlow(k, i) PROVE Balance'
  <2>1. \A x \in Slot : flow'[x] \in {flow[x], withRole(flow[x], i)}
    BY <1>1, <1>4 DEF SocketEventOnFlow
  <2>2. UNCHANGED <<place, counters>>
    BY <1>4 DEF SocketEventOnFlow
  <2>3. QED BY <1>1, <2>1, <2>2, QuietBytes
<1>5. CASE ApplySocketInventory
  <2>1. \A x \in Slot : flow'[x] = flow[x] \/ \E i : flow'[x] = withInventory(flow[x], i)
    BY <1>5 DEF ApplySocketInventory
  <2>2. UNCHANGED <<place, counters>>
    BY <1>5 DEF ApplySocketInventory
  <2>3. QED BY <1>1, <2>1, <2>2, QuietBytes
<1>6. CASE Tick \/ UNCHANGED vars
  <2>1. UNCHANGED <<place, flow, counters>>
    BY <1>6 DEF Tick, vars, table
  <2>2. QED BY <1>1, <2>1, QuietBytes
<1>7. QED BY <1>2, <1>3, <1>4, <1>5, <1>6, PacketOnFlowBytes, PacketNewFlowBytes, PacketUnindexedBytes,
             ConnectResultNewFlowBytes, RecordDropNewFlowBytes, ExpireBytes DEF Next, Key

(* No byte is lost or counted twice, for every table and every packet: what *)
(* the interface received is in an indexed flow, a retired flow, the expired *)
(* totals or the unindexed totals (packetAt, evict, expire, expireFlow).    *)
THEOREM NoByteLost == Spec => []BytesConserved
<1>1. Init => Balance
  <2>1. Init => R(place, flow) = 0 /\ T(place, flow) = 0
    <3>1. Init => Held(place) = {}
      BY DEF Init, Held
    <3>2. QED BY <3>1, SumEmpty DEF R, T
  <2>2. QED BY <2>1, BalanceIs DEF Init
<1>2. Balance => BytesConserved
  BY DEF Balance
<1>3. QED BY Invariance, <1>1, <1>2, NextBytes, PTL DEF Spec
=============================================================================
