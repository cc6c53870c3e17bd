--------------------------- MODULE StreamHubProofs ---------------------------
(***************************************************************************)
(* The change stream implements the subscription protocol, for any number  *)
(* of clients, any buffers and any number of changes.                      *)
(***************************************************************************)
EXTENDS StreamHub, SequenceTheorems, TLAPS

(***************************************************************************)
(* The inductive invariant.                                                *)
(***************************************************************************)
Pcs == {"idle", "busy", "done"}

TypeOK ==
  /\ listening \in BOOLEAN
  /\ backlog \subseteq Client /\ accepting \subseteq Client
  /\ joining \in Seq(Client) /\ clients \subseteq Client
  /\ closed \subseteq Client /\ hungUp \subseteq Client
  /\ frames \in [Client -> Seq(Frame)]
  /\ writing \in [Client -> {<<>>} \cup {<<f>> : f \in Frame}]
  /\ version \in 0..MaxVersion
  /\ view \in [Client -> NoView..MaxVersion]
  /\ loop \in [pc : Pcs, script : Seq(Frame), to : SUBSET Client]

(* A client is in one place on its way from the kernel to the loop, and the *)
(* loop offers frames to its own clients only.                              *)
OnePlace ==
  /\ backlog \cap (accepting \cup ToSet(joining) \cup clients) = {}
  /\ accepting \cap (ToSet(joining) \cup clients) = {}
  /\ ToSet(joining) \cap clients = {}
  /\ loop.to \subseteq clients
  /\ loop.pc # "busy" => loop.to = {}

(* What is left of a tick's frames: the snapshot is the first, no summary   *)
(* is after a change, and the changes lead up to the version without a gap. *)
Ordered(s, n) ==
  /\ Len(s) > 0
  /\ \A i \in 1..Len(s) :
       /\ s[i].kind = "snapshot" => i = 1 /\ s[i].upto = n
       /\ s[i].kind = "change" => s[i].upto = n - Len(s) + i
       /\ i > 1 /\ s[i - 1].kind = "change" => s[i].kind = "change"

Script == loop.pc = "busy" => Ordered(loop.script, version)

(* A frame takes a view from v to w: the snapshot nobody has had before, or *)
(* a change whose predecessor the view has.                                 *)
Follows(v, f, w) == w = apply(v, f) /\ (f.kind = "snapshot" => v = NoView)

(* The frames s take a view from v to w, through versions up to n. *)
Leads(v, s, w, n) ==
  \E lev \in [0..Len(s) -> NoView..n] :
    /\ lev[0] = v /\ lev[Len(s)] = w
    /\ \A i \in 1..Len(s) : Follows(lev[i - 1], s[i], lev[i])

(* The view once the frame being written has arrived. *)
written(c) == IF writing[c] = <<>> THEN view[c] ELSE apply(view[c], writing[c][1])

InWriting(c) ==
  writing[c] # <<>> => Follows(view[c], writing[c][1], written(c))

Greets(c) == c \in loop.to /\ loop.script[1].kind = "snapshot"

(* The frames of the running tick that c is still to be offered. *)
Offers(c) == {i \in 1..Len(loop.script) : i > 1 \/ c \in loop.to}

(* A view of w and the frames on offer bring c up to the version. *)
Suffices(c, w) ==
  IF loop.pc = "busy"
  THEN \/ w = version
       \/ \E i \in Offers(c) : loop.script[i].kind = "change" /\ loop.script[i].upto <= w + 1
  ELSE w = version

Greeted(c) == c \in clients /\ ~(loop.pc = "busy" /\ Greets(c))

Untouched(c) == view[c] = NoView /\ writing[c] = <<>> /\ frames[c] = <<>>

(* What is under way to an open client adds up to a view that the frames    *)
(* still on offer complete; a client not yet greeted has been sent nothing. *)
UnderWay ==
  \A c \in Client \ closed :
    /\ Greeted(c) => /\ InWriting(c)
                     /\ \E w \in 0..version : Leads(written(c), frames[c], w, version)
                                              /\ Suffices(c, w)
    /\ ~Greeted(c) => Untouched(c)

(* No view is ahead of the version. *)
Behind == \A c \in Client : view[c] <= version

IInv == TypeOK /\ OnePlace /\ Script /\ UnderWay /\ Behind

(***************************************************************************)
(* Types.                                                                  *)
(***************************************************************************)
LEMMA Versions == MaxVersion \in Nat /\ NoView = -1 /\ Gap = -2
  BY StreamHubAssumption DEF NoView, Gap

LEMMA Elements ==
  ASSUME NEW s \in Seq(Client)
  PROVE  /\ ToSet(s) \subseteq Client
         /\ \A c \in Client : ToSet(Append(s, c)) = ToSet(s) \cup {c}
         /\ ToSet(<<>>) = {}
<1>1. ToSet(s) \subseteq Client /\ ToSet(<<>>) = {}
  BY DEF ToSet
<1>2. ASSUME NEW c \in Client PROVE ToSet(Append(s, c)) = ToSet(s) \cup {c}
  <2>1. /\ DOMAIN Append(s, c) = 1..(Len(s) + 1) /\ DOMAIN s = 1..Len(s) /\ Len(s) \in Nat
        /\ \A i \in 1..(Len(s) + 1) :
             Append(s, c)[i] = IF i = Len(s) + 1 THEN c ELSE s[i]
    OBVIOUS
  <2> QED BY <2>1 DEF ToSet
<1> QED BY <1>1, <1>2

LEMMA FrameFields ==
  ASSUME NEW f \in Frame
  PROVE  /\ f.kind \in {"snapshot", "change", "stats"} /\ f.upto \in 0..MaxVersion
         /\ f.kind = "change" => f.upto >= 1
<1>1. CASE f = Stats
  BY <1>1, Versions DEF Stats
<1>2. ASSUME NEW v \in 0..MaxVersion, f = Snapshot(v) \/ (f = Change(v) /\ v >= 1)
      PROVE  f.kind \in {"snapshot", "change"} /\ f.upto = v /\ (f.kind = "change" => v >= 1)
  BY <1>2 DEF Snapshot, Change
<1> QED BY <1>1, <1>2, Versions DEF Frame, Stats

(* The frames of a tick, in their order. *)
script(n, stats) ==
  <<Snapshot(version + n)>> \o (IF stats THEN <<Stats>> ELSE <<>>)
    \o [i \in 1..n |-> Change(version + i)]

LEMMA ScriptFrames ==
  ASSUME version \in Nat, NEW n \in Nat, NEW stats \in BOOLEAN, version + n <= MaxVersion
  PROVE  LET s == script(n, stats)  head == IF stats THEN 2 ELSE 1 IN
         /\ s \in Seq(Frame) /\ Len(s) = head + n
         /\ s[1] = Snapshot(version + n)
         /\ stats => s[2] = Stats
         /\ \A i \in 1..Len(s) : i > head => s[i] = Change(version + (i - head))
<1> DEFINE changes == [i \in 1..n |-> Change(version + i)]
           front == <<Snapshot(version + n)>> \o (IF stats THEN <<Stats>> ELSE <<>>)
           head == IF stats THEN 2 ELSE 1
<1>1. changes \in Seq(Frame) /\ Len(changes) = n
  BY Versions DEF Frame
<1>2. Snapshot(version + n) \in Frame /\ Stats \in Frame
  BY Versions DEF Frame
<1>3. /\ front \in Seq(Frame) /\ Len(front) = head /\ front[1] = Snapshot(version + n)
      /\ stats => front[2] = Stats
  BY <1>2
<1>4. \A i \in 1..n : changes[i] = Change(version + i)
  OBVIOUS
<1> head \in Nat
  OBVIOUS
<1> HIDE DEF changes, front, head
<1>5. /\ front \o changes \in Seq(Frame) /\ Len(front \o changes) = head + n
      /\ \A i \in 1..(head + n) :
           (front \o changes)[i] = IF i <= head THEN front[i] ELSE changes[i - head]
  BY <1>1, <1>3
<1>6. \A i \in 1..(head + n) : i > head => (front \o changes)[i] = Change(version + (i - head))
  BY <1>4, <1>5
<1>7. script(n, stats) = front \o changes
  BY DEF script, front, changes
<1>8. /\ (front \o changes)[1] = Snapshot(version + n)
      /\ stats => (front \o changes)[2] = Stats
  BY <1>3, <1>5 DEF head
<1> QED BY <1>5, <1>6, <1>7, <1>8 DEF head

LEMMA InitType == Init => TypeOK
  BY Versions DEF Init, TypeOK, IdleLoop, NoClient, Pcs

LEMMA AcceptTypes ==
  ASSUME TypeOK, NEW c \in Client, Dial(c) \/ Accept(c) \/ Join(c) \/ HangUp(c)
  PROVE  TypeOK'
<1>1. Append(joining, c) \in Seq(Client)
  BY DEF TypeOK
<1>2. CASE Dial(c) \/ Accept(c) \/ HangUp(c)
  BY <1>2 DEF TypeOK, Dial, Accept, HangUp, connections, NoClient
<1>3. CASE Join(c)
  BY <1>1, <1>3 DEF TypeOK, Join, NoClient
<1> QED BY <1>2, <1>3

LEMMA ViewType ==
  ASSUME NEW v \in NoView..MaxVersion, NEW f \in Frame, apply(v, f) # Gap
  PROVE  apply(v, f) \in 0..MaxVersion
  BY Versions, FrameFields DEF apply

LEMMA WriterTypes ==
  ASSUME IInv, NEW c \in Client, Writer(c)
  PROVE  TypeOK'
<1>1. CASE Take(c)
  <2>1. frames[c] \in Seq(Frame) /\ frames[c] # <<>>
    BY <1>1 DEF IInv, TypeOK, Take
  <2>2. Head(frames[c]) \in Frame /\ Tail(frames[c]) \in Seq(Frame)
    BY <2>1
  <2> QED BY <1>1, <2>2 DEF IInv, TypeOK, Take, connections
<1>2. CASE Write(c)
  <2>1. PICK f \in Frame : writing[c] = <<f>>
    BY <1>2 DEF IInv, TypeOK, Write
  <2>2. view[c] \in NoView..MaxVersion /\ c \in Client \ closed
    BY <1>2 DEF IInv, TypeOK, Write
  <2>3. Greeted(c)
    BY <1>2, <2>2 DEF IInv, UnderWay, Untouched, Write
  <2>4. PICK w \in 0..version : Leads(written(c), frames[c], w, version)
    BY <2>2, <2>3 DEF IInv, UnderWay
  <2>5. written(c) = apply(view[c], f)
    BY <2>1 DEF written
  <2>6. apply(view[c], f) \in NoView..version /\ version \in Nat
    <3>1. PICK lev \in [0..Len(frames[c]) -> NoView..version] : lev[0] = written(c)
      BY <2>4 DEF Leads
    <3>2. frames[c] \in Seq(Frame) /\ version \in Nat
      BY Versions DEF IInv, TypeOK
    <3>3. 0 \in 0..Len(frames[c])
      BY <3>2
    <3> QED BY <3>1, <3>2, <3>3, <2>5
  <2>7. apply(view[c], f) \in NoView..MaxVersion
    BY <2>1, <2>2, <2>6, ViewType, Versions
  <2>8. view' \in [Client -> NoView..MaxVersion]
    BY <1>2, <2>1, <2>7 DEF IInv, TypeOK, Write
  <2>9. writing' \in [Client -> {<<>>} \cup {<<g>> : g \in Frame}]
    BY <1>2 DEF IInv, TypeOK, Write
  <2> QED BY <1>2, <2>8, <2>9 DEF IInv, TypeOK, Write, connections
<1>3. CASE WriteFails(c)
  BY <1>3 DEF IInv, TypeOK, WriteFails, connections
<1> QED BY <1>1, <1>2, <1>3 DEF Writer

LEMMA IdleType ==
  /\ IdleLoop \in [pc : Pcs, script : Seq(Frame), to : SUBSET Client]
  /\ [IdleLoop EXCEPT !.pc = "done"] \in [pc : Pcs, script : Seq(Frame), to : SUBSET Client]
<1>1. <<>> \in Seq(Frame) /\ {} \in SUBSET Client
  OBVIOUS
<1> QED BY <1>1 DEF IdleLoop, Pcs

LEMMA LoopTypes ==
  ASSUME TypeOK, OnePlace, Script, Ticks \/ Send \/ StopListening \/ CloseClients
  PROVE  TypeOK'
<1>1. ASSUME NEW n \in 0..MaxTick, NEW stats \in BOOLEAN, Tick(n, stats) PROVE TypeOK'
  <2>1. version \in Nat /\ n \in Nat /\ version + n \in 0..MaxVersion
    BY <1>1, StreamHubAssumption, Versions DEF TypeOK, Tick
  <2>2. script(n, stats) \in Seq(Frame)
    BY <2>1, ScriptFrames
  <2>3. ToSet(joining) \subseteq Client
    BY Elements DEF TypeOK
  <2>4. loop' \in {IdleLoop, [pc |-> "busy", to |-> ToSet(joining), script |-> script(n, stats)]}
    BY <1>1 DEF Tick, script
  <2>5. loop' \in [pc : Pcs, script : Seq(Frame), to : SUBSET Client]
    <3> HIDE DEF script
    <3> QED BY <2>2, <2>3, <2>4, IdleType DEF Pcs
  <2>6. version' \in 0..MaxVersion /\ joining' \in Seq(Client) /\ clients' \subseteq Client
    BY <1>1, <2>1, <2>3 DEF TypeOK, Tick
  <2> QED BY <1>1, <2>5, <2>6 DEF TypeOK, Tick, connections
<1>2. CASE NextFrame
  <2>1. Tail(loop.script) \in Seq(Frame)
    <3>1. loop.script \in Seq(Frame) /\ Len(loop.script) > 0
      BY <1>2 DEF TypeOK, Script, Ordered, NextFrame
    <3> QED BY <3>1
  <2>2. loop' \in {IdleLoop, [loop EXCEPT !.script = Tail(loop.script), !.to = clients]}
    BY <1>2 DEF NextFrame
  <2>3. loop' \in [pc : Pcs, script : Seq(Frame), to : SUBSET Client]
    BY <2>1, <2>2, IdleType DEF TypeOK
  <2> QED BY <1>2, <2>3 DEF TypeOK, NextFrame, connections
<1>3. ASSUME NEW c \in Client, Offer(c) PROVE TypeOK'
  <2>1. loop' \in [pc : Pcs, script : Seq(Frame), to : SUBSET Client]
    BY <1>3 DEF TypeOK, Offer
  <2>2. CASE room(c) /\ loop.script # <<>>
    <3>1. Append(frames[c], Head(loop.script)) \in Seq(Frame)
      BY <2>2 DEF TypeOK
    <3> QED BY <1>3, <2>1, <2>2, <3>1 DEF TypeOK, Offer, connections
  <2>3. CASE ~room(c)
    BY <1>3, <2>1, <2>3 DEF TypeOK, Offer, connections
  <2>4. Len(loop.script) > 0
    BY <1>3 DEF OnePlace, Script, Ordered, Offer
  <2> QED BY <2>2, <2>3, <2>4
<1>4. CASE StopListening
  BY <1>4 DEF TypeOK, StopListening
<1>5. CASE CloseClients
  <2>1. ToSet(joining) \subseteq Client
    BY Elements DEF TypeOK
  <2>2. loop' \in [pc : Pcs, script : Seq(Frame), to : SUBSET Client]
    BY <1>5, IdleType DEF CloseClients
  <2>3. joining' \in Seq(Client) /\ clients' \subseteq Client /\ closed' \subseteq Client
    BY <1>5, <2>1 DEF TypeOK, CloseClients
  <2> QED BY <1>5, <2>2, <2>3 DEF TypeOK, CloseClients, connections
<1> QED BY <1>1, <1>2, <1>3, <1>4, <1>5 DEF Ticks, Send

(***************************************************************************)
(* Places and scripts.                                                     *)
(***************************************************************************)
LEMMA PlaceStep ==
  ASSUME TypeOK, OnePlace, Next
  PROVE  OnePlace'
<1>1. ToSet(joining) \subseteq Client /\ ToSet(<<>>) = {}
  BY Elements DEF TypeOK
<1>2. ASSUME NEW c \in Client, Dial(c) \/ Accept(c) \/ HangUp(c) PROVE OnePlace'
  BY <1>2 DEF OnePlace, Dial, Accept, HangUp, connections, NoClient
<1>3. ASSUME NEW c \in Client, Join(c) PROVE OnePlace'
  <2>1. ToSet(joining') \subseteq ToSet(joining) \cup {c}
    BY <1>3, Elements DEF TypeOK, Join
  <2> QED BY <1>3, <2>1 DEF OnePlace, Join, NoClient
<1>4. ASSUME NEW c \in Client, Writer(c) PROVE OnePlace'
  BY <1>4 DEF OnePlace, Writer, Take, Write, WriteFails, connections
<1>5. ASSUME NEW n \in 0..MaxTick, NEW stats \in BOOLEAN, Tick(n, stats) PROVE OnePlace'
  <2>1. clients' = clients \cup ToSet(joining) /\ ToSet(joining') = {}
    BY <1>1, <1>5 DEF Tick
  <2>2. loop'.to \subseteq ToSet(joining) /\ (loop'.pc # "busy" => loop'.to = {})
    BY <1>5 DEF Tick, IdleLoop
  <2> QED BY <1>5, <2>1, <2>2 DEF OnePlace, Tick, connections
<1>6. CASE NextFrame
  <2>1. loop'.to \subseteq clients /\ (loop'.pc # "busy" => loop'.to = {})
    BY <1>6 DEF TypeOK, NextFrame, IdleLoop
  <2> QED BY <1>6, <2>1 DEF OnePlace, NextFrame, connections
<1>7. ASSUME NEW c \in Client, Offer(c) PROVE OnePlace'
  <2>1. loop'.to = loop.to \ {c} /\ loop'.pc = loop.pc
    BY <1>7 DEF TypeOK, Offer
  <2>2. clients' \in {clients, clients \ {c}}
    BY <1>7 DEF Offer
  <2> QED BY <1>7, <2>1, <2>2 DEF OnePlace, Offer, connections
<1>8. CASE StopListening
  BY <1>8 DEF OnePlace, StopListening
<1>9. CASE CloseClients
  <2>1. loop'.to = {} /\ loop'.pc = "done" /\ clients' = {} /\ ToSet(joining') = {}
    BY <1>1, <1>9 DEF CloseClients, IdleLoop
  <2> QED BY <1>9, <2>1 DEF OnePlace, CloseClients, connections
<1> QED BY <1>2, <1>3, <1>4, <1>5, <1>6, <1>7, <1>8, <1>9 DEF Next, Ticks, Send

LEMMA OrderedScript ==
  ASSUME version \in Nat, NEW n \in Nat, NEW stats \in BOOLEAN, version + n <= MaxVersion
  PROVE  Ordered(script(n, stats), version + n)
<1> DEFINE s == script(n, stats)
<1>1. PICK head \in {1, 2} :
        /\ head = 2 <=> stats
        /\ s \in Seq(Frame) /\ Len(s) = head + n /\ s[1] = Snapshot(version + n)
        /\ stats => s[2] = Stats
        /\ \A i \in 1..Len(s) : i > head => s[i] = Change(version + (i - head))
  <2>1. CASE stats
    BY <2>1, ScriptFrames
  <2>2. CASE ~stats
    BY <2>2, ScriptFrames
  <2> QED BY <2>1, <2>2
<1> HIDE DEF s
<1>2. ASSUME NEW i \in 1..Len(s)
      PROVE  /\ s[i].kind = "snapshot" => i = 1 /\ s[i].upto = version + n
             /\ s[i].kind = "change" => s[i].upto = version + n - Len(s) + i
             /\ i > 1 /\ s[i - 1].kind = "change" => s[i].kind = "change"
  <2>1. CASE i > head
    <3>1. s[i].kind = "change" /\ s[i].upto = version + (i - head)
      BY <1>1, <2>1 DEF Change
    <3>2. version + (i - head) = version + n - Len(s) + i
      BY <1>1
    <3> QED BY <3>1, <3>2
  <2>2. CASE i = 1
    <3>1. s[i].kind = "snapshot" /\ s[i].upto = version + n
      BY <1>1, <2>2 DEF Snapshot
    <3> QED BY <2>2, <3>1
  <2>3. CASE i = 2 /\ stats
    <3>1. s[i].kind = "stats" /\ s[1].kind = "snapshot"
      BY <1>1, <2>3 DEF Stats, Snapshot
    <3> QED BY <2>3, <3>1
  <2> QED BY <1>1, <2>1, <2>2, <2>3
<1>3. Len(s) > 0
  BY <1>1
<1> QED BY <1>2, <1>3 DEF Ordered, s

LEMMA OrderedTail ==
  ASSUME NEW n \in Nat, NEW s \in Seq(Frame), Ordered(s, n), Len(s) # 1
  PROVE  /\ Ordered(Tail(s), n)
         /\ Len(Tail(s)) = Len(s) - 1
         /\ \A i \in 1..(Len(s) - 1) : Tail(s)[i] = s[i + 1] /\ s[i + 1].kind # "snapshot"
<1>1. Len(s) \in Nat /\ Len(s) > 1
  <2>1. Len(s) > 0
    BY DEF Ordered
  <2>2. Len(s) \in Nat
    BY LenProperties
  <2>3. \A k \in Nat : k > 0 /\ k # 1 => k > 1
    OBVIOUS
  <2> QED BY <2>1, <2>2, <2>3
<1>2. Len(Tail(s)) = Len(s) - 1 /\ \A i \in 1..(Len(s) - 1) : Tail(s)[i] = s[i + 1]
  BY <1>1
<1>3. ASSUME NEW i \in 1..(Len(s) - 1)
      PROVE  /\ s[i + 1].kind # "snapshot"
             /\ s[i + 1].kind = "change" => s[i + 1].upto = n - (Len(s) - 1) + i
             /\ i > 1 /\ s[(i - 1) + 1].kind = "change" => s[i + 1].kind = "change"
  <2>1. i + 1 \in 1..Len(s) /\ i + 1 # 1 /\ (i + 1) - 1 = i /\ (i - 1) + 1 = i /\ i + 1 > 1
    BY <1>1
  <2>2. n - Len(s) + (i + 1) = n - (Len(s) - 1) + i
    BY <1>1
  <2> QED BY <2>1, <2>2 DEF Ordered
<1>4. ASSUME NEW i \in 1..(Len(s) - 1), i > 1 PROVE Tail(s)[i - 1] = s[(i - 1) + 1]
  <2>1. i - 1 \in 1..(Len(s) - 1)
    BY <1>1, <1>4
  <2> QED BY <1>2, <2>1
<1>5. Len(Tail(s)) > 0
  BY <1>1, <1>2
<1>6. ASSUME NEW i \in 1..Len(Tail(s))
      PROVE  /\ Tail(s)[i].kind = "snapshot" => i = 1 /\ Tail(s)[i].upto = n
             /\ Tail(s)[i].kind = "change" => Tail(s)[i].upto = n - Len(Tail(s)) + i
             /\ i > 1 /\ Tail(s)[i - 1].kind = "change" => Tail(s)[i].kind = "change"
  <2>1. i \in 1..(Len(s) - 1) /\ Len(Tail(s)) = Len(s) - 1 /\ Tail(s)[i] = s[i + 1]
    BY <1>2
  <2>2. i > 1 => Tail(s)[i - 1] = s[(i - 1) + 1]
    BY <1>4, <2>1
  <2> QED BY <1>3, <2>1, <2>2
<1> QED BY <1>2, <1>3, <1>5, <1>6 DEF Ordered

LEMMA ScriptStep ==
  ASSUME TypeOK, Script, Next
  PROVE  Script'
<1>1. version \in Nat
  BY Versions DEF TypeOK
<1>2. CASE UNCHANGED <<version, loop>>
  BY <1>2 DEF Script
<1>3. ASSUME NEW n \in 0..MaxTick, NEW stats \in BOOLEAN, Tick(n, stats) PROVE Script'
  <2>1. version \in Nat /\ n \in Nat /\ version + n <= MaxVersion /\ version' = version + n
    BY <1>1, <1>3, StreamHubAssumption, Versions DEF Tick
  <2>2. \/ loop' = IdleLoop
        \/ loop' = [pc |-> "busy", to |-> ToSet(joining), script |-> script(n, stats)]
    BY <1>3 DEF Tick, script
  <2>3. loop'.pc = "busy" => loop'.script = script(n, stats)
    BY <2>2 DEF IdleLoop
  <2>4. Ordered(script(n, stats), version + n)
    BY <2>1, OrderedScript
  <2> QED BY <2>1, <2>3, <2>4 DEF Script
<1>4. CASE NextFrame
  <2>1. loop.script \in Seq(Frame) /\ Ordered(loop.script, version) /\ version' = version
    BY <1>4 DEF TypeOK, Script, NextFrame
  <2>2. Len(loop.script) # 1 => Ordered(Tail(loop.script), version)
    BY <1>1, <2>1, OrderedTail
  <2>3. loop'.pc = "busy" => loop'.script = Tail(loop.script) /\ Len(loop.script) # 1
    BY <1>4 DEF TypeOK, NextFrame, IdleLoop
  <2> QED BY <2>1, <2>2, <2>3 DEF Script
<1>5. ASSUME NEW c \in Client, Offer(c) PROVE Script'
  BY <1>5 DEF TypeOK, Script, Offer
<1>6. CASE CloseClients
  BY <1>6 DEF Script, CloseClients, IdleLoop
<1> QED BY <1>2, <1>3, <1>4, <1>5, <1>6
        DEF Next, Ticks, Send, Dial, Accept, Join, HangUp, Writer, Take, Write, WriteFails,
            StopListening

(***************************************************************************)
(* What frames lead to.                                                    *)
(***************************************************************************)
LEMMA LeadsNowhere ==
  ASSUME NEW n \in Nat, NEW v \in NoView..n
  PROVE  Leads(v, <<>>, v, n)
<1> DEFINE lev == [i \in 0..0 |-> v]
<1>1. /\ lev \in [0..Len(<<>>) -> NoView..n] /\ lev[0] = v /\ lev[Len(<<>>)] = v
      /\ \A i \in 1..Len(<<>>) : Follows(lev[i - 1], <<>>[i], lev[i])
  OBVIOUS
<1> QED BY <1>1 DEF Leads

LEMMA LeadsLater ==
  ASSUME NEW n \in Nat, NEW m \in Nat, n <= m, NEW v, NEW w, NEW s, Leads(v, s, w, n)
  PROVE  Leads(v, s, w, m)
<1>1. PICK lev \in [0..Len(s) -> NoView..n] :
        /\ lev[0] = v /\ lev[Len(s)] = w
        /\ \A i \in 1..Len(s) : Follows(lev[i - 1], s[i], lev[i])
  BY DEF Leads
<1>2. NoView..n \subseteq NoView..m
  BY Versions
<1>3. lev \in [0..Len(s) -> NoView..m]
  BY <1>2
<1> QED BY <1>1, <1>3 DEF Leads

LEMMA LeadsRange ==
  ASSUME NEW n \in Nat, NEW v, NEW w, NEW s \in Seq(Frame), Leads(v, s, w, n)
  PROVE  v \in NoView..n
<1>1. PICK lev \in [0..Len(s) -> NoView..n] : lev[0] = v
  BY DEF Leads
<1>2. 0 \in 0..Len(s)
  OBVIOUS
<1> QED BY <1>1, <1>2

LEMMA LeadsTail ==
  ASSUME NEW n \in Nat, NEW v, NEW w, NEW s \in Seq(Frame), s # <<>>, Leads(v, s, w, n)
  PROVE  /\ Follows(v, Head(s), apply(v, Head(s)))
         /\ Leads(apply(v, Head(s)), Tail(s), w, n)
<1>1. PICK lev \in [0..Len(s) -> NoView..n] :
        /\ lev[0] = v /\ lev[Len(s)] = w
        /\ \A i \in 1..Len(s) : Follows(lev[i - 1], s[i], lev[i])
  BY DEF Leads
<1>2. Len(s) \in Nat /\ Len(s) >= 1 /\ Head(s) = s[1]
  OBVIOUS
<1>3. Len(Tail(s)) = Len(s) - 1 /\ \A i \in 1..(Len(s) - 1) : Tail(s)[i] = s[i + 1]
  OBVIOUS
<1>4. Follows(v, Head(s), lev[1])
  <2>1. 1 \in 1..Len(s) /\ 1 - 1 = 0
    BY <1>2
  <2>2. Follows(lev[1 - 1], s[1], lev[1])
    BY <1>1, <2>1
  <2> QED BY <1>1, <1>2, <2>1, <2>2
<1> DEFINE later == [i \in 0..(Len(s) - 1) |-> lev[i + 1]]
<1>5. later \in [0..(Len(s) - 1) -> NoView..n]
  <2>1. \A i \in 0..(Len(s) - 1) : i + 1 \in 0..Len(s)
    BY <1>2
  <2> QED BY <2>1
<1>6. later[0] = lev[1] /\ later[Len(s) - 1] = w
  BY <1>1, <1>2
<1>7. ASSUME NEW i \in 1..(Len(s) - 1)
      PROVE  Follows(later[i - 1], Tail(s)[i], later[i])
  <2>1. i \in Nat /\ i + 1 \in 1..Len(s) /\ (i + 1) - 1 = i
    BY <1>2
  <2>2. later[i - 1] = lev[i] /\ later[i] = lev[i + 1]
    <3>1. i - 1 \in 0..(Len(s) - 1) /\ i \in 0..(Len(s) - 1) /\ (i - 1) + 1 = i
      BY <1>2, <2>1
    <3> QED BY <3>1
  <2>3. Follows(lev[i], s[i + 1], lev[i + 1])
    BY <1>1, <2>1
  <2> QED BY <1>3, <2>2, <2>3
<1> HIDE DEF later
<1>8. Leads(lev[1], Tail(s), w, n)
  BY <1>3, <1>5, <1>6, <1>7 DEF Leads
<1> QED BY <1>4, <1>8 DEF Follows

LEMMA LeadsAppend ==
  ASSUME NEW n \in Nat, NEW v, NEW w, NEW s \in Seq(Frame), Leads(v, s, w, n),
         NEW f \in Frame, NEW x \in NoView..n, Follows(w, f, x)
  PROVE  Leads(v, Append(s, f), x, n)
<1>1. PICK lev \in [0..Len(s) -> NoView..n] :
        /\ lev[0] = v /\ lev[Len(s)] = w
        /\ \A i \in 1..Len(s) : Follows(lev[i - 1], s[i], lev[i])
  BY DEF Leads
<1>2. Len(s) \in Nat
  OBVIOUS
<1>3. /\ Len(Append(s, f)) = Len(s) + 1 /\ Append(s, f)[Len(s) + 1] = f
      /\ \A i \in 1..Len(s) : Append(s, f)[i] = s[i]
  OBVIOUS
<1> DEFINE more == [i \in 0..(Len(s) + 1) |-> IF i = Len(s) + 1 THEN x ELSE lev[i]]
<1>4. more \in [0..(Len(s) + 1) -> NoView..n]
  <2>1. \A i \in 0..(Len(s) + 1) : i # Len(s) + 1 => i \in 0..Len(s)
    BY <1>2
  <2> QED BY <1>1, <2>1
<1>5. more[Len(s) + 1] = x /\ \A i \in 0..Len(s) : more[i] = lev[i]
  <2>1. \A i \in 0..Len(s) : i \in 0..(Len(s) + 1) /\ i # Len(s) + 1
    BY <1>2
  <2> QED BY <1>2, <2>1
<1>6. ASSUME NEW i \in 1..(Len(s) + 1)
      PROVE  Follows(more[i - 1], Append(s, f)[i], more[i])
  <2>1. CASE i = Len(s) + 1
    <3>1. i - 1 = Len(s) /\ Len(s) \in 0..Len(s)
      BY <1>2, <2>1
    <3>2. more[i - 1] = w /\ more[i] = x /\ Append(s, f)[i] = f
      BY <1>1, <1>3, <1>5, <2>1, <3>1
    <3> QED BY <3>2
  <2>2. CASE i # Len(s) + 1
    <3>1. i \in 1..Len(s) /\ i \in 0..Len(s) /\ i - 1 \in 0..Len(s)
      BY <1>2, <2>2
    <3> HIDE DEF more
    <3> QED BY <1>1, <1>3, <1>5, <3>1
  <2> QED BY <2>1, <2>2
<1>7. more[0] = v
  BY <1>1, <1>2, <1>5
<1> HIDE DEF more
<1> QED BY <1>3, <1>4, <1>5, <1>6, <1>7 DEF Leads

(***************************************************************************)
(* What is under way.                                                      *)
(***************************************************************************)
(* What UnderWay says of one client. *)
Sent(c) ==
  /\ InWriting(c)
  /\ \E w \in 0..version : Leads(written(c), frames[c], w, version) /\ Suffices(c, w)

OfClient(c) == IF Greeted(c) THEN Sent(c) ELSE Untouched(c)

LEMMA UnderWayClients ==
  /\ UnderWay <=> \A c \in Client \ closed : OfClient(c)
  /\ UnderWay' <=> \A c \in Client \ closed' : OfClient(c)'
  BY DEF UnderWay, OfClient, Sent

(* Nothing changes for a client whose frames, view and offers stay. *)
LEMMA SameClient ==
  ASSUME NEW c, OfClient(c), UNCHANGED <<loop, version>>,
         clients' = clients, frames'[c] = frames[c], writing'[c] = writing[c], view'[c] = view[c]
  PROVE  OfClient(c)'
<1>1. /\ Greeted(c)' <=> Greeted(c)
      /\ Untouched(c)' <=> Untouched(c)
      /\ InWriting(c)' <=> InWriting(c)
      /\ written(c)' = written(c)
      /\ \A w : Suffices(c, w)' <=> Suffices(c, w)
  BY DEF Greeted, Greets, Untouched, InWriting, written, Suffices, Offers
<1> QED BY <1>1 DEF OfClient, Sent

LEMMA OpenGreeted ==
  ASSUME UnderWay, NEW c \in Client \ closed, writing[c] # <<>> \/ frames[c] # <<>>
  PROVE  Greeted(c) /\ Sent(c)
  BY UnderWayClients DEF OfClient, Untouched

LEMMA WriterUnderWay ==
  ASSUME IInv, NEW c \in Client, Writer(c)
  PROVE  UnderWay'
<1>1. version \in Nat /\ frames[c] \in Seq(Frame)
  BY Versions DEF IInv, TypeOK
<1>2. CASE WriteFails(c)
  BY <1>2, SameClient, UnderWayClients DEF IInv, WriteFails
<1>3. ASSUME Take(c) \/ Write(c), NEW d \in Client \ closed, d # c PROVE OfClient(d)'
  <2>1. /\ UNCHANGED <<loop, version>> /\ clients' = clients
        /\ frames'[d] = frames[d] /\ writing'[d] = writing[d] /\ view'[d] = view[d]
    BY <1>3 DEF IInv, TypeOK, Take, Write
  <2>2. OfClient(d)
    BY UnderWayClients DEF IInv
  <2> QED BY <2>1, <2>2, SameClient
<1>4. ASSUME Take(c) PROVE OfClient(c)'
  <2> DEFINE f == Head(frames[c])
  <2>1. c \in Client \ closed /\ frames[c] # <<>> /\ writing[c] = <<>>
    BY <1>4 DEF Take
  <2>2. Greeted(c) /\ Sent(c)
    BY <2>1, OpenGreeted DEF IInv
  <2>3. PICK w \in 0..version : Leads(written(c), frames[c], w, version) /\ Suffices(c, w)
    BY <2>2 DEF Sent
  <2>4. Follows(view[c], f, apply(view[c], f)) /\ Leads(apply(view[c], f), Tail(frames[c]), w, version)
    BY <1>1, <2>1, <2>3, LeadsTail DEF written
  <2>5. /\ writing'[c] = <<f>> /\ frames'[c] = Tail(frames[c]) /\ view'[c] = view[c]
        /\ UNCHANGED <<loop, version, clients>>
    BY <1>4 DEF IInv, TypeOK, Take
  <2>6. written(c)' = apply(view[c], f)
    BY <2>5 DEF written
  <2>7. InWriting(c)' /\ Greeted(c)' /\ Suffices(c, w)'
    BY <2>2, <2>3, <2>4, <2>5, <2>6 DEF InWriting, Greeted, Greets, Suffices, Offers
  <2> QED BY <2>3, <2>4, <2>5, <2>6, <2>7 DEF OfClient, Sent
<1>5. ASSUME Write(c) PROVE OfClient(c)'
  <2>1. c \in Client \ closed /\ writing[c] # <<>>
    BY <1>5 DEF Write
  <2>2. Greeted(c) /\ Sent(c)
    BY <2>1, OpenGreeted DEF IInv
  <2>3. PICK w \in 0..version : Leads(written(c), frames[c], w, version) /\ Suffices(c, w)
    BY <2>2 DEF Sent
  <2>4. PICK f \in Frame : writing[c] = <<f>>
    BY <2>1 DEF IInv, TypeOK
  <2>5. view'[c] = apply(view[c], Head(writing[c])) /\ Head(writing[c]) = f /\ writing[c][1] = f
    BY <1>5, <2>4 DEF IInv, TypeOK, Write
  <2>6. /\ writing'[c] = <<>> /\ frames'[c] = frames[c]
        /\ UNCHANGED <<loop, version, clients>>
    BY <1>5 DEF IInv, TypeOK, Write
  <2>7. written(c)' = written(c)
    BY <2>1, <2>5, <2>6 DEF written
  <2>8. InWriting(c)' /\ Greeted(c)' /\ Suffices(c, w)'
    BY <2>2, <2>3, <2>6 DEF InWriting, Greeted, Greets, Suffices, Offers
  <2> QED BY <2>3, <2>6, <2>7, <2>8 DEF OfClient, Sent
<1>6. Take(c) \/ Write(c) => closed' = closed
  BY DEF Take, Write
<1>7. CASE Take(c)
  BY <1>3, <1>4, <1>6, <1>7, UnderWayClients
<1>8. CASE Write(c)
  BY <1>3, <1>5, <1>6, <1>8, UnderWayClients
<1> QED BY <1>2, <1>7, <1>8 DEF Writer

LEMMA TickUnderWay ==
  ASSUME IInv, NEW n \in 0..MaxTick, NEW stats \in BOOLEAN, Tick(n, stats)
  PROVE  UnderWay'
<1>1. version \in Nat /\ n \in Nat /\ version + n <= MaxVersion /\ version' = version + n
  BY StreamHubAssumption, Versions DEF IInv, TypeOK, Tick
<1>2. UNCHANGED <<frames, writing, view, closed>> /\ clients' = clients \cup ToSet(joining)
  BY DEF Tick
<1>3. \/ clients' = {} /\ loop' = IdleLoop
      \/ loop' = [pc |-> "busy", to |-> ToSet(joining), script |-> script(n, stats)]
  BY DEF Tick, script
<1>4. loop.pc = "idle"
  BY DEF Tick
<1>5. ASSUME NEW c \in Client \ closed, c \in clients PROVE OfClient(c)'
  <2>1. loop' = [pc |-> "busy", to |-> ToSet(joining), script |-> script(n, stats)]
    BY <1>2, <1>3, <1>5
  <2>2. Greeted(c) /\ Sent(c)
    BY <1>4, <1>5, UnderWayClients DEF IInv, OfClient, Greeted
  <2>3. PICK w \in 0..version : w = version /\ Leads(written(c), frames[c], w, version)
    BY <1>4, <2>2 DEF Sent, Suffices
  <2>4. Leads(written(c), frames[c], w, version + n)
    BY <1>1, <2>3, LeadsLater
  <2>5. c \notin ToSet(joining)
    BY <1>5 DEF IInv, OnePlace
  <2>6. Greeted(c)'
    BY <1>2, <1>5, <2>1, <2>5 DEF Greeted, Greets
  <2>7. Suffices(c, w)'
    <3>1. CASE n = 0
      BY <1>1, <2>3, <3>1 DEF Suffices
    <3>2. CASE n # 0
      <4> DEFINE s == script(n, stats)
      <4>1. PICK head \in {1, 2} :
              /\ s \in Seq(Frame) /\ Len(s) = head + n
              /\ \A i \in 1..Len(s) : i > head => s[i] = Change(version + (i - head))
        <5>1. CASE stats
          BY <1>1, <5>1, ScriptFrames
        <5>2. CASE ~stats
          BY <1>1, <5>2, ScriptFrames
        <5> QED BY <5>1, <5>2
      <4> HIDE DEF s
      <4>2. head + 1 \in 1..Len(s) /\ head + 1 > head /\ (head + 1) - head = 1 /\ head + 1 > 1
        BY <1>1, <3>2, <4>1
      <4>3. s[head + 1] = Change(version + 1)
        BY <4>1, <4>2
      <4>4. s[head + 1].kind = "change" /\ s[head + 1].upto <= version + 1
        BY <1>1, <4>3 DEF Change
      <4>5. loop'.pc = "busy" /\ loop'.script = s
        BY <2>1 DEF s
      <4>6. head + 1 \in Offers(c)'
        BY <4>2, <4>5 DEF Offers
      <4> QED BY <2>3, <4>4, <4>5, <4>6 DEF Suffices
    <3> QED BY <3>1, <3>2
  <2>8. InWriting(c)' /\ written(c)' = written(c)
    BY <1>2, <2>2 DEF Sent, InWriting, written
  <2>9. w \in 0..version'
    BY <1>1
  <2> QED BY <1>1, <1>2, <2>4, <2>6, <2>7, <2>8, <2>9 DEF OfClient, Sent
<1>6. ASSUME NEW c \in Client \ closed, c \notin clients PROVE OfClient(c)'
  <2>1. Untouched(c)
    BY <1>6, UnderWayClients DEF IInv, OfClient, Greeted
  <2>2. ~Greeted(c)'
    <3>1. CASE c \in ToSet(joining)
      <4>1. loop' = [pc |-> "busy", to |-> ToSet(joining), script |-> script(n, stats)]
        BY <1>2, <1>3, <3>1
      <4>2. script(n, stats)[1].kind = "snapshot"
        <5>1. script(n, stats)[1] = Snapshot(version + n)
          BY <1>1, ScriptFrames
        <5> QED BY <5>1 DEF Snapshot
      <4> QED BY <3>1, <4>1, <4>2 DEF Greeted, Greets
    <3>2. CASE c \notin ToSet(joining)
      BY <1>2, <1>6, <3>2 DEF Greeted
    <3> QED BY <3>1, <3>2
  <2>3. Untouched(c)'
    BY <1>2, <2>1 DEF Untouched
  <2> QED BY <2>2, <2>3 DEF OfClient
<1> QED BY <1>2, <1>5, <1>6, UnderWayClients

(* What an offered frame does to the view its client is led to. *)
LEMMA OfferedFrame ==
  ASSUME IInv, NEW c \in loop.to, NEW w \in 0..version, Suffices(c, w),
         loop.script[1].kind # "snapshot"
  PROVE  LET f == loop.script[1]
             x == apply(w, f)
         IN  /\ x \in 0..version /\ Follows(w, f, x)
             /\ \/ x = version
                \/ \E i \in 2..Len(loop.script) :
                     loop.script[i].kind = "change" /\ loop.script[i].upto <= x + 1
<1> DEFINE s == loop.script
           f == s[1]
           x == apply(w, f)
<1>1. s \in Seq(Frame) /\ Len(s) > 0 /\ Len(s) \in Nat /\ version \in Nat
  <2>1. Ordered(s, version) /\ s \in Seq(Frame) /\ version \in Nat
    BY Versions DEF IInv, TypeOK, OnePlace, Script
  <2> QED BY <2>1 DEF Ordered
<1>2. \A i \in 1..Len(s) :
        /\ s[i].kind = "change" => s[i].upto = version - Len(s) + i
        /\ i > 1 /\ s[i - 1].kind = "change" => s[i].kind = "change"
  BY DEF IInv, OnePlace, Script, Ordered
<1>3. \/ w = version
      \/ \E i \in 1..Len(s) : s[i].kind = "change" /\ s[i].upto <= w + 1
  BY DEF IInv, OnePlace, Suffices, Offers
<1>4. f \in Frame /\ 1 \in 1..Len(s)
  BY <1>1
<1>5. f.kind \in {"change", "stats"}
  BY <1>4, FrameFields
<1> HIDE DEF s, f
<1>6. CASE f.kind = "stats"
  <2>1. x = w
    BY <1>6, Versions DEF apply
  <2>2. s[1].kind # "change"
    BY <1>6 DEF f
  <2>3. w = version \/ \E i \in 2..Len(s) : s[i].kind = "change" /\ s[i].upto <= w + 1
    BY <1>1, <1>3, <2>2
  <2> QED BY <1>6, <2>1, <2>3 DEF Follows, s, f
<1>7. CASE f.kind = "change"
  <2>1. f.upto = version - Len(s) + 1
    BY <1>2, <1>4, <1>7 DEF f
  <2>2. f.upto <= w + 1 /\ f.upto \in 1..version
    <3>1. f.upto >= 1
      BY <1>4, <1>7, FrameFields
    <3>2. f.upto <= w + 1
      <4>1. CASE w = version
        BY <1>1, <2>1, <4>1
      <4>2. ASSUME NEW i \in 1..Len(s), s[i].kind = "change", s[i].upto <= w + 1
            PROVE  f.upto <= w + 1
        <5>1. s[i].upto = version - Len(s) + i
          BY <1>2, <4>2
        <5> QED BY <1>1, <2>1, <4>2, <5>1
      <4> QED BY <1>3, <4>1, <4>2
    <3> QED BY <1>1, <2>1, <3>1, <3>2
  <2>3. x = IF w >= f.upto THEN w ELSE f.upto
    BY <1>1, <1>7, <2>2, Versions DEF apply
  <2>4. x \in 0..version /\ x >= f.upto
    BY <1>1, <2>2, <2>3
  <2>5. CASE Len(s) = 1
    BY <1>1, <1>7, <2>1, <2>4, <2>5 DEF Follows, s, f
  <2>6. CASE Len(s) # 1
    <3>1. 2 \in 1..Len(s) /\ 2 > 1 /\ 2 - 1 = 1
      <4>1. \A k \in Nat : k > 0 /\ k # 1 => k > 1
        OBVIOUS
      <4>2. Len(s) > 1
        BY <1>1, <2>6, <4>1
      <4> QED BY <1>1, <4>2
    <3>2. s[2].kind = "change"
      BY <1>2, <1>7, <3>1 DEF f
    <3>3. s[2].upto = version - Len(s) + 2
      BY <1>2, <3>1, <3>2
    <3>4. s[2].upto <= x + 1 /\ 2 \in 2..Len(s)
      BY <1>1, <2>1, <2>4, <3>1, <3>3
    <3> QED BY <1>7, <2>4, <3>2, <3>4 DEF Follows, s, f
  <2> QED BY <2>5, <2>6
<1> QED BY <1>5, <1>6, <1>7

LEMMA OfferUnderWay ==
  ASSUME IInv, NEW c \in Client, Offer(c)
  PROVE  UnderWay'
<1> DEFINE f == loop.script[1]
<1>1. /\ c \in clients /\ loop.pc = "busy" /\ c \in loop.to
      /\ version \in Nat /\ frames[c] \in Seq(Frame)
  BY Versions DEF IInv, TypeOK, OnePlace, Offer
<1>2. /\ loop.script \in Seq(Frame) /\ Len(loop.script) > 0
      /\ f = Head(loop.script) /\ f \in Frame
  <2>1. loop.script \in Seq(Frame) /\ Len(loop.script) > 0
    BY <1>1 DEF IInv, TypeOK, Script, Ordered
  <2> QED BY <2>1
<1>3. /\ UNCHANGED <<writing, view, version>>
      /\ loop'.pc = "busy" /\ loop'.script = loop.script /\ loop'.to = loop.to \ {c}
  BY <1>1 DEF IInv, TypeOK, Offer
<1>4. closed \subseteq closed' /\ (room(c) => clients' = clients) /\ (~room(c) => c \in closed')
  BY DEF Offer
<1>5. ASSUME NEW d \in Client \ closed, d # c PROVE OfClient(d)'
  <2>1. frames'[d] = frames[d] /\ (d \in clients' <=> d \in clients)
    BY <1>5 DEF IInv, TypeOK, Offer
  <2>2. OfClient(d)
    BY <1>5, UnderWayClients DEF IInv
  <2>3. /\ Greeted(d)' <=> Greeted(d)
        /\ Untouched(d)' <=> Untouched(d)
        /\ InWriting(d)' <=> InWriting(d)
        /\ written(d)' = written(d)
        /\ \A w : Suffices(d, w)' <=> Suffices(d, w)
    BY <1>1, <1>3, <1>5, <2>1
       DEF Greeted, Greets, Untouched, InWriting, written, Suffices, Offers
  <2> QED BY <1>3, <2>1, <2>2, <2>3 DEF OfClient, Sent
<1>6. ASSUME room(c) PROVE OfClient(c)'
  <2>1. c \in Client \ closed /\ frames'[c] = Append(frames[c], f) /\ clients' = clients
    BY <1>2, <1>6 DEF IInv, TypeOK, Offer, room
  <2>2. Greeted(c)'
    BY <1>1, <1>3, <2>1 DEF Greeted, Greets
  <2>3. written(c)' = written(c) /\ (InWriting(c)' <=> InWriting(c))
    BY <1>3 DEF InWriting, written
  <2>4. OfClient(c)
    BY <2>1, UnderWayClients DEF IInv
  <2>5. ASSUME NEW x \in 0..version, Leads(written(c), Append(frames[c], f), x, version),
               InWriting(c),
               \/ x = version
               \/ \E i \in 2..Len(loop.script) :
                    loop.script[i].kind = "change" /\ loop.script[i].upto <= x + 1
        PROVE  Sent(c)'
    <3>1. 2..Len(loop.script) \subseteq Offers(c)'
      BY <1>2, <1>3 DEF Offers
    <3>2. Suffices(c, x)'
      BY <1>3, <2>5, <3>1 DEF Suffices
    <3> QED BY <1>3, <2>1, <2>3, <2>5, <3>2 DEF Sent
  <2>6. CASE f.kind = "snapshot"
    <3>1. Untouched(c)
      BY <1>1, <2>4, <2>6 DEF OfClient, Greeted, Greets
    <3>2. written(c) = NoView /\ InWriting(c) /\ NoView \in NoView..version
      BY <1>1, <3>1, Versions DEF Untouched, written, InWriting
    <3>3. Leads(NoView, frames[c], NoView, version)
      BY <1>1, <3>1, <3>2, LeadsNowhere DEF Untouched
    <3>4. f.upto = version
      <4>1. Ordered(loop.script, version)
        BY <1>1 DEF IInv, Script
      <4> QED BY <1>2, <2>6, <4>1 DEF Ordered
    <3>5. Follows(NoView, f, version) /\ version \in NoView..version
      BY <1>1, <2>6, <3>4, Versions DEF Follows, apply
    <3>6. Leads(NoView, Append(frames[c], f), version, version)
      BY <1>1, <1>2, <3>3, <3>5, LeadsAppend
    <3>7. version \in 0..version
      BY <1>1
    <3> QED BY <2>2, <2>5, <3>2, <3>6, <3>7 DEF OfClient
  <2>7. CASE f.kind # "snapshot"
    <3>1. Sent(c)
      BY <1>1, <2>4, <2>7 DEF OfClient, Greeted, Greets
    <3>2. PICK w \in 0..version : Leads(written(c), frames[c], w, version) /\ Suffices(c, w)
      BY <3>1 DEF Sent
    <3> DEFINE x == apply(w, f)
    <3>3. /\ x \in 0..version /\ Follows(w, f, x)
          /\ \/ x = version
             \/ \E i \in 2..Len(loop.script) :
                  loop.script[i].kind = "change" /\ loop.script[i].upto <= x + 1
      BY <1>1, <2>7, <3>2, OfferedFrame
    <3> HIDE DEF x
    <3>4. x \in NoView..version
      BY <1>1, <3>3, Versions
    <3>5. Leads(written(c), Append(frames[c], f), x, version)
      BY <1>1, <1>2, <3>2, <3>3, <3>4, LeadsAppend
    <3> QED BY <2>2, <2>5, <3>1, <3>3, <3>5 DEF OfClient, Sent
  <2> QED BY <2>6, <2>7
<1> QED BY <1>4, <1>5, <1>6, UnderWayClients

LEMMA NextFrameUnderWay ==
  ASSUME IInv, NextFrame
  PROVE  UnderWay'
<1> DEFINE s == loop.script
<1>1. /\ loop.pc = "busy" /\ loop.to = {} /\ version \in Nat
      /\ UNCHANGED <<clients, frames, writing, view, version, closed>>
  BY Versions DEF IInv, TypeOK, NextFrame
<1>2. s \in Seq(Frame) /\ Ordered(s, version)
  BY <1>1 DEF IInv, TypeOK, Script
<1>3. /\ Len(s) = 1 => loop' = IdleLoop
      /\ Len(s) # 1 => loop'.pc = "busy" /\ loop'.script = Tail(s) /\ loop'.to = clients
  BY DEF IInv, TypeOK, NextFrame
<1>4. Len(s) # 1 => /\ Len(Tail(s)) = Len(s) - 1 /\ Len(s) \in Nat /\ Len(s) > 1
                    /\ \A i \in 1..(Len(s) - 1) :
                         Tail(s)[i] = s[i + 1] /\ s[i + 1].kind # "snapshot"
  <2>1. Len(s) > 0 /\ Len(s) \in Nat
    BY <1>2 DEF Ordered
  <2>2. \A k \in Nat : k > 0 /\ k # 1 => k > 1
    OBVIOUS
  <2> QED BY <1>1, <1>2, <2>1, <2>2, OrderedTail
<1> HIDE DEF s
<1>5. ASSUME NEW c \in Client \ closed, c \notin clients PROVE OfClient(c)'
  <2>1. Untouched(c)
    BY <1>5, UnderWayClients DEF IInv, OfClient, Greeted
  <2> QED BY <1>1, <1>5, <2>1 DEF OfClient, Greeted, Untouched
<1>6. ASSUME NEW c \in Client \ closed, c \in clients PROVE OfClient(c)'
  <2>1. Greeted(c) /\ Sent(c)
    BY <1>1, <1>6, UnderWayClients DEF IInv, OfClient, Greeted, Greets
  <2>2. PICK w \in 0..version : Leads(written(c), frames[c], w, version) /\ Suffices(c, w)
    BY <2>1 DEF Sent
  <2>3. \/ w = version
        \/ \E i \in 2..Len(s) : s[i].kind = "change" /\ s[i].upto <= w + 1
    <3>1. Offers(c) \subseteq 2..Len(s)
      BY <1>1 DEF Offers, s
    <3> QED BY <1>1, <2>2, <3>1 DEF Suffices, s
  <2>4. InWriting(c)' /\ written(c)' = written(c)
    BY <1>1, <2>1 DEF Sent, InWriting, written
  <2>5. CASE Len(s) = 1
    <3>1. loop'.pc = "idle"
      BY <1>3, <2>5 DEF IdleLoop
    <3>2. w = version
      BY <2>3, <2>5
    <3>3. Greeted(c)' /\ Suffices(c, w)'
      BY <1>1, <1>6, <3>1, <3>2 DEF Greeted, Suffices
    <3> QED BY <1>1, <2>2, <2>4, <3>3 DEF OfClient, Sent
  <2>6. CASE Len(s) # 1
    <3>1. 1 \in 1..(Len(s) - 1) /\ 1 + 1 = 2
      BY <1>4, <2>6
    <3>2. Greeted(c)'
      BY <1>1, <1>3, <1>4, <1>6, <2>6, <3>1 DEF Greeted, Greets
    <3>3. Suffices(c, w)'
      <4>1. CASE w = version
        BY <1>1, <1>3, <2>6, <4>1 DEF Suffices
      <4>2. ASSUME NEW i \in 2..Len(s), s[i].kind = "change", s[i].upto <= w + 1
            PROVE  Suffices(c, w)'
        <5>1. i - 1 \in 1..(Len(s) - 1) /\ (i - 1) + 1 = i
          BY <1>4, <2>6
        <5>2. Tail(s)[i - 1] = s[i]
          BY <1>4, <2>6, <5>1
        <5>3. i - 1 \in Offers(c)'
          BY <1>1, <1>3, <1>4, <1>6, <2>6, <5>1 DEF Offers
        <5> QED BY <1>3, <2>6, <4>2, <5>2, <5>3 DEF Suffices
      <4> QED BY <2>3, <4>1, <4>2
    <3> QED BY <1>1, <2>2, <2>4, <3>2, <3>3 DEF OfClient, Sent
  <2> QED BY <2>5, <2>6
<1> QED BY <1>1, <1>5, <1>6, UnderWayClients

LEMMA CloseUnderWay ==
  ASSUME IInv, CloseClients
  PROVE  UnderWay'
<1>1. /\ UNCHANGED <<frames, writing, view>> /\ clients' = {}
      /\ closed' = closed \cup ToSet(joining) \cup clients
  BY DEF CloseClients
<1>2. ASSUME NEW c \in Client \ closed' PROVE OfClient(c)'
  <2>1. Untouched(c)
    BY <1>1, UnderWayClients DEF IInv, OfClient, Greeted
  <2> QED BY <1>1, <2>1 DEF OfClient, Greeted, Untouched
<1> QED BY <1>2, UnderWayClients

(* The versions of the views: only a writer moves one. *)
LEMMA BehindStep ==
  ASSUME IInv, Next
  PROVE  Behind'
<1>1. version \in Nat
  BY Versions DEF IInv, TypeOK
<1>2. CASE view' = view /\ version' = version
  BY <1>2 DEF IInv, Behind
<1>3. ASSUME NEW n \in 0..MaxTick, NEW stats \in BOOLEAN, Tick(n, stats) PROVE Behind'
  <2>1. view' = view /\ version' = version + n /\ n \in Nat
    BY <1>3, StreamHubAssumption DEF Tick
  <2>2. \A c \in Client : view[c] \in Int /\ view[c] <= version
    BY Versions DEF IInv, Behind, TypeOK
  <2> QED BY <1>1, <2>1, <2>2 DEF Behind
<1>4. ASSUME NEW c \in Client, Write(c) PROVE Behind'
  <2>1. c \in Client \ closed /\ writing[c] # <<>>
    BY <1>4 DEF Write
  <2>2. Sent(c) /\ frames[c] \in Seq(Frame)
    BY <2>1, OpenGreeted DEF IInv, TypeOK
  <2>3. written(c) \in NoView..version
    BY <1>1, <2>2, LeadsRange DEF Sent
  <2>4. PICK f \in Frame : writing[c] = <<f>>
    BY <2>1 DEF IInv, TypeOK
  <2>5. view' = [view EXCEPT ![c] = written(c)] /\ version' = version
    BY <1>4, <2>1, <2>4 DEF Write, written
  <2>6. written(c) <= version
    BY <1>1, <2>3, Versions
  <2> QED BY <2>5, <2>6 DEF IInv, TypeOK, Behind
<1> QED BY <1>2, <1>3, <1>4
        DEF Next, Ticks, Send, Dial, Accept, Join, HangUp, Writer, Take, WriteFails, NextFrame,
            Offer, StopListening, CloseClients

LEMMA UnderWayStep ==
  ASSUME IInv, Next
  PROVE  UnderWay'
<1>1. CASE UNCHANGED <<clients, frames, writing, view, version, loop>> /\ closed \subseteq closed'
  <2>1. ASSUME NEW c \in Client \ closed' PROVE OfClient(c)'
    <3>1. OfClient(c)
      BY <1>1, UnderWayClients DEF IInv
    <3> QED BY <1>1, <3>1, SameClient
  <2> QED BY <2>1, UnderWayClients
<1>2. ASSUME NEW c \in Client, Writer(c) PROVE UnderWay'
  BY <1>2, WriterUnderWay
<1>3. CASE Ticks
  BY <1>3, TickUnderWay DEF Ticks
<1>4. CASE Send
  BY <1>4, NextFrameUnderWay, OfferUnderWay DEF Send
<1>5. CASE CloseClients
  BY <1>5, CloseUnderWay
<1> QED BY <1>1, <1>2, <1>3, <1>4, <1>5
        DEF Next, Dial, Accept, Join, HangUp, StopListening

LEMMA IInvInit == Init => IInv
<1> SUFFICES ASSUME Init PROVE IInv
  OBVIOUS
<1>1. ToSet(joining) = {}
  BY DEF Init, ToSet
<1>2. OnePlace /\ Script
  BY <1>1 DEF Init, OnePlace, Script, IdleLoop, NoClient
<1>3. UnderWay /\ Behind
  BY Versions DEF Init, UnderWay, Behind, Greeted, Untouched
<1> QED BY <1>2, <1>3, InitType DEF IInv

LEMMA IInvNext == IInv /\ [Next]_vars => IInv'
<1>1. ASSUME IInv, UNCHANGED vars PROVE IInv'
  BY <1>1 DEF IInv, TypeOK, OnePlace, Script, UnderWay, Behind, vars, connections, Greeted, Greets,
         InWriting, written, Suffices, Offers, Untouched
<1>2. ASSUME IInv, Next PROVE IInv'
  <2>1. TypeOK'
    BY <1>2, AcceptTypes, WriterTypes, LoopTypes DEF IInv, Next
  <2> QED BY <1>2, <2>1, PlaceStep, ScriptStep, UnderWayStep, BehindStep DEF IInv
<1> QED BY <1>1, <1>2

(* In every reachable state what is under way to a client adds up. *)
THEOREM StreamSound == Spec => []IInv
  BY IInvInit, IInvNext, PTL DEF Spec

(***************************************************************************)
(* The refinement.                                                         *)
(***************************************************************************)
LEMMA SubscribedInit == Init => S!Init
  BY Versions DEF Init, S!Init, S!NoView

(* A writer makes its peer join, teaches it one change, or nothing. *)
LEMMA SubscribedWrite ==
  ASSUME IInv, NEW c \in Client, Write(c)
  PROVE  [S!Next]_S!vars
<1>1. c \in Client \ closed /\ writing[c] # <<>> /\ version \in Nat
  BY Versions DEF IInv, TypeOK, Write
<1>2. Sent(c) /\ frames[c] \in Seq(Frame)
  BY <1>1, OpenGreeted DEF IInv, TypeOK
<1>3. written(c) \in NoView..version
  BY <1>1, <1>2, LeadsRange DEF Sent
<1>4. PICK f \in Frame : writing[c] = <<f>>
  BY <1>1 DEF IInv, TypeOK
<1>5. Follows(view[c], f, written(c))
  BY <1>1, <1>2, <1>4 DEF Sent, InWriting
<1>6. view' = [view EXCEPT ![c] = written(c)] /\ UNCHANGED <<version, closed>>
  BY <1>1, <1>4 DEF Write, written
<1>7. view[c] \in NoView..version /\ view \in [Client -> NoView..MaxVersion]
  BY <1>1, Versions DEF IInv, TypeOK, Behind
<1>8. f.kind \in {"snapshot", "change", "stats"} /\ f.upto \in 0..MaxVersion
  BY FrameFields
<1>9. CASE view[c] = NoView
  <2>1. written(c) \in 0..version
    BY <1>1, <1>3, <1>5, <1>8, <1>9, Versions DEF Follows, apply
  <2>2. S!Join(c)
    BY <1>1, <1>6, <1>9, <2>1 DEF S!Join, S!NoView, NoView
  <2> QED BY <2>2 DEF S!Next
<1>10. CASE view[c] # NoView /\ written(c) = view[c]
  BY <1>6, <1>7, <1>10 DEF S!vars
<1>11. CASE view[c] # NoView /\ written(c) # view[c]
  <2>1. f.kind = "change" /\ view[c] = f.upto - 1 /\ written(c) = f.upto
    BY <1>3, <1>5, <1>8, <1>11, Versions DEF Follows, apply
  <2>2. view[c] < version /\ written(c) = view[c] + 1
    BY <1>1, <1>3, <1>8, <2>1, Versions
  <2>3. view' = [view EXCEPT ![c] = view[c] + 1]
    BY <1>6, <2>2
  <2>4. S!Learn(c)
    BY <1>1, <1>6, <1>11, <2>2, <2>3 DEF S!Learn, S!NoView, NoView
  <2> QED BY <2>4 DEF S!Next
<1> QED BY <1>9, <1>10, <1>11

(* Every step of the stream is a step of the protocol, or none. *)
LEMMA SubscribedStep == IInv /\ IInv' /\ [Next]_vars => [S!Next]_S!vars
<1> SUFFICES ASSUME IInv, IInv', [Next]_vars PROVE [S!Next]_S!vars
  OBVIOUS
<1>1. CASE UNCHANGED <<version, view, closed>>
  BY <1>1 DEF S!vars
<1>2. CASE UNCHANGED <<version, view>> /\ closed \subseteq closed'
  <2>1. closed' = closed \cup closed' /\ closed' \in SUBSET Client
    BY <1>2 DEF IInv, TypeOK
  <2>2. S!Disconnect(closed')
    BY <1>2, <2>1 DEF S!Disconnect
  <2> QED BY <2>1, <2>2 DEF S!Next
<1>3. ASSUME NEW c \in Client, Write(c) PROVE [S!Next]_S!vars
  BY <1>3, SubscribedWrite
<1>4. ASSUME NEW n \in 0..MaxTick, NEW stats \in BOOLEAN, Tick(n, stats)
      PROVE  [S!Next]_S!vars
  <2>1. version' \in version..MaxVersion
    BY <1>4, StreamHubAssumption, Versions DEF IInv, TypeOK, Tick
  <2>2. S!Publish
    BY <1>4, <2>1 DEF Tick, S!Publish
  <2> QED BY <2>2 DEF S!Next
<1> QED BY <1>1, <1>2, <1>3, <1>4
        DEF Next, Ticks, Send, Dial, Accept, Join, HangUp, Writer, Take, WriteFails, NextFrame,
            Offer, StopListening, CloseClients, vars, connections

(* The change stream implements the subscription: whatever the buffers,    *)
(* drops and disconnects do, the frames a peer got are a snapshot followed *)
(* by every later change in order (greet, broadcast, writeLoop).           *)
THEOREM StreamImplementsSubscription == Spec => Subscribed
<1>1. Spec => S!Init /\ [][S!Next]_S!vars
  BY StreamSound, SubscribedInit, SubscribedStep, PTL DEF Spec
<1> QED BY <1>1 DEF Subscribed, S!Spec
=============================================================================
