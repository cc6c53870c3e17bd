---------------------------- MODULE QUICInitial ----------------------------
(***************************************************************************)
(* The ClientHello of a QUIC connection (internal/quicinitial: Tracker;     *)
(* the part of packetAt in internal/app that feeds it).  Initial packets    *)
(* are captured in any order, again, or in part; a Retry or another         *)
(* connection on the tuple changes the connection ID, from which the keys   *)
(* come.                                                                   *)
(*                                                                         *)
(* A cell of the hello is <<connection ID, position>>.  Decryption is the   *)
(* fact that the client wrote the packet with these keys and this number.   *)
(***************************************************************************)
EXTENDS Integers, Sequences, SequencesExt, FiniteSets, Folds

CONSTANTS
  Connections,  \* connection IDs a client chose
  Hello,        \* cells of a ClientHello
  Window,       \* 256^length of a packet number
  MaxPN,        \* bound: packet numbers
  MaxCrypto,    \* maxCryptoBytes, in cells
  MaxParts      \* maxCryptoParts

VARIABLES
  cid, largestPN, crypto, parts, pendingSize,
  state,     \* reading, hello or failed
  hello,     \* what Add returned
  read       \* what happened: cells read since the keys were derived

qvars == <<cid, largestPN, crypto, parts, pendingSize, state, hello, read>>

None == -1
NoID == "none"
cellsOf(c, from, to) == [i \in 1..(to - from) |-> <<c, from + i - 1>>]
Tracker == [cid |-> cid, pn |-> largestPN, crypto |-> crypto, parts |-> parts, size |-> pendingSize]

(* RFC 9000, A.3, from the number's last bytes. *)
packetNumber(t, truncated) ==
  LET expected == t.pn + 1
      candidate == (expected \div Window) * Window + truncated
  IN IF t.pn = None THEN truncated
     ELSE IF candidate + Window \div 2 <= expected THEN candidate + Window
     ELSE IF candidate > expected + Window \div 2 /\ candidate >= Window THEN candidate - Window
     ELSE candidate

(* A change of connection starts anew; whether the packet opens was decided   *)
(* with the new keys.                                                        *)
keepCrypto(t, c) == [t EXCEPT !.cid = c, !.pn = None]   \* mutant: parts of another hello are kept
rekeyed(t, c) == [cid |-> c, pn |-> None, crypto |-> <<>>, parts |-> <<>>, size |-> 0]
opens(t, p) == IF p.cid = t.cid THEN packetNumber(t, p.pn % Window) = p.pn ELSE p.pn < Window
opened(t, p) ==
  LET s == IF p.cid = t.cid THEN t ELSE rekeyed(t, p.cid)
  IN [s EXCEPT !.pn = IF p.pn > @ THEN p.pn ELSE @]

(* addCrypto: what is known already is skipped, what comes early waits.       *)
without(t, I) == [t EXCEPT !.parts = [s \in DOMAIN @ \ I |-> @[s]],
                           !.size = @ - FoldSet(LAMBDA s, n : n + Len(t.parts[s]), 0, I)]
RECURSIVE pullParts(_)
pullParts(t) ==
  LET due == {s \in DOMAIN t.parts : s <= Len(t.crypto)}
      s == CHOOSE s \in due : TRUE
      used == Len(t.crypto) - s
  IN IF due = {} THEN t
     ELSE pullParts([without(t, {s}) EXCEPT !.crypto = @ \o SubSeq(t.parts[s], used + 1, Len(t.parts[s]))])
tooMuch(t, s, data) ==
  LET old == IF s \in DOMAIN t.parts THEN Len(t.parts[s]) ELSE 0
  IN (s \notin DOMAIN t.parts /\ Cardinality(DOMAIN t.parts) >= MaxParts) \/ t.size - old + Len(data) > MaxCrypto
holdPart(t, s, data) ==
  LET u == IF s \in DOMAIN t.parts THEN without(t, {s}) ELSE t
  IN IF s \in DOMAIN t.parts /\ Len(t.parts[s]) >= Len(data) THEN t
     ELSE [u EXCEPT !.parts = [i \in DOMAIN @ \cup {s} |-> IF i = s THEN data ELSE @[i]], !.size = @ + Len(data)]
seen(t, start, data) == IF start >= Len(t.crypto) THEN 0
                        ELSE IF start + Len(data) <= Len(t.crypto) THEN Len(data) ELSE Len(t.crypto) - start
conflicts(t, start, data) == \E i \in 1..seen(t, start, data) : t.crypto[start + i] # data[i]
addCrypto(t, start, data) ==
  LET n == seen(t, start, data)
      new == SubSeq(data, n + 1, Len(data))
  IN IF new = <<>> THEN t
     ELSE IF start + n = Len(t.crypto) THEN pullParts([t EXCEPT !.crypto = @ \o new])
     ELSE holdPart(t, start, new)
refused(t, start, data) ==
  \/ start + Len(data) > MaxCrypto
  \/ conflicts(t, start, data)
  \/ start > Len(t.crypto) /\ ~(start \in DOMAIN t.parts /\ Len(t.parts[start]) >= Len(data)) /\ tooMuch(t, start, data)

(***************************************************************************)
(* Fail, and the end of a hello: nothing is kept.                          *)
(***************************************************************************)
Forget == crypto' = <<>> /\ parts' = <<>> /\ pendingSize' = 0 /\ cid' = NoID

(* One Initial packet of a datagram, with a CRYPTO frame, or with a frame    *)
(* that does not belong there.                                              *)
Packet(p) ==
  LET t == opened(Tracker, p)
      data == cellsOf(p.cid, p.from, p.to)
      u == addCrypto(t, p.from, data)
  IN /\ state = "reading" /\ opens(Tracker, p)
     /\ read' = (IF p.cid = cid THEN read ELSE {}) \cup (IF p.wellFormed THEN p.from..(p.to - 1) ELSE {})
     /\ largestPN' = t.pn
     /\ IF ~p.wellFormed \/ refused(t, p.from, data)
        THEN state' = "failed" /\ hello' = hello /\ Forget
        ELSE IF Len(u.crypto) >= Hello
        THEN state' = "hello" /\ hello' = SubSeq(u.crypto, 1, Hello) /\ Forget
        ELSE /\ crypto' = u.crypto /\ parts' = u.parts /\ pendingSize' = u.size /\ cid' = p.cid
             /\ UNCHANGED <<state, hello>>
(* Capture cut the packet, or ten seconds without another. *)
Fail ==
  /\ state = "reading" /\ state' = "failed" /\ Forget
  /\ UNCHANGED <<largestPN, hello, read>>

(* What may be captured and opened.  The server's packets, and the client's  *)
(* with the ID that the server chose, have keys that do not follow from it.  *)
Packets == [cid : Connections, pn : 0..MaxPN, from : 0..Hello, to : 1..(Hello + 2), wellFormed : BOOLEAN]

Init ==
  /\ cid = NoID /\ largestPN = None /\ crypto = <<>> /\ parts = <<>> /\ pendingSize = 0
  /\ state = "reading" /\ hello = <<>> /\ read = {}
Next == (\E p \in Packets : p.from < p.to /\ Packet(p)) \/ Fail
Spec == Init /\ [][Next]_qvars

(***************************************************************************)
(* Properties.                                                             *)
(***************************************************************************)
(* The hello is that of one connection, whole and in order, however its      *)
(* packets came and whichever connection IDs came between (open, addCrypto). *)
OneHello == state = "hello" => \E c \in Connections : hello = cellsOf(c, 0, Hello)

(* While it is not, what is in order is all that was read of it, the rest    *)
(* waits, and the counter that bounds it is exact (pullParts).               *)
NothingWaits ==
  state = "reading" =>
    /\ crypto = cellsOf(cid, 0, Len(crypto)) /\ Len(crypto) \notin read
    /\ \A i \in read : i < Len(crypto) \/ \E s \in DOMAIN parts : i \in s..(s + Len(parts[s]) - 1)
    /\ pendingSize = FoldSet(LAMBDA s, n : n + Len(parts[s]), 0, DOMAIN parts)

(* A packet within half a window of the next number opens (packetNumber).    *)
NumbersExpand ==
  state = "reading" /\ largestPN # None =>
    \A pn \in 0..MaxPN :
      pn - (largestPN + 1) \in (1 - Window \div 2)..(Window \div 2) => packetNumber(Tracker, pn % Window) = pn

InitialRead == OneHello /\ NothingWaits /\ NumbersExpand
=============================================================================
