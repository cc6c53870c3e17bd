---------------------------- MODULE EvidenceProofs ----------------------------
(***************************************************************************)
(* Theorems about a collector: what a connection shows is what the evidence  *)
(* says, in whatever order it comes: the health of a TCP connection and the  *)
(* name of a flow, for any sequence numbers, ring sizes, events and windows. *)
(***************************************************************************)
EXTENDS Collector, Sums, Sequences

(***************************************************************************)
(* Arithmetic of sequence numbers.                                         *)
(***************************************************************************)
LEMMA Divided ==
  ASSUME NEW s \in Nat \ {0}, NEW x \in Int
  PROVE  x \div s \in Int /\ x % s \in 0..(s - 1) /\ x = ((x \div s) * s) + (x % s)
  OBVIOUS

LEMMA Remainder ==
  ASSUME NEW s \in Nat \ {0}, NEW x \in Int, NEW q \in Int, NEW r \in 0..(s - 1), x = (q * s) + r
  PROVE  x % s = r
  OBVIOUS

LEMMA Difference ==
  ASSUME NEW s \in Nat \ {0}, NEW a \in Int, NEW b \in Int
  PROVE  ((a % s) - (b % s)) % s = (a - b) % s
<1>1. PICK i \in Int, r \in 0..(s - 1) : a = (i * s) + r /\ r = a % s
  BY Divided
<1>2. PICK j \in Int, t \in 0..(s - 1) : b = (j * s) + t /\ t = b % s
  BY Divided
<1>3. r - t \in Int
  OBVIOUS
<1>4. PICK k \in Int, u \in 0..(s - 1) : r - t = (k * s) + u /\ u = (r - t) % s
  BY <1>3, Divided
<1>5. PICK q \in Int : q = (i - j) + k
  OBVIOUS
<1>6. q * s = ((i * s) - (j * s)) + (k * s)
  BY <1>5
<1>7. ASSUME NEW x \in Int, NEW y \in Int, NEW z \in Int, x = i * s, y = j * s, z = k * s
      PROVE  a - b = ((x - y) + z) + u
  <2>1. a = x + r /\ b = y + t /\ r - t = z + u
    BY <1>1, <1>2, <1>4, <1>7
  <2>2. QED BY <2>1
<1>8. a - b = (q * s) + u
  <2>1. i * s \in Int /\ j * s \in Int /\ k * s \in Int
    OBVIOUS
  <2>2. QED BY <1>6, <1>7, <2>1
<1>9. a - b \in Int
  OBVIOUS
<1>10. (a - b) % s = u
  BY <1>8, <1>9, Remainder
<1>11. QED BY <1>1, <1>2, <1>4, <1>10

(* Half of the numbers tells before from after, as int32 does.               *)
LEMMA Ordered ==
  ASSUME NEW s \in Nat \ {0}, NEW a \in Int, NEW b \in Int,
         -(s \div 2) <= a - b, a - b < s \div 2
  PROVE  /\ ((a % s) - (b % s)) % s >= s \div 2 <=> a < b
         /\ ((a % s) - (b % s)) % s \in 1..((s \div 2) - 1) <=> b < a
<1>1. PICK h \in Int : h = s \div 2 /\ 0 <= h /\ (2 * h) <= s /\ h < s
  OBVIOUS
<1>2. PICK d \in Int : d = a - b
  OBVIOUS
<1>3. ((a % s) - (b % s)) % s = d % s
  BY <1>2, Difference
<1>4. CASE 0 <= d
  <2>1. d % s = d
    BY <1>1, <1>2, <1>4
  <2>2. QED BY <1>1, <1>2, <1>3, <1>4, <2>1
<1>5. CASE d < 0
  <2>1. d % s = d + s
    BY <1>1, <1>2, <1>5
  <2>2. QED BY <1>1, <1>2, <1>3, <1>5, <2>1
<1>6. QED BY <1>4, <1>5

(***************************************************************************)
(* Captured segments: the ring of recorded numbers holds the last Tracked    *)
(* segments, and the furthest end is not behind any of them.                *)
(***************************************************************************)
Spans == [start : Int, end : Int]
Numbers == [start : 0..(Space - 1), end : 0..(Space - 1)]
Number(span) == [start |-> span.start % Space, end |-> span.end % Space]
Health == [synAt : Nat, rtt : Nat, retransmits : Nat, seen : Seq(Numbers), seenNext : 1..Tracked,
           seenEnd : 0..(Space - 1)]

(* Where in the ring the k-th of the last segments is, the oldest being 1st.  *)
Place(next, k) == IF next + k - 1 <= Tracked THEN next + k - 1 ELSE next + k - 1 - Tracked

CaptureType ==
  /\ health \in Health /\ spans \in Seq(Spans)
  /\ top \in Int /\ repeats \in Nat /\ firstSYN \in Nat /\ H_now \in Nat
Ring ==
  /\ Len(health.seen) = Len(spans) /\ Len(spans) <= Tracked
  /\ Len(spans) < Tracked => health.seenNext = 1
  /\ \A k \in 1..Len(spans) : health.seen[Place(health.seenNext, k)] = Number(spans[k])
Furthest ==
  /\ \A k \in 1..Len(spans) : spans[k].start < spans[k].end
  /\ spans # <<>> => \E m \in Int :
       /\ health.seenEnd = m % Space /\ m <= top
       /\ \A k \in 1..Len(spans) : spans[k].end <= m
Handshake == health.synAt = firstSYN /\ firstSYN <= H_now /\ H_now > 0 /\ H!RoundTrip
CaptureInv == CaptureType /\ Ring /\ Furthest /\ Handshake /\ H!CaptureCounts

LEMMA Numbering ==
  /\ Space \in Nat \ {0} /\ Tracked \in Nat \ {0} /\ First \in Nat /\ Window \in Nat /\ Gap \in Nat
  /\ Longest \in Nat /\ MaxHZ \in Nat /\ Window <= Space \div 2 /\ H!Half = Space \div 2
  BY CollectorAssumption DEF H!Half

LEMMA CaptureInit == H!Init => CaptureInv
<1> SUFFICES ASSUME H!Init PROVE CaptureInv
  OBVIOUS
<1>1. /\ health = [synAt |-> 0, rtt |-> 0, retransmits |-> 0, seen |-> <<>>, seenNext |-> 1, seenEnd |-> 0]
      /\ H_now = 1 /\ top = First /\ spans = <<>> /\ repeats = 0 /\ firstSYN = 0
  BY DEF H!Init
<1>2. CaptureType
  <2>1. 1 \in 1..Tracked /\ 0 \in 0..(Space - 1) /\ First \in Int
    BY Numbering
  <2>2. QED BY <1>1, <2>1 DEF CaptureType, Health
<1>3. Ring /\ Furthest
  BY <1>1, Numbering DEF Ring, Furthest
<1>4. Handshake /\ H!CaptureCounts
  BY <1>1 DEF Handshake, H!RoundTrip, H!CaptureCounts
<1>5. QED BY <1>2, <1>3, <1>4 DEF CaptureInv

LEMMA HandshakeStep ==
  ASSUME CaptureInv, H!SYN \/ (\E acknowledged \in BOOLEAN : H!SYNACK(acknowledged)) \/ H!Wait
  PROVE  CaptureInv'
<1> USE DEF CaptureInv
<1>1. health \in Health /\ spans \in Seq(Spans) /\ firstSYN \in Nat /\ H_now \in Nat /\ repeats \in Nat /\ top \in Int
  BY DEF CaptureType
<1>2. /\ health.synAt \in Nat /\ health.rtt \in Nat /\ health.retransmits \in Nat
      /\ health.synAt = firstSYN /\ firstSYN <= H_now /\ H_now > 0 /\ health.retransmits = repeats
      /\ health.rtt # 0 => firstSYN # 0 /\ health.rtt \in 1..(H_now - firstSYN)
  BY <1>1 DEF Health, Handshake, H!RoundTrip, H!CaptureCounts
<1>3. UNCHANGED <<spans, top>>
  BY DEF H!SYN, H!SYNACK, H!Wait
<1>4. /\ health' \in Health /\ health'.seen = health.seen /\ health'.seenNext = health.seenNext
      /\ health'.seenEnd = health.seenEnd
      /\ firstSYN' \in Nat /\ H_now' \in Nat /\ repeats' \in Nat /\ Handshake' /\ health'.retransmits = repeats'
  <2>1. CASE H!SYN
    <3>1. PICK s \in Nat : s = IF health.synAt = 0 THEN H_now ELSE health.synAt
      BY <1>1, <1>2
    <3>2. PICK r \in Nat : r = IF health.synAt # 0 THEN health.retransmits + 1 ELSE health.retransmits
      BY <1>2
    <3>3. health' = [health EXCEPT !.synAt = s, !.retransmits = r]
      BY <1>1, <2>1, <3>1, <3>2 DEF H!SYN, H!counted, Health
    <3>4. /\ repeats' = repeats + (IF firstSYN = 0 THEN 0 ELSE 1)
          /\ firstSYN' = IF firstSYN = 0 THEN H_now ELSE firstSYN
          /\ H_now' = H_now
      BY <2>1 DEF H!SYN
    <3>5. /\ health' \in Health /\ health'.seen = health.seen /\ health'.seenNext = health.seenNext
          /\ health'.seenEnd = health.seenEnd /\ health'.synAt = s /\ health'.retransmits = r
          /\ health'.rtt = health.rtt
      BY <1>1, <3>3 DEF Health
    <3>6. firstSYN' \in Nat /\ H_now' \in Nat /\ repeats' \in Nat /\ r = repeats' /\ s = firstSYN' /\ s <= H_now'
      BY <1>1, <1>2, <3>1, <3>2, <3>4
    <3>7. health'.rtt # 0 => firstSYN' # 0 /\ health'.rtt \in 1..(H_now' - firstSYN')
      BY <1>2, <3>4, <3>5
    <3>8. QED BY <1>2, <3>4, <3>5, <3>6, <3>7 DEF Handshake, H!RoundTrip
  <2>2. CASE \E acknowledged \in BOOLEAN : H!SYNACK(acknowledged)
    <3>1. PICK t : health' = [health EXCEPT !.rtt = t]
                   /\ t \in {health.rtt, IF health.synAt # 0 /\ H_now > health.synAt THEN H_now - health.synAt ELSE health.rtt}
      BY <1>1, <2>2 DEF H!SYNACK, Health
    <3>2. repeats' = repeats /\ firstSYN' = firstSYN /\ H_now' = H_now
      BY <2>2 DEF H!SYNACK
    <3>3. t \in Nat /\ (t # 0 => firstSYN # 0 /\ t \in 1..(H_now - firstSYN))
      BY <1>1, <1>2, <3>1
    <3>4. /\ health' \in Health /\ health'.seen = health.seen /\ health'.seenNext = health.seenNext
          /\ health'.seenEnd = health.seenEnd /\ health'.synAt = health.synAt
          /\ health'.retransmits = health.retransmits /\ health'.rtt = t
      BY <1>1, <3>1, <3>3 DEF Health
    <3>5. QED BY <1>1, <1>2, <3>2, <3>3, <3>4 DEF Handshake, H!RoundTrip
  <2>3. CASE H!Wait
    <3>1. H_now' = H_now + 1 /\ UNCHANGED <<health, repeats, firstSYN>>
      BY <2>3 DEF H!Wait
    <3>2. health.rtt # 0 => firstSYN # 0 /\ health.rtt \in 1..(H_now' - firstSYN)
      BY <1>1, <1>2, <3>1
    <3>3. QED BY <1>1, <1>2, <3>1, <3>2 DEF Handshake, H!RoundTrip
  <2>4. QED BY <2>1, <2>2, <2>3
<1>5. CaptureType' /\ H!CaptureCounts'
  BY <1>1, <1>3, <1>4 DEF CaptureType, H!CaptureCounts
<1>6. Ring' /\ Furthest'
  BY <1>3, <1>4 DEF Ring, Furthest
<1>7. QED BY <1>4, <1>5, <1>6

(* The place of the oldest comes next, and the next place is the following.   *)
LEMMA NextPlace ==
  ASSUME NEW next \in 1..Tracked
  PROVE  /\ (next % Tracked) + 1 = IF next = Tracked THEN 1 ELSE next + 1
         /\ (next % Tracked) + 1 \in 1..Tracked
<1>1. Tracked \in Nat \ {0}
  BY Numbering
<1>2. CASE next = Tracked
  <2>1. next = (1 * Tracked) + 0
    BY <1>1, <1>2
  <2>2. next % Tracked = 0
    BY <1>1, <2>1, Remainder
  <2>3. QED BY <1>1, <1>2, <2>2
<1>3. CASE next # Tracked
  <2>1. next = (0 * Tracked) + next /\ next \in 0..(Tracked - 1)
    BY <1>1, <1>3
  <2>2. next % Tracked = next
    BY <1>1, <2>1, Remainder
  <2>3. QED BY <1>1, <1>3, <2>2
<1>4. QED BY <1>2, <1>3

LEMMA Changed ==
  ASSUME NEW S, NEW s \in Seq(S), NEW i \in 1..Len(s), NEW x \in S
  PROVE  /\ [s EXCEPT ![i] = x] \in Seq(S) /\ Len([s EXCEPT ![i] = x]) = Len(s)
         /\ \A j \in 1..Len(s) : [s EXCEPT ![i] = x][j] = IF j = i THEN x ELSE s[j]
  OBVIOUS

LEMMA Appended ==
  ASSUME NEW S, NEW s \in Seq(S), NEW x \in S
  PROVE  /\ Append(s, x) \in Seq(S) /\ Len(Append(s, x)) = Len(s) + 1 /\ Len(s) \in Nat
         /\ \A i \in 1..Len(s) : Append(s, x)[i] = s[i]
         /\ Append(s, x)[Len(s) + 1] = x
  OBVIOUS

LEMMA Tailed ==
  ASSUME NEW S, NEW s \in Seq(S), s # <<>>
  PROVE  /\ Tail(s) \in Seq(S) /\ Len(Tail(s)) = Len(s) - 1 /\ Len(s) \in Nat \ {0}
         /\ \A i \in 1..Len(Tail(s)) : Tail(s)[i] = s[i + 1]
         /\ Head(s) = s[1] /\ s[1] \in S
  OBVIOUS

LEMMA Elements ==
  ASSUME NEW S, NEW s \in Seq(S)
  PROVE  Len(s) \in Nat /\ DOMAIN s = 1..Len(s) /\ \A i \in 1..Len(s) : s[i] \in S
  OBVIOUS

(* Whether a segment came before is told from the numbers alone.             *)
LEMMA CameBefore ==
  ASSUME CaptureInv, NEW start \in (top - Window)..(top + Gap), NEW length \in 1..Longest,
         NEW end \in Int, end = start + length,
         \A r \in H!ToSet(spans) : end - r.start < H!Half,
         NEW span, span = [start |-> start % Space, end |-> end % Space]
  PROVE  /\ H!retransmitted(health, span) <=> \E r \in H!ToSet(spans) : start < r.end /\ r.start < end
         /\ spans # <<>> => \A m \in Int :
              health.seenEnd = m % Space /\ m <= top /\ (\A k \in 1..Len(spans) : spans[k].end <= m)
              => (H!ahead(span.end, health.seenEnd) <=> m < end)
<1> USE DEF CaptureInv
<1>1. PICK half \in Nat : half = Space \div 2 /\ half = H!Half /\ Window <= half
  BY Numbering
<1>2. Space \in Nat \ {0} /\ Window \in Nat /\ Gap \in Nat /\ Longest \in Nat /\ Tracked \in Nat \ {0}
  BY Numbering
<1>3. top \in Int /\ spans \in Seq(Spans) /\ health \in Health
  BY DEF CaptureType
<1>4. start \in Int /\ start < end /\ top - Window <= start
  BY <1>2, <1>3
<1>4a. half \in Nat /\ Window <= half
  BY <1>1
<1>4b. \A m \in Int : m <= top => -half <= start - m /\ -half <= end - m
  BY <1>2, <1>3, <1>4, <1>4a
<1>5. PICK n \in Nat : n = Len(spans)
  BY <1>3, Elements
<1>6. H!ToSet(spans) = {spans[k] : k \in 1..n} /\ \A k \in 1..n : spans[k] \in Spans
  BY <1>3, <1>5, Elements DEF H!ToSet
<1>7. span.start = start % Space /\ span.end = end % Space
  OBVIOUS
<1>8. \A k \in 1..n : /\ spans[k].start \in Int /\ spans[k].end \in Int /\ spans[k].start < spans[k].end
                      /\ end - spans[k].start < half
  BY <1>1, <1>5, <1>6 DEF Spans, Furthest
<1>9. CASE n = 0
  <2>1. spans = <<>> /\ Len(health.seen) = 0
    <3>1. spans = <<>>
      <4>1. Len(spans) = 0 /\ spans \in Seq(Spans)
        BY <1>3, <1>5, <1>9
      <4>2. QED BY <4>1
    <3>2. Len(health.seen) = 0
      BY <1>5, <1>9 DEF Ring
    <3>3. QED BY <3>1, <3>2
  <2>2. H!ToSet(health.seen) = {}
    BY <1>3, <2>1, Elements DEF H!ToSet, Health
  <2>3. H!ToSet(spans) = {}
    BY <1>6, <1>9
  <2>4. QED BY <2>1, <2>2, <2>3 DEF H!retransmitted
<1>10. CASE n # 0
  <2>1. PICK m \in Int : /\ health.seenEnd = m % Space /\ m <= top
                         /\ \A k \in 1..n : spans[k].end <= m
    <3>1. spans # <<>>
      BY <1>3, <1>5, <1>10
    <3>2. QED BY <1>5, <3>1 DEF Furthest
  <2>2. 1 \in 1..n
    BY <1>10
  <2>3. -(Space \div 2) <= start - m /\ start - m < Space \div 2
    <3>1. -half <= start - m
      BY <1>4b, <2>1
    <3>2. start - m < half
      BY <1>4, <1>8, <2>1, <2>2
    <3>3. QED BY <1>1, <3>1, <3>2
  <2>4. H!before(span.start, health.seenEnd) <=> start < m
    BY <1>2, <1>4, <1>7, <2>1, <2>3, Ordered DEF H!before, H!Half
  <2>5. ASSUME NEW k \in 1..n
        PROVE  H!overlaps(span, Number(spans[k])) <=> start < spans[k].end /\ spans[k].start < end
    <3>1. PICK a \in Int : a = spans[k].start
      BY <1>8
    <3>2. PICK b \in Int : b = spans[k].end
      BY <1>8
    <3>3. a < b /\ end - a < half /\ b <= m
      BY <1>8, <2>1, <3>1, <3>2
    <3>4. -half <= start - b /\ start - b < half
      BY <1>1, <1>2, <1>3, <1>4, <2>1, <3>3
    <3>5. -half <= a - end /\ a - end < half
      BY <1>1, <1>2, <1>3, <1>4, <2>1, <3>3
    <3>6. H!before(start % Space, b % Space) <=> start < b
      BY <1>1, <1>2, <1>4, <3>4, Ordered DEF H!before, H!Half
    <3>7. H!before(a % Space, end % Space) <=> a < end
      BY <1>1, <1>2, <1>4, <3>5, Ordered DEF H!before, H!Half
    <3>8. QED BY <1>7, <3>1, <3>2, <3>6, <3>7 DEF H!overlaps, Number
  <2>6. ASSUME NEW k \in 1..n PROVE Number(spans[k]) \in H!ToSet(health.seen)
    <3>1. health.seen \in Seq(Numbers) /\ health.seenNext \in 1..Tracked /\ Len(health.seen) = n /\ n <= Tracked
      BY <1>3, <1>5 DEF Health, Ring
    <3>2. Place(health.seenNext, k) \in 1..n
      <4>1. PICK next \in 1..Tracked : next = health.seenNext BY <3>1
      <4>2. n < Tracked => next = 1 BY <1>5, <4>1 DEF Ring
      <4>3. n <= Tracked /\ Tracked \in Nat BY <1>2, <3>1
      <4>4. Place(next, k) \in 1..n BY <4>2, <4>3 DEF Place
      <4>5. QED BY <4>1, <4>4
    <3>3. Number(spans[k]) = health.seen[Place(health.seenNext, k)]
      BY <1>5 DEF Ring
    <3>4. QED BY <3>1, <3>2, <3>3, Elements DEF H!ToSet
  <2>7. ASSUME NEW o \in H!ToSet(health.seen) PROVE \E k \in 1..n : o = Number(spans[k])
    <3>1. health.seen \in Seq(Numbers) /\ health.seenNext \in 1..Tracked /\ Len(health.seen) = n /\ n <= Tracked
          /\ (n < Tracked => health.seenNext = 1)
      BY <1>3, <1>5 DEF Health, Ring
    <3>2. PICK i \in 1..n : o = health.seen[i]
      BY <2>7, <3>1, Elements DEF H!ToSet
    <3>3. PICK next \in 1..Tracked : next = health.seenNext
      BY <3>1
    <3>4. PICK k \in 1..n : Place(next, k) = i
      <4>1. CASE next <= i
        <5>1. i - next + 1 \in 1..n /\ Place(next, i - next + 1) = i
          BY SMTT(30), <1>2, <3>1, <3>3, <4>1 DEF Place
        <5>2. QED BY <5>1
      <4>2. CASE i < next
        <5>1. n = Tracked
          BY <1>2, <3>1, <3>3, <4>2
        <5>2. i - next + 1 + Tracked \in 1..n /\ Place(next, i - next + 1 + Tracked) = i
          BY <1>2, <3>3, <4>2, <5>1 DEF Place
        <5>3. QED BY <5>2
      <4>3. QED BY <1>2, <4>1, <4>2
    <3>5. health.seen[Place(health.seenNext, k)] = Number(spans[k])
      BY <1>5 DEF Ring
    <3>6. QED BY <3>2, <3>3, <3>4, <3>5
  <2>8. H!retransmitted(health, span) <=> \E r \in H!ToSet(spans) : start < r.end /\ r.start < end
    <3>1. ASSUME NEW o \in H!ToSet(health.seen), H!overlaps(span, o)
          PROVE  \E r \in H!ToSet(spans) : start < r.end /\ r.start < end
      <4>1. PICK k \in 1..n : o = Number(spans[k])
        BY <2>7
      <4>2. spans[k] \in H!ToSet(spans) /\ start < spans[k].end /\ spans[k].start < end
        BY <1>6, <2>5, <3>1, <4>1
      <4>3. QED BY <4>2
    <3>2. ASSUME NEW r \in H!ToSet(spans), start < r.end, r.start < end
          PROVE  H!retransmitted(health, span)
      <4>1. PICK k \in 1..n : r = spans[k]
        BY <1>6
      <4>2. H!overlaps(span, Number(spans[k])) /\ Number(spans[k]) \in H!ToSet(health.seen)
        BY <2>5, <2>6, <3>2, <4>1
      <4>3. H!before(span.start, health.seenEnd)
        BY <1>4, <1>8, <2>1, <2>4, <3>2, <4>1
      <4>4. QED BY <4>2, <4>3 DEF H!retransmitted
    <3>3. QED BY <3>1, <3>2 DEF H!retransmitted
  <2>9. ASSUME NEW l \in Int, health.seenEnd = l % Space, l <= top, \A k \in 1..n : spans[k].end <= l
        PROVE  H!ahead(span.end, health.seenEnd) <=> l < end
    <3>1. -half <= end - l
      BY <1>4b, <2>9
    <3>2. end - l < half
      BY <1>4, <1>8, <2>2, <2>9
    <3>3. QED BY <1>1, <1>2, <1>7, <2>9, <3>1, <3>2, Ordered DEF H!ahead, H!Half
  <2>10. QED BY <1>5, <2>8, <2>9
<1>11. QED BY <1>9, <1>10

LEMMA SegmentStep ==
  ASSUME CaptureInv, NEW start \in (top - Window)..(top + Gap), NEW length \in 1..Longest,
         NEW whole \in BOOLEAN, H!Segment(start, length, whole)
  PROVE  CaptureInv'
<1> USE DEF CaptureInv
<1>a. PICK end \in Int : end = start + length
  BY Numbering DEF CaptureType
<1>b. PICK span : span = [start |-> start % Space, end |-> end % Space]
  OBVIOUS
<1>c. PICK segment : segment = [start |-> start, end |-> end]
  OBVIOUS
<1>d. PICK n \in Nat : n = Len(spans)
  BY Elements DEF CaptureType
<1>e. PICK next \in 1..Tracked : next = health.seenNext
  BY DEF CaptureType, Health
<1>f. PICK again : again = (\E r \in H!ToSet(spans) : start < r.end /\ r.start < end)
  OBVIOUS
<1>1. /\ Space \in Nat \ {0} /\ Tracked \in Nat \ {0} /\ Window \in Nat /\ Gap \in Nat /\ Longest \in Nat
      /\ top \in Int /\ spans \in Seq(Spans) /\ health \in Health /\ health.seen \in Seq(Numbers)
      /\ repeats \in Nat /\ firstSYN \in Nat /\ H_now \in Nat
  BY Numbering DEF CaptureType, Health
<1>2. start \in Int /\ start < end
  BY <1>1, <1>a
<1>3. span \in Numbers /\ segment \in Spans /\ span = Number(segment)
  BY <1>1, <1>2, <1>a, <1>b, <1>c, Divided DEF Numbers, Spans, Number
<1>4. \A r \in H!ToSet(spans) : end - r.start < H!Half
  BY <1>a DEF H!Segment
<1>5. top' = H!larger(top, end) /\ UNCHANGED <<firstSYN, H_now>>
  BY <1>a DEF H!Segment
<1>6. top' \in Int /\ top <= top' /\ end <= top'
  BY <1>1, <1>5, <1>a DEF H!larger
<1>7. \/ UNCHANGED <<health, spans, repeats>>
      \/ /\ health' = H!record(H!counted(health, H!retransmitted(health, span)), span)
         /\ spans' = IF n < Tracked THEN Append(spans, segment) ELSE Append(Tail(spans), segment)
         /\ repeats' = repeats + (IF again THEN 1 ELSE 0)
  <2>1. CASE whole
    BY <1>a, <1>b, <1>c, <1>d, <1>f, <2>1 DEF H!Segment
  <2>2. CASE ~whole
    BY <2>2 DEF H!Segment
  <2>3. QED BY <2>1, <2>2
<1>8. CASE UNCHANGED <<health, spans, repeats>>
  <2>1. CaptureType' /\ Ring' /\ Handshake' /\ H!CaptureCounts'
    BY <1>5, <1>6, <1>8 DEF CaptureType, Ring, Handshake, H!RoundTrip, H!CaptureCounts
  <2>2. Furthest'
    <3>1. ASSUME NEW m \in Int, m <= top PROVE m <= top'
      BY <1>1, <1>6, <3>1
    <3>2. QED BY <1>8, <3>1 DEF Furthest
  <2>3. QED BY <2>1, <2>2
<1>9. CASE /\ health' = H!record(H!counted(health, H!retransmitted(health, span)), span)
           /\ spans' = IF n < Tracked THEN Append(spans, segment) ELSE Append(Tail(spans), segment)
           /\ repeats' = repeats + (IF again THEN 1 ELSE 0)
  <2>1. H!retransmitted(health, span) <=> again
    BY <1>4, <1>a, <1>b, <1>f, CameBefore
  <2>2. PICK count \in Nat : count = IF again THEN health.retransmits + 1 ELSE health.retransmits
    BY <1>1 DEF Health
  <2>3. PICK h : h = H!counted(health, H!retransmitted(health, span))
    OBVIOUS
  <2>4. /\ h \in Health /\ h.seen = health.seen /\ h.seenNext = next /\ h.seenEnd = health.seenEnd
        /\ h.retransmits = count /\ h.synAt = health.synAt /\ h.rtt = health.rtt
    <3>1. h = [health EXCEPT !.retransmits = count]
      BY <1>1, <2>1, <2>2, <2>3 DEF H!counted, Health
    <3>2. QED BY <1>1, <1>e, <3>1 DEF Health
  <2>5. PICK furthest : furthest = H!furthest(h, span)
    OBVIOUS
  <2>6. furthest \in 0..(Space - 1)
    BY <1>3, <2>4, <2>5 DEF H!furthest, Health, Numbers
  <2>7. Len(health.seen) = n /\ n <= Tracked /\ (n < Tracked => next = 1)
    BY <1>d, <1>e DEF Ring
  <2>8. health' = IF n < Tracked THEN [h EXCEPT !.seen = Append(h.seen, span), !.seenEnd = furthest]
                  ELSE [h EXCEPT !.seen = [h.seen EXCEPT ![next] = span],
                                 !.seenNext = (next % Tracked) + 1, !.seenEnd = furthest]
    BY <1>9, <2>3, <2>4, <2>5, <2>7 DEF H!record, Health
  <2>9. /\ health' \in Health /\ health'.seenEnd = furthest /\ health'.retransmits = count
        /\ health'.synAt = health.synAt /\ health'.rtt = health.rtt
        /\ spans' \in Seq(Spans)
        /\ Len(health'.seen) = Len(spans')
        /\ Len(spans') = IF n < Tracked THEN n + 1 ELSE n
        /\ n < Tracked => /\ health'.seenNext = 1
                          /\ \A k \in 1..n : health'.seen[k] = health.seen[k] /\ spans'[k] = spans[k]
                          /\ health'.seen[n + 1] = span /\ spans'[n + 1] = segment
        /\ n = Tracked => /\ health'.seenNext = IF next = Tracked THEN 1 ELSE next + 1
                          /\ \A k \in 1..n : health'.seen[k] = IF k = next THEN span ELSE health.seen[k]
                          /\ \A k \in 1..(n - 1) : spans'[k] = spans[k + 1]
                          /\ spans'[n] = segment
    <3>1. CASE n < Tracked
      <4>1. PICK s \in Seq(Numbers) : s = Append(health.seen, span)
        BY <1>1, <1>3, Appended
      <4>2. health' = [h EXCEPT !.seen = s, !.seenEnd = furthest]
        BY <2>4, <2>8, <3>1, <4>1
      <4>3. Len(s) = n + 1 /\ (\A k \in 1..n : s[k] = health.seen[k]) /\ s[n + 1] = span
        <5>1. PICK prior \in Seq(Numbers) : prior = health.seen
          BY <1>1
        <5>2. Len(prior) = n /\ s = Append(prior, span) /\ span \in Numbers
          BY <1>3, <2>7, <4>1, <5>1
        <5>3. Len(s) = n + 1 /\ (\A k \in 1..n : s[k] = prior[k]) /\ s[n + 1] = span
          BY <5>2, Appended
        <5>4. QED BY <5>1, <5>3
      <4>4. spans' \in Seq(Spans) /\ Len(spans') = n + 1 /\ (\A k \in 1..n : spans'[k] = spans[k]) /\ spans'[n + 1] = segment
        BY <1>1, <1>3, <1>9, <1>d, <3>1, Appended
      <4>5. /\ health' \in Health /\ health'.seenEnd = furthest /\ health'.retransmits = count
            /\ health'.synAt = health.synAt /\ health'.rtt = health.rtt
            /\ health'.seen = s /\ health'.seenNext = next
        BY <2>4, <2>6, <4>2 DEF Health
      <4>6. QED BY <2>7, <3>1, <4>3, <4>4, <4>5
    <3>2. CASE ~(n < Tracked)
      <4>1. n = Tracked /\ next \in 1..Len(health.seen) /\ spans # <<>>
        BY <1>1, <1>d, <2>7, <3>2
      <4>2. PICK s : s = [health.seen EXCEPT ![next] = span]
        OBVIOUS
      <4>3. s \in Seq(Numbers) /\ Len(s) = n /\ \A k \in 1..n : s[k] = IF k = next THEN span ELSE health.seen[k]
        BY <1>1, <1>3, <2>7, <4>1, <4>2, Changed
      <4>4. PICK following \in 1..Tracked : following = (next % Tracked) + 1 /\ following = IF next = Tracked THEN 1 ELSE next + 1
        BY NextPlace
      <4>5. health' = [h EXCEPT !.seen = s, !.seenNext = following, !.seenEnd = furthest]
        BY <2>4, <2>8, <3>2, <4>2, <4>4
      <4>6. /\ health' \in Health /\ health'.seenEnd = furthest /\ health'.retransmits = count
            /\ health'.synAt = health.synAt /\ health'.rtt = health.rtt
            /\ health'.seen = s /\ health'.seenNext = following
        BY <2>4, <2>6, <4>3, <4>5 DEF Health
      <4>7. PICK t \in Seq(Spans) : t = Tail(spans) /\ Len(t) = n - 1 /\ \A k \in 1..(n - 1) : t[k] = spans[k + 1]
        <5>1. Len(spans) = n /\ spans \in Seq(Spans) /\ spans # <<>>
          BY <1>1, <1>d, <4>1
        <5>2. Tail(spans) \in Seq(Spans) /\ Len(Tail(spans)) = n - 1
              /\ \A k \in 1..Len(Tail(spans)) : Tail(spans)[k] = spans[k + 1]
          BY <5>1, Tailed
        <5>3. QED BY <5>2
      <4>8. spans' = Append(t, segment)
        BY <1>9, <3>2, <4>7
      <4>9. spans' \in Seq(Spans) /\ Len(spans') = n /\ (\A k \in 1..(n - 1) : spans'[k] = spans[k + 1]) /\ spans'[n] = segment
        BY <1>3, <4>7, <4>8, Appended
      <4>10. QED BY <3>2, <4>1, <4>3, <4>4, <4>6, <4>9
    <3>3. QED BY <3>1, <3>2
  <2>10. CaptureType' /\ Handshake' /\ H!CaptureCounts'
    <3>1. health.retransmits = repeats /\ count = repeats'
      BY <1>1, <1>9, <2>2 DEF H!CaptureCounts
    <3>2. repeats' \in Nat
      BY <2>2, <3>1
    <3>3. QED BY <1>5, <1>6, <1>1, <2>9, <3>1, <3>2 DEF CaptureType, Handshake, H!RoundTrip, H!CaptureCounts
  <2>11. \A k \in 1..n : spans[k].start < spans[k].end
    BY <1>d DEF Furthest
  <2>12. \A k \in 1..n : health.seen[Place(next, k)] = Number(spans[k])
    BY <1>d, <1>e DEF Ring
  <2>13. PICK l \in Int : /\ furthest = l % Space /\ l <= top' /\ end <= l
                          /\ \A k \in 1..n : spans[k].end <= l
    <3>1. CASE spans = <<>>
      <4>1. health.seen = <<>> /\ n = 0
        BY <1>1, <1>d, <2>7, <3>1
      <4>2. furthest = end % Space
        BY <1>b, <2>4, <2>5, <4>1 DEF H!furthest
      <4>3. QED BY <1>6, <4>1, <4>2
    <3>2. CASE spans # <<>>
      <4>1. PICK m \in Int : health.seenEnd = m % Space /\ m <= top /\ \A k \in 1..n : spans[k].end <= m
        BY <1>d, <3>2 DEF Furthest
      <4>2. H!ahead(span.end, health.seenEnd) <=> m < end
        BY <1>4, <1>a, <1>b, <1>d, <3>2, <4>1, CameBefore
      <4>3. health.seen # <<>>
        BY <1>1, <1>d, <2>7, <3>2
      <4>4. furthest = IF m < end THEN end % Space ELSE m % Space
        BY <1>b, <2>4, <2>5, <4>1, <4>2, <4>3 DEF H!furthest
      <4>5. \A k \in 1..n : spans[k].end \in Int
        <5>1. \A k \in 1..n : spans[k] \in Spans
          BY <1>1, <1>d, Elements
        <5>2. QED BY <5>1 DEF Spans
      <4>6. CASE m < end
        BY <1>6, <4>1, <4>4, <4>5, <4>6
      <4>7. CASE ~(m < end)
        <5>1. furthest = m % Space /\ end <= m /\ m <= top'
          BY <1>1, <1>6, <4>1, <4>4, <4>7
        <5>2. QED BY <4>1, <5>1
      <4>8. QED BY <4>6, <4>7
    <3>3. QED BY <3>1, <3>2
  <2>14. segment.start < segment.end /\ segment.end = end
    BY <1>2, <1>c
  <2>15. Furthest' /\ Ring'
    <3>1. CASE n < Tracked
      <4>1. Len(spans') = n + 1 /\ \A k \in 1..(n + 1) : k \in 1..n \/ k = n + 1
        BY <2>9, <3>1
      <4>2. Furthest'
        BY <2>9, <2>11, <2>13, <2>14, <3>1, <4>1 DEF Furthest
      <4>3. next = 1 /\ \A k \in 1..(n + 1) : Place(1, k) = k
        BY <1>1, <2>7, <3>1 DEF Place
      <4>4. \A k \in 1..n : k \in 1..(n + 1) /\ health.seen[k] = Number(spans[k])
        BY <2>12, <4>3
      <4>5. \A k \in 1..(n + 1) : health'.seen[k] = Number(spans'[k])
        BY <1>3, <2>9, <3>1, <4>1, <4>4
      <4>6. Ring'
        <5>1. Len(spans') <= Tracked
          BY <1>1, <3>1, <4>1
        <5>2. \A k \in 1..Len(spans') : health'.seen[Place(health'.seenNext, k)] = Number(spans'[k])
          BY <2>9, <3>1, <4>1, <4>3, <4>5
        <5>3. QED BY <2>9, <3>1, <5>1, <5>2 DEF Ring
      <4>7. QED BY <4>2, <4>6
    <3>2. CASE n = Tracked
      <4>1. Len(spans') = n /\ \A k \in 1..n : k = n \/ (k \in 1..(n - 1) /\ k + 1 \in 1..n)
        BY <2>9, <3>2
      <4>2. Furthest'
        BY <2>9, <2>11, <2>13, <2>14, <3>2, <4>1 DEF Furthest
      <4>3. PICK following \in 1..Tracked : following = health'.seenNext /\ following = IF next = Tracked THEN 1 ELSE next + 1
        BY <1>1, <2>9, <3>2
      <4>4. Place(following, n) = next
        BY <1>1, <3>2, <4>3 DEF Place
      <4>5. \A k \in 1..(n - 1) : Place(following, k) = Place(next, k + 1) /\ Place(following, k) # next
                                  /\ Place(following, k) \in 1..n
        BY <1>1, <3>2, <4>3 DEF Place
      <4>6. next \in 1..n
        BY <3>2
      <4>7. health'.seen[next] = Number(spans'[n])
        BY <1>3, <2>9, <3>2, <4>6
      <4>8. \A k \in 1..(n - 1) : health'.seen[Place(following, k)] = Number(spans'[k])
        <5>1. ASSUME NEW k \in 1..(n - 1) PROVE health'.seen[Place(following, k)] = Number(spans'[k])
          <6>1. PICK i \in 1..n : i = Place(following, k) /\ i # next
            BY <4>5
          <6>2. health'.seen[i] = health.seen[i] /\ spans'[k] = spans[k + 1]
            BY <2>9, <3>2, <6>1
          <6>3. health.seen[i] = Number(spans[k + 1])
            BY <2>12, <4>1, <4>5, <6>1
          <6>4. QED BY <6>1, <6>2, <6>3
        <5>2. QED BY <5>1
      <4>9. \A k \in 1..n : health'.seen[Place(following, k)] = Number(spans'[k])
        BY <4>1, <4>4, <4>7, <4>8
      <4>10. Ring'
        BY <1>1, <2>9, <3>2, <4>1, <4>3, <4>9 DEF Ring
      <4>11. QED BY <4>2, <4>10
    <3>3. QED BY <1>1, <2>7, <3>1, <3>2
  <2>16. QED BY <2>10, <2>15
<1>10. QED BY <1>7, <1>8, <1>9

(***************************************************************************)
(* The socket as the kernel reports it: an event has counters or a sample.  *)
(***************************************************************************)
Socket == [retransmits : Nat, segsOut : Nat, sampled : Nat, jiffies : Nat]
SocketEvents ==
  {e \in [retransmits : Nat, segsOut : Nat, sampled : Nat, jiffies : Nat] :
     e.sampled = 0 \/ (e.retransmits = 0 /\ e.segsOut = 0)}
KernelInv ==
  /\ socket \in Socket /\ reports \subseteq SocketEvents /\ taken \subseteq SocketEvents
  /\ kernel.retransmits \in Nat /\ kernel.segsOut \in Nat /\ kernel.sampled \in Nat
  /\ DOMAIN kernel = {"retransmits", "segsOut", "sampled", "jiffies", "hz"}
  /\ H!KernelIsLatest

LEMMA KernelInit == H!Init => KernelInv
<1> SUFFICES ASSUME H!Init PROVE KernelInv
  OBVIOUS
<1>1. /\ kernel = [retransmits |-> 0, segsOut |-> 0, sampled |-> 0, jiffies |-> 0, hz |-> 0]
      /\ socket = [retransmits |-> 0, segsOut |-> 0, sampled |-> 0, jiffies |-> 0]
      /\ reports = {} /\ taken = {}
  BY DEF H!Init
<1>2. H!KernelIsLatest
  BY <1>1, Numbering DEF H!KernelIsLatest
<1>3. QED BY <1>1, <1>2 DEF KernelInv, Socket

LEMMA ReportSampleStep ==
  ASSUME KernelInv,
         \/ \E resent, again \in 0..1 : H!Report(resent, again)
         \/ \E ns \in 1..2, ticks \in 0..2 : H!Sample(ns, ticks)
  PROVE  KernelInv'
<1> USE DEF KernelInv
<1>1. UNCHANGED <<kernel, taken>>
  BY DEF H!Report, H!Sample
<1>2. socket' \in Socket /\ reports' \subseteq SocketEvents
  <2>1. ASSUME NEW resent \in 0..1, NEW again \in 0..1, H!Report(resent, again)
        PROVE  socket' \in Socket /\ reports' \subseteq SocketEvents
    <3>1. socket' \in Socket
      <4>1. PICK a \in Nat : a = socket.segsOut + resent
        BY DEF Socket
      <4>2. PICK b \in Nat : b = socket.retransmits + again
        BY DEF Socket
      <4>3. socket' = [socket EXCEPT !.segsOut = a, !.retransmits = b]
        BY <2>1, <4>1, <4>2 DEF H!Report, Socket
      <4>4. QED BY <4>3 DEF Socket
    <3>2. [sampled |-> 0, jiffies |-> 0, segsOut |-> socket'.segsOut, retransmits |-> socket'.retransmits] \in SocketEvents
      BY <3>1 DEF Socket, SocketEvents
    <3>3. QED BY <2>1, <3>1, <3>2 DEF H!Report
  <2>2. ASSUME NEW ns \in 1..2, NEW ticks \in 0..2, H!Sample(ns, ticks)
        PROVE  socket' \in Socket /\ reports' \subseteq SocketEvents
    <3>1. socket' \in Socket
      <4>1. PICK a \in Nat : a = socket.sampled + ns
        BY DEF Socket
      <4>2. PICK b \in Nat : b = socket.jiffies + ticks
        BY DEF Socket
      <4>3. socket' = [socket EXCEPT !.sampled = a, !.jiffies = b]
        BY <2>2, <4>1, <4>2 DEF H!Sample, Socket
      <4>4. QED BY <4>3 DEF Socket
    <3>2. [sampled |-> socket'.sampled, jiffies |-> socket'.jiffies, segsOut |-> 0, retransmits |-> 0] \in SocketEvents
      BY <3>1 DEF Socket, SocketEvents
    <3>3. QED BY <2>2, <3>1, <3>2 DEF H!Sample
  <2>3. QED BY <2>1, <2>2
<1>3. QED BY <1>1, <1>2 DEF H!KernelIsLatest

LEMMA KernelEventStep ==
  ASSUME KernelInv, NEW e \in reports, H!Event(e)
  PROVE  KernelInv'
<1> USE DEF KernelInv
<1>1. /\ reports' = reports \ {e} /\ taken' = taken \cup {e}
      /\ kernel' = H!observeKernel(kernel, e) /\ socket' = socket
  BY DEF H!Event
<1>2. /\ e.retransmits \in Nat /\ e.segsOut \in Nat /\ e.sampled \in Nat
      /\ e.sampled = 0 \/ (e.retransmits = 0 /\ e.segsOut = 0)
      /\ e \in SocketEvents
  BY DEF SocketEvents
<1>3. kernel.retransmits \in Nat /\ kernel.segsOut \in Nat /\ kernel.sampled \in Nat /\ kernel.hz <= MaxHZ
      /\ DOMAIN kernel = {"retransmits", "segsOut", "sampled", "jiffies", "hz"}
  BY DEF H!KernelIsLatest
<1> DEFINE All(field) == {t[field] : t \in taken} \cup {0}
<1>4. \A field \in {"retransmits", "segsOut", "sampled"} :
        kernel[field] \in All(field) /\ \A v \in All(field) : v <= kernel[field]
  BY DEF H!KernelIsLatest
<1>5. \A field : ({t[field] : t \in taken'} \cup {0}) = All(field) \cup {e[field]}
  BY <1>1
<1>6. \A field \in {"retransmits", "segsOut", "sampled"} : \A v \in All(field) : v \in Nat
  BY DEF SocketEvents
<1>7. SUFFICES /\ kernel'.retransmits = H!larger(kernel.retransmits, e.retransmits)
               /\ kernel'.segsOut = H!larger(kernel.segsOut, e.segsOut)
               /\ kernel'.sampled = H!larger(kernel.sampled, e.sampled)
               /\ DOMAIN kernel' = DOMAIN kernel /\ kernel'.hz <= MaxHZ
  <2>1. ASSUME NEW field \in {"retransmits", "segsOut", "sampled"}
        PROVE  /\ kernel'[field] \in All(field) \cup {e[field]}
               /\ \A v \in All(field) \cup {e[field]} : v <= kernel'[field]
               /\ kernel'[field] \in Nat
    <3>1. kernel'[field] = H!larger(kernel[field], e[field])
      BY <1>7
    <3>2. kernel[field] \in Nat /\ e[field] \in Nat
      BY <1>2, <1>3
    <3>3. kernel[field] \in All(field) /\ (\A v \in All(field) : v <= kernel[field]) /\ \A v \in All(field) : v \in Nat
      BY <1>4, <1>6
    <3>4. PICK a \in Nat : a = kernel[field] BY <3>2
    <3>5. PICK b \in Nat : b = e[field] BY <3>2
    <3>6. kernel'[field] = IF a < b THEN b ELSE a BY <3>1, <3>4, <3>5 DEF H!larger
    <3>7. a <= kernel'[field] /\ b <= kernel'[field] /\ kernel'[field] \in Nat BY <3>6
    <3>8. ASSUME NEW v \in All(field) PROVE v <= kernel'[field]
      <4>1. PICK w \in Nat : w = v BY <3>3
      <4>2. w <= a BY <3>3, <3>4, <4>1
      <4>3. PICK most \in Nat : most = kernel'[field] /\ a <= most BY <3>7
      <4>4. w <= most BY <4>2, <4>3
      <4>5. QED BY <4>1, <4>3, <4>4
    <3>9. kernel'[field] \in {kernel[field], e[field]} BY <3>4, <3>5, <3>6
    <3>10. QED BY <3>3, <3>5, <3>7, <3>8, <3>9
  <2>2. H!KernelIsLatest'
    BY <1>5, <1>7, <2>1 DEF H!KernelIsLatest
  <2>3. kernel'.retransmits \in Nat /\ kernel'.segsOut \in Nat /\ kernel'.sampled \in Nat
    BY <2>1
  <2>4. reports' \subseteq SocketEvents /\ taken' \subseteq SocketEvents
    BY <1>1, <1>2
  <2>5. QED BY <1>1, <1>3, <1>7, <2>2, <2>3, <2>4
<1>8. CASE e.sampled = 0
  <2>1. kernel' = [kernel EXCEPT !.retransmits = H!larger(kernel.retransmits, e.retransmits),
                                 !.segsOut = H!larger(kernel.segsOut, e.segsOut)]
    BY <1>1, <1>8 DEF H!observeKernel
  <2>2. H!larger(kernel.sampled, e.sampled) = kernel.sampled
    BY <1>3, <1>8 DEF H!larger
  <2>3. QED BY <1>3, <2>1, <2>2
<1>9. CASE e.sampled # 0
  <2>1. /\ H!larger(kernel.retransmits, e.retransmits) = kernel.retransmits
        /\ H!larger(kernel.segsOut, e.segsOut) = kernel.segsOut
    BY <1>2, <1>3, <1>9 DEF H!larger
  <2>2. CASE e.sampled < kernel.sampled
    <3>1. kernel' = kernel
      BY <1>1, <1>9, <2>2 DEF H!observeKernel
    <3>2. H!larger(kernel.sampled, e.sampled) = kernel.sampled
      BY <1>2, <1>3, <2>2 DEF H!larger
    <3>3. QED BY <1>3, <2>1, <3>1, <3>2
  <2>3. CASE ~(e.sampled < kernel.sampled)
    <3>1. PICK hz : hz = H!estimate(kernel, e)
      OBVIOUS
    <3>2. kernel' = [kernel EXCEPT !.sampled = e.sampled, !.jiffies = e.jiffies, !.hz = hz]
      BY <1>1, <1>9, <2>3, <3>1 DEF H!observeKernel
    <3>3. H!larger(kernel.sampled, e.sampled) = e.sampled
      BY <1>2, <1>3, <2>3 DEF H!larger
    <3>4. hz <= MaxHZ
      <4>1. PICK q : q = ((e.jiffies - kernel.jiffies) * Second) \div (e.sampled - kernel.sampled)
        OBVIOUS
      <4>2. hz = IF kernel.sampled > 0 /\ e.jiffies > kernel.jiffies /\ q <= MaxHZ THEN q ELSE kernel.hz
        BY <3>1, <4>1 DEF H!estimate
      <4>3. QED BY <1>3, <4>2
    <3>5. QED BY <1>3, <2>1, <3>2, <3>3, <3>4
  <2>4. QED BY <2>2, <2>3
<1>10. QED BY <1>8, <1>9

(***************************************************************************)
(* Health.                                                                 *)
(***************************************************************************)
LEMMA HealthStep == CaptureInv /\ KernelInv /\ [CollectorNext]_all => CaptureInv' /\ KernelInv'
<1> SUFFICES ASSUME CaptureInv, KernelInv, [CollectorNext]_all PROVE CaptureInv' /\ KernelInv'
  OBVIOUS
<1>1. H!Next \/ UNCHANGED tcp
  BY DEF CollectorNext, all
<1>2. ASSUME UNCHANGED H!captureVars PROVE CaptureInv'
  BY <1>2 DEF H!captureVars, CaptureInv, CaptureType, Ring, Furthest, Handshake, H!RoundTrip, H!CaptureCounts
<1>3. ASSUME UNCHANGED H!kernelVars PROVE KernelInv'
  BY <1>3 DEF H!kernelVars, KernelInv, H!KernelIsLatest
<1>4. CASE UNCHANGED tcp
  <2>1. UNCHANGED H!captureVars /\ UNCHANGED H!kernelVars
    BY <1>4 DEF tcp, H!captureVars, H!kernelVars
  <2>2. QED BY <1>2, <1>3, <2>1
<1>5. CASE H!CaptureNext
  <2>1. UNCHANGED H!kernelVars
    BY <1>5 DEF H!CaptureNext, H!SYN, H!SYNACK, H!Wait, H!Segment
  <2>2. CaptureInv'
    BY <1>5, HandshakeStep, SegmentStep DEF H!CaptureNext
  <2>3. QED BY <1>3, <2>1, <2>2
<1>6. CASE H!KernelNext
  <2>1. UNCHANGED H!captureVars
    BY <1>6 DEF H!KernelNext, H!Report, H!Sample, H!Event
  <2>2. KernelInv'
    BY <1>6, ReportSampleStep, KernelEventStep DEF H!KernelNext
  <2>3. QED BY <1>2, <2>1, <2>2
<1>7. QED BY <1>1, <1>4, <1>5, <1>6 DEF H!Next

(* Retransmissions are counted as often as a segment comes again, the round   *)
(* trip is that of the handshake, the kernel's part is the latest of its      *)
(* events (observe, record, observeKernel): for any sequence numbers and ring, *)
(* as long as nothing is half of the numbers late.                           *)
THEOREM HealthRight == CollectorSpec => []HealthAsSeen
<1>1. CollectorInit => CaptureInv /\ KernelInv
  BY CaptureInit, KernelInit DEF CollectorInit
<1>2. CaptureInv /\ KernelInv /\ [CollectorNext]_all => (CaptureInv /\ KernelInv)'
  BY HealthStep
<1>3. CaptureInv /\ KernelInv => HealthAsSeen
  BY DEF CaptureInv, KernelInv, Handshake, HealthAsSeen
<1>4. QED BY <1>1, <1>2, <1>3, PTL DEF CollectorSpec

(***************************************************************************)
(* The name of a flow: whatever the evidence, the strongest is chosen.      *)
(***************************************************************************)
Flow == [of : Nat \ {0}, known : BOOLEAN, closed : BOOLEAN, last : Nat, tls : BOOLEAN,
         wire : Nat, wireECH : BOOLEAN, socket : Nat, socketECH : BOOLEAN, process : Nat,
         dns : {"none", "dns", "dns_process"},
         domain : {"wire", "socket", "process", "dns", "dns_process", "missed", "none"},
         conflict : BOOLEAN]
Packets == [of : Nat, kind : {"syn", "hello", "end"}, ech : BOOLEAN, at : Nat]
Items == [of : Nat, from : {"client", "server"}, ech : BOOLEAN, at : Nat]
Pending == [of : Nat, from : {"client", "server"}, ech : BOOLEAN, seen : Nat]

(* The evidence is of the flow's connection, but for what the socket showed,  *)
(* which may be of a later one.                                             *)
Own(f) ==
  /\ f.wire \in {0, f.of} /\ f.process \in {0, f.of}
  /\ f.socket = 0 \/ f.of <= f.socket
  /\ f.conflict => f.socket \notin {0, f.of}

Strongest(f) ==
  IF \E i \in DOMAIN N!ranks : N!says(f, N!ranks[i])
  THEN \E i \in DOMAIN N!ranks : /\ N!says(f, N!ranks[i]) /\ f.domain = N!shown(f, N!ranks[i])
                                 /\ \A j \in 1..(i - 1) : ~N!says(f, N!ranks[j])
  ELSE f.domain \in {"none", "missed"}

(* What is shown depends on the evidence alone.                              *)
SameEvidence(f, g) ==
  /\ g.wire = f.wire /\ g.wireECH = f.wireECH /\ g.socket = f.socket /\ g.socketECH = f.socketECH
  /\ g.process = f.process /\ g.dns = f.dns

LEMMA ShownAlike ==
  ASSUME NEW f, NEW g, SameEvidence(f, g), g.domain = f.domain, Strongest(f)
  PROVE  Strongest(g)
<1>1. N!clientBytes(g) = N!clientBytes(f)
  BY DEF N!clientBytes, SameEvidence
<1>2. \A source : N!says(g, source) = N!says(f, source) /\ N!shown(g, source) = N!shown(f, source)
  BY <1>1 DEF N!says, N!shown, SameEvidence
<1>3. QED BY <1>2 DEF Strongest

LEMMA Ranked ==
  /\ DOMAIN N!ranks = 1..5
  /\ N!ranks[1] = "clear bytes" /\ N!ranks[2] = "process" /\ N!ranks[3] = "dns_process"
  /\ N!ranks[4] = "bytes" /\ N!ranks[5] = "dns"
  BY DEF N!ranks

LEMMA Chosen ==
  ASSUME NEW f \in Flow, Own(f), NEW g, g = N!chooseDomain(f)
  PROVE  /\ g \in Flow /\ Own(g) /\ Strongest(g) /\ SameEvidence(f, g)
         /\ g.of = f.of /\ g.known = f.known /\ g.closed = f.closed /\ g.last = f.last /\ g.tls = f.tls
<1>1. PICK bytes : bytes = N!clientBytes(f)
  OBVIOUS
<1>2. /\ bytes.from \in {"wire", "socket"} /\ bytes.ech \in BOOLEAN
      /\ bytes.name = IF bytes.from = "wire" THEN f.wire ELSE f.socket
      /\ bytes.from = "socket" => f.wire = 0
  BY <1>1 DEF N!clientBytes, Flow
<1>3. PICK hidden : hidden = (bytes.ech /\ (f.process # 0 \/ f.dns = "dns_process"))
  OBVIOUS
<1>4. g = IF bytes.name # 0 /\ ~hidden
          THEN [f EXCEPT !.domain = bytes.from, !.conflict = @ \/ f.process \notin {0, bytes.name}]
          ELSE [f EXCEPT !.domain = IF f.process # 0 THEN "process"
                                    ELSE IF f.dns # "none" THEN f.dns
                                    ELSE IF f.tls THEN "missed" ELSE "none"]
  BY <1>1, <1>3 DEF N!chooseDomain, N!NoDNS
<1>5. /\ f.of \in Nat \ {0} /\ f.wire \in Nat /\ f.socket \in Nat /\ f.process \in Nat
      /\ f.dns \in {"none", "dns", "dns_process"} /\ f.conflict \in BOOLEAN /\ f.tls \in BOOLEAN
  BY DEF Flow
<1>6. /\ g \in Flow /\ SameEvidence(f, g) /\ g.of = f.of /\ g.known = f.known /\ g.closed = f.closed
      /\ g.last = f.last /\ g.tls = f.tls
      /\ g.domain = IF bytes.name # 0 /\ ~hidden THEN bytes.from
                    ELSE IF f.process # 0 THEN "process"
                    ELSE IF f.dns # "none" THEN f.dns
                    ELSE IF f.tls THEN "missed" ELSE "none"
      /\ g.conflict => f.conflict \/ (bytes.name # 0 /\ f.process \notin {0, bytes.name})
  <2>1. CASE bytes.name # 0 /\ ~hidden
    <3>1. PICK conflict \in BOOLEAN : conflict = (f.conflict \/ f.process \notin {0, bytes.name})
      OBVIOUS
    <3>2. g = [f EXCEPT !.domain = bytes.from, !.conflict = conflict]
      BY <1>4, <2>1, <3>1 DEF Flow
    <3>3. QED BY <1>2, <2>1, <3>1, <3>2 DEF Flow, SameEvidence
  <2>2. CASE ~(bytes.name # 0 /\ ~hidden)
    <3>1. PICK domain \in {"process", "dns", "dns_process", "missed", "none"} :
            domain = IF f.process # 0 THEN "process"
                     ELSE IF f.dns # "none" THEN f.dns
                     ELSE IF f.tls THEN "missed" ELSE "none"
      BY <1>5
    <3>2. g = [f EXCEPT !.domain = domain]
      BY <1>4, <2>2, <3>1
    <3>3. QED BY <2>2, <3>1, <3>2 DEF Flow, SameEvidence
  <2>3. QED BY <2>1, <2>2
<1>7. Own(g)
  <2>1. ASSUME bytes.name # 0, f.process \notin {0, bytes.name} PROVE f.socket \notin {0, f.of}
    BY <1>2, <1>5, <2>1 DEF Own
  <2>2. QED BY <1>6, <2>1 DEF Own, SameEvidence
<1>8. N!clientBytes(g) = bytes
  BY <1>1, <1>6 DEF N!clientBytes, SameEvidence
<1>9. /\ N!says(g, "clear bytes") <=> bytes.name # 0 /\ ~bytes.ech
      /\ N!says(g, "process") <=> f.process # 0
      /\ N!says(g, "dns_process") <=> f.dns = "dns_process"
      /\ N!says(g, "bytes") <=> bytes.name # 0
      /\ N!says(g, "dns") <=> f.dns = "dns"
  BY <1>6, <1>8 DEF N!says, SameEvidence
<1>10. /\ N!shown(g, "clear bytes") = bytes.from /\ N!shown(g, "process") = "process"
       /\ N!shown(g, "dns_process") = "dns_process" /\ N!shown(g, "bytes") = bytes.from
       /\ N!shown(g, "dns") = "dns"
  BY <1>8 DEF N!shown
<1>11. Strongest(g)
  <2>1. ASSUME NEW i \in 1..5, N!says(g, N!ranks[i]), g.domain = N!shown(g, N!ranks[i]),
               \A j \in 1..(i - 1) : ~N!says(g, N!ranks[j])
        PROVE  Strongest(g)
    BY <2>1, Ranked DEF Strongest
  <2>2. CASE bytes.name # 0 /\ ~bytes.ech
    <3>1. ~hidden /\ g.domain = bytes.from
      BY <1>3, <1>6, <2>2
    <3>2. \A j \in 1..(1 - 1) : FALSE
      OBVIOUS
    <3>3. N!says(g, N!ranks[1]) /\ g.domain = N!shown(g, N!ranks[1])
      BY <1>9, <1>10, <2>2, <3>1, Ranked
    <3>4. \A j \in 1..(1 - 1) : ~N!says(g, N!ranks[j])
      BY <1>9, <2>2, <3>2, Ranked
    <3>5. QED BY <2>1, <3>3, <3>4
  <2>3. CASE ~(bytes.name # 0 /\ ~bytes.ech) /\ f.process # 0
    <3>1. g.domain = "process"
      BY <1>2, <1>3, <1>6, <2>3
    <3>2. \A j \in 1..(2 - 1) : j = 1
      OBVIOUS
    <3>3. N!says(g, N!ranks[2]) /\ g.domain = N!shown(g, N!ranks[2])
      BY <1>9, <1>10, <2>3, <3>1, Ranked
    <3>4. \A j \in 1..(2 - 1) : ~N!says(g, N!ranks[j])
      BY <1>9, <2>3, <3>2, Ranked
    <3>5. QED BY <2>1, <3>3, <3>4
  <2>4. CASE ~(bytes.name # 0 /\ ~bytes.ech) /\ f.process = 0 /\ f.dns = "dns_process"
    <3>1. g.domain = "dns_process"
      BY <1>2, <1>3, <1>6, <2>4
    <3>2. \A j \in 1..(3 - 1) : j \in {1, 2}
      OBVIOUS
    <3>3. N!says(g, N!ranks[3]) /\ g.domain = N!shown(g, N!ranks[3])
      BY <1>9, <1>10, <2>4, <3>1, Ranked
    <3>4. \A j \in 1..(3 - 1) : ~N!says(g, N!ranks[j])
      BY <1>9, <2>4, <3>2, Ranked
    <3>5. QED BY <2>1, <3>3, <3>4
  <2>5. CASE ~(bytes.name # 0 /\ ~bytes.ech) /\ f.process = 0 /\ f.dns # "dns_process" /\ bytes.name # 0
    <3>1. g.domain = bytes.from
      BY <1>3, <1>6, <2>5
    <3>2. \A j \in 1..(4 - 1) : j \in {1, 2, 3}
      OBVIOUS
    <3>3. N!says(g, N!ranks[4]) /\ g.domain = N!shown(g, N!ranks[4])
      BY <1>9, <1>10, <2>5, <3>1, Ranked
    <3>4. \A j \in 1..(4 - 1) : ~N!says(g, N!ranks[j])
      BY <1>9, <2>5, <3>2, Ranked
    <3>5. QED BY <2>1, <3>3, <3>4
  <2>6. CASE bytes.name = 0 /\ f.process = 0 /\ f.dns = "dns"
    <3>1. g.domain = "dns"
      BY <1>6, <2>6
    <3>2. \A j \in 1..(5 - 1) : j \in {1, 2, 3, 4}
      OBVIOUS
    <3>3. N!says(g, N!ranks[5]) /\ g.domain = N!shown(g, N!ranks[5])
      BY <1>9, <1>10, <2>6, <3>1, Ranked
    <3>4. \A j \in 1..(5 - 1) : ~N!says(g, N!ranks[j])
      BY <1>9, <2>6, <3>2, Ranked
    <3>5. QED BY <2>1, <3>3, <3>4
  <2>7. CASE bytes.name = 0 /\ f.process = 0 /\ f.dns = "none"
    <3>1. g.domain \in {"missed", "none"}
      BY <1>6, <2>7
    <3>2. \A i \in 1..5 : i \in {1, 2, 3, 4, 5}
      OBVIOUS
    <3>3. \A i \in 1..5 : ~N!says(g, N!ranks[i])
      BY <1>9, <2>7, <3>2, Ranked
    <3>4. QED BY <3>1, <3>3, Ranked DEF Strongest
  <2>8. QED BY <1>5, <2>2, <2>3, <2>4, <2>5, <2>6, <2>7
<1>12. QED BY <1>6, <1>7, <1>11

LEMMA SocketAttached ==
  ASSUME NEW f \in Flow, Own(f), NEW s, s.of \in Nat, s.ech \in BOOLEAN, f.of <= s.of, f.socket <= s.of,
         NEW g, g = N!attachSocketDomain(f, s)
  PROVE  /\ g \in Flow /\ Own(g) /\ (Strongest(f) => Strongest(g)) /\ g.socket \in {f.socket, s.of}
         /\ g.of = f.of /\ g.closed = f.closed /\ g.last = f.last
<1>1. CASE f.known /\ s.from # "client"
  BY <1>1 DEF N!attachSocketDomain
<1>2. CASE ~(f.known /\ s.from # "client")
  <2>1. PICK h : h = [f EXCEPT !.socket = s.of, !.socketECH = s.ech, !.tls = TRUE]
    OBVIOUS
  <2>2. h \in Flow /\ h.socket = s.of /\ h.of = f.of /\ h.closed = f.closed /\ h.last = f.last
        /\ h.wire = f.wire /\ h.process = f.process /\ h.conflict = f.conflict
    BY <2>1 DEF Flow
  <2>3. f.of \in Nat \ {0} /\ f.socket \in Nat
    BY DEF Flow
  <2>4. Own(h)
    BY <2>2, <2>3 DEF Own
  <2>5. g = N!chooseDomain(h)
    BY <1>2, <2>1 DEF N!attachSocketDomain
  <2>6. QED BY <2>2, <2>4, <2>5, Chosen DEF SameEvidence
<1>3. QED BY <1>1, <1>2

LEMMA ProcessNamed ==
  ASSUME NEW f \in Flow, Own(f), NEW e, e.of = f.of, NEW g, g = N!applyTLSEvent(f, e)
  PROVE  /\ g \in Flow /\ Own(g) /\ Strongest(g) /\ g.socket = f.socket
         /\ g.of = f.of /\ g.closed = f.closed /\ g.last = f.last
<1>1. f.of \in Nat \ {0} /\ f.process \in {0, e.of}
  BY DEF Flow, Own
<1>2. PICK h : h = [f EXCEPT !.process = e.of]
  OBVIOUS
<1>3. h \in Flow /\ h.socket = f.socket /\ h.of = f.of /\ h.closed = f.closed /\ h.last = f.last
      /\ h.wire = f.wire /\ h.process = f.of /\ h.conflict = f.conflict
  BY <1>1, <1>2 DEF Flow
<1>4. Own(h)
  BY <1>3 DEF Own
<1>5. PICK c : c = N!chooseDomain(h)
  OBVIOUS
<1>6. /\ c \in Flow /\ Own(c) /\ Strongest(c) /\ SameEvidence(h, c)
      /\ c.of = f.of /\ c.closed = f.closed /\ c.last = f.last
  BY <1>3, <1>4, <1>5, Chosen
<1>7. PICK t \in BOOLEAN : g = [c EXCEPT !.tls = t]
  <2>1. g = [c EXCEPT !.tls = @ \/ c.domain = "process"]
    BY <1>1, <1>2, <1>5 DEF N!applyTLSEvent
  <2>2. PICK t \in BOOLEAN : t = (c.tls \/ c.domain = "process")
    OBVIOUS
  <2>3. g = [c EXCEPT !.tls = t]
    BY <1>6, <2>1, <2>2 DEF Flow
  <2>4. QED BY <2>3
<1>8. /\ g \in Flow /\ SameEvidence(c, g) /\ g.domain = c.domain /\ g.of = c.of /\ g.closed = c.closed
      /\ g.last = c.last /\ g.conflict = c.conflict /\ g.socket = c.socket
  BY <1>6, <1>7 DEF Flow, SameEvidence
<1>9. Own(g)
  BY <1>6, <1>8 DEF Own, SameEvidence
<1>10. QED BY <1>3, <1>6, <1>8, <1>9, ShownAlike DEF SameEvidence

(***************************************************************************)
(* The connections of a five-tuple and what is on its way of them: the       *)
(* inductive invariant, as for participants (CollectorProofs).              *)
(***************************************************************************)
Connections == [step : {"open", "hello", "reply", "ended"}, at : Nat]
ended(g) == N_conns[g].step = "ended"

NamesType ==
  /\ N_conns \in Seq(Connections) /\ N_wire \in Seq(Packets)
  /\ tls \in Seq(Items) /\ sockets \in Seq(Items)
  /\ flow \in Flow \cup {N!None} /\ pendingTLS \in Pending /\ pendingSocket \in Pending
  /\ N_clock \in Nat

(* Connections follow one another, far enough apart.                         *)
Sequel ==
  /\ \A g \in 1..Len(N_conns) :
       N_conns[g].at <= N_clock /\ (g < Len(N_conns) => ended(g))
  /\ \A g, h \in 1..Len(N_conns) : h < g => N_conns[h].at + N_Reuse <= N_conns[g].at

(* What was seen at a time of connection g: after those before it, and no     *)
(* later than its end.                                                       *)
Seen(g, at) ==
  /\ g \in 1..Len(N_conns) /\ at <= N_clock
  /\ ended(g) => at <= N_conns[g].at
  /\ \A h \in 1..Len(N_conns) : h < g => N_conns[h].at + N_Reuse <= at
Fresh(queue) ==
  \A i \in 1..Len(queue) : Seen(queue[i].of, queue[i].at) /\ N_clock <= queue[i].at + N_Lag

(* The wire has the packets of one connection after those of another, from    *)
(* the SYN to the end; the flow is of none that is still to come.            *)
InOrder ==
  /\ \A i, j \in 1..Len(N_wire) : i < j =>
       /\ N_wire[i].of <= N_wire[j].of
       /\ N_wire[j].kind = "syn" => N_wire[i].of < N_wire[j].of
  /\ \A i \in 1..Len(N_wire) :
       ended(N_wire[i].of) /\ N_wire[i].kind # "end" =>
         \E j \in 1..Len(N_wire) : i < j /\ N_wire[j].kind = "end" /\ N_wire[j].of = N_wire[i].of
  /\ flow # N!None => \A i \in 1..Len(N_wire) :
       flow.of <= N_wire[i].of /\ (N_wire[i].kind = "syn" => flow.of < N_wire[i].of)

(* The SYN of connection g is before place j of the wire, or was taken and    *)
(* the flow, if there is one, is of g.                                       *)
Begun(g, j) ==
  \/ \E k \in 1..Len(N_wire) : k < j /\ N_wire[k].kind = "syn" /\ N_wire[k].of = g
  \/ /\ \A i \in 1..Len(N_wire) : i < j => N_wire[i].of = g
     /\ flow = N!None \/ flow.of = g
AllBegun ==
  /\ \A j \in 1..Len(N_wire) : N_wire[j].kind # "syn" => Begun(N_wire[j].of, j)
  /\ Len(N_conns) > 0 => Begun(Len(N_conns), Len(N_wire) + 1)

(* The flow: closed once its connection has ended and all of it was taken.   *)
FlowInTime ==
  flow # N!None =>
    /\ flow.of \in 1..Len(N_conns) /\ flow.last <= N_clock
    /\ ended(flow.of) =>
         /\ flow.last <= N_conns[flow.of].at + N_Lag
         /\ \/ flow.closed
            \/ \E i \in 1..Len(N_wire) : N_wire[i].kind = "end" /\ N_wire[i].of = flow.of

(* What waits for a flow was seen not long before it began to wait.          *)
InTime(q) ==
  q.of # 0 => /\ q.seen <= N_clock
              /\ \E at \in Nat : Seen(q.of, at) /\ at <= q.seen /\ q.seen <= at + N_Lag
Waiting ==
  /\ flow # N!None => pendingTLS.of = 0 /\ pendingSocket.of = 0
  /\ InTime(pendingTLS) /\ InTime(pendingSocket)

(* The socket shows one connection after another.                            *)
SocketOrder ==
  /\ \A i, j \in 1..Len(sockets) : i < j => sockets[i].of <= sockets[j].of
  /\ \A i \in 1..Len(sockets) :
       pendingSocket.of <= sockets[i].of /\ (flow # N!None => flow.socket <= sockets[i].of)
  /\ pendingSocket.of <= Len(N_conns) /\ (flow # N!None => flow.socket <= Len(N_conns))

Evidence == flow # N!None => Own(flow) /\ Strongest(flow)

(* What happens, and what is shown of it.                                    *)
Happened == Sequel /\ Fresh(N_wire) /\ Fresh(tls) /\ Fresh(sockets)
AsTaken == InOrder /\ AllBegun /\ FlowInTime
NamesInv == NamesType /\ Happened /\ AsTaken /\ Waiting /\ SocketOrder /\ Evidence

LEMMA NamesInit == N!Init => NamesInv
<1> SUFFICES ASSUME N!Init PROVE NamesInv
  OBVIOUS
<1>1. /\ N_conns = <<>> /\ N_wire = <<>> /\ tls = <<>> /\ sockets = <<>> /\ flow = N!None
      /\ pendingTLS = [of |-> 0, from |-> "client", ech |-> FALSE, seen |-> 0]
      /\ pendingSocket = [of |-> 0, from |-> "client", ech |-> FALSE, seen |-> 0] /\ N_clock = 0
  BY DEF N!Init, N!NoPending
<1>2. Len(N_conns) = 0 /\ Len(N_wire) = 0 /\ Len(tls) = 0 /\ Len(sockets) = 0
  BY <1>1
<1>3. NamesType
  BY <1>1 DEF NamesType, Pending
<1>4. Happened
  BY <1>1, <1>2 DEF Happened, Sequel, Fresh
<1>5. AsTaken
  BY <1>1, <1>2 DEF AsTaken, InOrder, AllBegun, FlowInTime
<1>6. Waiting /\ SocketOrder /\ Evidence
  BY <1>1, <1>2 DEF Waiting, InTime, SocketOrder, Evidence
<1>7. QED BY <1>3, <1>4, <1>5, <1>6 DEF NamesInv

LEMMA Windows ==
  /\ N_LateWindow \in Nat /\ PendingTLS \in Nat /\ PendingSocket \in Nat /\ N_Reuse \in Nat /\ N_Lag \in Nat
  /\ N_LateWindow + N_Lag <= N_Reuse /\ N_Lag < N_Reuse
  /\ PendingTLS + N_Lag < N_Reuse /\ PendingSocket + N_Lag < N_Reuse
  BY CollectorAssumption

(* What was seen once was seen still when time passes and connections come.  *)
LEMMA SeenStays ==
  ASSUME NEW g, NEW at \in Nat, Seen(g, at), NamesType, NamesType', N_clock <= N_clock',
         Len(N_conns) <= Len(N_conns'),
         \A h \in 1..Len(N_conns) : h < Len(N_conns) => N_conns'[h] = N_conns[h],
         N_conns'[g].step = "ended" => at <= N_conns'[g].at
  PROVE  Seen(g, at)'
<1>1. Len(N_conns) \in Nat /\ Len(N_conns') \in Nat /\ N_clock \in Nat /\ N_clock' \in Nat
  BY Elements DEF NamesType
<1>2. g \in 1..Len(N_conns) /\ at <= N_clock
      /\ \A h \in 1..Len(N_conns) : h < g => N_conns[h].at + N_Reuse <= at
  BY DEF Seen
<1>3. \A h \in 1..Len(N_conns') : h < g => h \in 1..Len(N_conns) /\ h < Len(N_conns)
  BY <1>1, <1>2
<1>4. \A h \in 1..Len(N_conns') : h < g => N_conns'[h].at + N_Reuse <= at
  BY <1>2, <1>3
<1>5. QED BY <1>1, <1>2, <1>4 DEF Seen, ended

(* What is on its way or waits stays in time while the last connection goes   *)
(* on or another comes.                                                      *)
GoesOn ==
  /\ NamesType' /\ N_clock' = N_clock /\ Len(N_conns) <= Len(N_conns')
  /\ \A h \in 1..Len(N_conns) : h < Len(N_conns) => N_conns'[h] = N_conns[h]
  /\ \A h \in 1..Len(N_conns) :
       /\ N_conns[h].at <= N_conns'[h].at
       /\ N_conns'[h].step = "ended" =>
            N_conns'[h].at = N_clock \/ (N_conns'[h].at = N_conns[h].at /\ N_conns[h].step = "ended")

LEMMA SeenGoesOn ==
  ASSUME NamesType, GoesOn, NEW g, NEW at \in Nat, Seen(g, at) PROVE Seen(g, at)'
<1>1. g \in 1..Len(N_conns) /\ at <= N_clock /\ (N_conns[g].step = "ended" => at <= N_conns[g].at)
  BY DEF Seen, ended
<1>2. N_conns'[g].step = "ended" => at <= N_conns'[g].at
  BY <1>1 DEF GoesOn
<1>3. N_clock <= N_clock'
  BY DEF GoesOn, NamesType
<1>4. QED BY <1>2, <1>3, SeenStays DEF GoesOn

LEMMA FreshGoesOn ==
  ASSUME NamesType, GoesOn, NEW q \in Seq(Packets) \cup Seq(Items), Fresh(q)
  PROVE  \A i \in 1..Len(q) : Seen(q[i].of, q[i].at)' /\ N_clock' <= q[i].at + N_Lag
<1>1. ASSUME NEW i \in 1..Len(q) PROVE Seen(q[i].of, q[i].at)' /\ N_clock' <= q[i].at + N_Lag
  <2>1. PICK at \in Nat : at = q[i].at
    <3>1. q[i] \in Packets \cup Items
      BY Elements
    <3>2. QED BY <3>1 DEF Packets, Items
  <2>2. PICK g : g = q[i].of
    OBVIOUS
  <2>3. Seen(g, at) /\ N_clock <= at + N_Lag
    BY <2>1, <2>2 DEF Fresh
  <2>4. Seen(g, at)'
    BY <2>3, SeenGoesOn
  <2>5. QED BY <2>1, <2>2, <2>3, <2>4 DEF GoesOn
<1>2. QED BY <1>1

LEMMA WaitingGoesOn ==
  ASSUME NamesType, GoesOn, Waiting, UNCHANGED <<flow, pendingTLS, pendingSocket>>
  PROVE  Waiting'
<1>1. ASSUME NEW q, InTime(q) PROVE InTime(q)'
  BY <1>1, SeenGoesOn DEF InTime, GoesOn
<1>2. PICK p : p = pendingTLS
  OBVIOUS
<1>3. PICK q : q = pendingSocket
  OBVIOUS
<1>4. InTime(p)' /\ InTime(q)'
  BY <1>1, <1>2, <1>3 DEF Waiting
<1>5. p = pendingTLS' /\ q = pendingSocket'
  BY <1>2, <1>3
<1>6. InTime(pendingTLS)' /\ InTime(pendingSocket)'
  BY <1>4, <1>5 DEF InTime
<1>7. QED BY <1>6 DEF Waiting

LEMMA ConnectStep == NamesInv /\ N!Connect => NamesInv'
<1> SUFFICES ASSUME NamesInv, N!Connect PROVE NamesInv'
  OBVIOUS
<1> USE DEF NamesInv, Happened, AsTaken
<1>a. PICK n \in Nat : n = Len(N_conns)
  BY Elements DEF NamesType
<1>b. PICK m \in Nat : m = Len(N_wire)
  BY Elements DEF NamesType
<1>c. PICK c : c = [step |-> "open", at |-> N_clock]
  OBVIOUS
<1>d. PICK x : x = [of |-> n + 1, kind |-> "syn", ech |-> FALSE, at |-> N_clock]
  OBVIOUS
<1>1. /\ N_conns' = Append(N_conns, c) /\ N_wire' = Append(N_wire, x)
      /\ UNCHANGED <<tls, sockets, flow, pendingTLS, pendingSocket, N_clock>>
      /\ N_conns # <<>> => N_conns[n].step = "ended" /\ N_clock - N_conns[n].at >= N_Reuse
  BY <1>a, <1>c, <1>d DEF N!Connect, N!last, N!loop
<1>2. n \in Nat /\ m \in Nat /\ n = Len(N_conns) /\ m = Len(N_wire) /\ N_clock \in Nat /\ c \in Connections /\ x \in Packets
  BY <1>a, <1>b, <1>c, <1>d DEF NamesType, Connections, Packets
<1>3. /\ N_conns' \in Seq(Connections) /\ Len(N_conns') = n + 1
      /\ \A g \in 1..n : N_conns'[g] = N_conns[g]
      /\ N_conns'[n + 1] = c
  BY <1>1, <1>2, Appended DEF NamesType
<1>4. /\ N_wire' \in Seq(Packets) /\ Len(N_wire') = m + 1
      /\ \A i \in 1..m : N_wire'[i] = N_wire[i]
      /\ N_wire'[m + 1] = x
  BY <1>1, <1>2, Appended DEF NamesType
<1>5. c.step # "ended" /\ c.at = N_clock /\ x.kind = "syn" /\ x.of = n + 1 /\ x.at = N_clock
  BY <1>c, <1>d
<1>6. NamesType'
  BY <1>1, <1>3, <1>4 DEF NamesType
<1>7. \A g \in 1..n : N_conns[g].at \in Nat
  <2>1. \A g \in 1..n : N_conns[g] \in Connections
    BY <1>2, Elements DEF NamesType
  <2>2. QED BY <2>1 DEF Connections
<1>8. n > 0 => ended(n) /\ N_conns[n].at + N_Reuse <= N_clock
  <2>1. n > 0 => N_conns # <<>>
    BY <1>2
  <2>2. QED BY <1>1, <1>2, <1>7, <2>1, Windows DEF ended
<1>9. \A h \in 1..n : N_conns[h].at + N_Reuse <= N_clock
  <2>1. ASSUME NEW h \in 1..n PROVE N_conns[h].at + N_Reuse <= N_clock
    <3>1. CASE h = n
      BY <1>2, <1>8, <3>1
    <3>2. CASE h < n
      <4>1. n \in 1..n /\ N_conns[h].at + N_Reuse <= N_conns[n].at /\ n > 0
        BY <1>2, <3>2 DEF Sequel
      <4>2. QED BY <1>2, <1>7, <1>8, <4>1, Windows
    <3>3. QED BY <1>2, <3>1, <3>2
  <2>2. QED BY <2>1
<1>10. Sequel'
  <2>1. \A g \in 1..(n + 1) : g = n + 1 \/ g \in 1..n
    BY <1>2
  <2>2. \A g \in 1..Len(N_conns') :
          N_conns'[g].at <= N_clock' /\ (g < Len(N_conns') => N_conns'[g].step = "ended")
    BY <1>1, <1>2, <1>3, <1>5, <1>8, <2>1 DEF Sequel, ended
  <2>3. \A g, h \in 1..Len(N_conns') : h < g => N_conns'[h].at + N_Reuse <= N_conns'[g].at
    BY <1>2, <1>3, <1>5, <1>8, <1>9, <2>1 DEF Sequel
  <2>4. QED BY <2>2, <2>3 DEF Sequel, ended
<1>11. GoesOn
  <2>1. \A h \in 1..n : N_conns'[h] = N_conns[h] /\ N_conns[h].at <= N_conns'[h].at
    BY <1>3, <1>7
  <2>2. Len(N_conns) <= Len(N_conns')
    BY <1>2, <1>3
  <2>3. QED BY <1>1, <1>2, <1>6, <2>1, <2>2 DEF GoesOn
<1>12. Seen(n + 1, N_clock)'
  BY <1>1, <1>2, <1>3, <1>5, <1>9 DEF Seen, ended
<1>13. Fresh(N_wire)'
  <2>1. PICK q \in Seq(Packets) : q = N_wire
    BY DEF NamesType
  <2>2. \A i \in 1..m : Seen(q[i].of, q[i].at)' /\ N_clock' <= q[i].at + N_Lag
    BY <1>2, <1>11, <2>1, FreshGoesOn
  <2>3. PICK r : r = N_wire'
    OBVIOUS
  <2>4. \A i \in 1..(m + 1) : Seen(r[i].of, r[i].at)' /\ N_clock' <= r[i].at + N_Lag
    BY <1>1, <1>2, <1>4, <1>5, <1>12, <2>1, <2>2, <2>3, Windows
  <2>5. QED BY <1>4, <2>3, <2>4 DEF Fresh
<1>14. Fresh(tls)' /\ Fresh(sockets)'
  <2>1. PICK q \in Seq(Items) : q = tls
    BY DEF NamesType
  <2>2. PICK r \in Seq(Items) : r = sockets
    BY DEF NamesType
  <2>3. \A i \in 1..Len(q) : Seen(q[i].of, q[i].at)' /\ N_clock' <= q[i].at + N_Lag
    BY <1>11, <2>1, FreshGoesOn
  <2>4. \A i \in 1..Len(r) : Seen(r[i].of, r[i].at)' /\ N_clock' <= r[i].at + N_Lag
    BY <1>11, <2>2, FreshGoesOn
  <2>5. QED BY <1>1, <2>1, <2>2, <2>3, <2>4 DEF Fresh
<1>15. \A i \in 1..m : N_wire[i].of \in 1..n
  BY <1>2 DEF Fresh, Seen
<1>16. flow # N!None => flow.of \in 1..n
  BY <1>2 DEF FlowInTime
<1>17. InOrder'
  <2>1. \A i \in 1..(m + 1) : i = m + 1 \/ i \in 1..m
    BY <1>2
  <2>2. \A i, j \in 1..Len(N_wire') : i < j =>
          /\ N_wire'[i].of <= N_wire'[j].of
          /\ N_wire'[j].kind = "syn" => N_wire'[i].of < N_wire'[j].of
    <3>1. ASSUME NEW i \in 1..m, NEW j \in 1..m, i < j
          PROVE  /\ N_wire'[i].of <= N_wire'[j].of
                 /\ N_wire'[j].kind = "syn" => N_wire'[i].of < N_wire'[j].of
      BY <1>2, <1>4, <3>1 DEF InOrder
    <3>2. ASSUME NEW i \in 1..m PROVE N_wire'[i].of < N_wire'[m + 1].of
      <4>1. N_wire'[i].of \in 1..n
        BY <1>4, <1>15
      <4>2. QED BY <1>2, <1>4, <1>5, <4>1
    <3>3. \A i, j \in 1..(m + 1) : i < j => i \in 1..m
      BY <1>2
    <3>4. \A i \in 1..m : N_wire'[i].of <= N_wire'[m + 1].of
      BY <1>2, <1>4, <1>5, <1>15, <3>2
    <3>5. QED BY <1>4, <2>1, <3>1, <3>2, <3>3, <3>4
  <2>3. \A i \in 1..Len(N_wire') :
          N_conns'[N_wire'[i].of].step = "ended" /\ N_wire'[i].kind # "end" =>
            \E j \in 1..Len(N_wire') : i < j /\ N_wire'[j].kind = "end" /\ N_wire'[j].of = N_wire'[i].of
    <3>1. ASSUME NEW i \in 1..m, N_conns'[N_wire'[i].of].step = "ended", N_wire'[i].kind # "end"
          PROVE  \E j \in 1..(m + 1) : i < j /\ N_wire'[j].kind = "end" /\ N_wire'[j].of = N_wire'[i].of
      <4>1. N_wire'[i] = N_wire[i] /\ ended(N_wire[i].of)
        BY <1>3, <1>4, <1>15, <3>1 DEF ended
      <4>2. PICK j \in 1..m : i < j /\ N_wire[j].kind = "end" /\ N_wire[j].of = N_wire[i].of
        BY <1>2, <3>1, <4>1 DEF InOrder
      <4>3. j \in 1..(m + 1) /\ N_wire'[j] = N_wire[j]
        BY <1>2, <1>4
      <4>4. QED BY <4>1, <4>2, <4>3
    <3>2. N_conns'[N_wire'[m + 1].of].step # "ended"
      BY <1>3, <1>4, <1>5
    <3>3. QED BY <1>4, <2>1, <3>1, <3>2
  <2>4. flow # N!None => \A i \in 1..Len(N_wire') :
          flow.of <= N_wire'[i].of /\ (N_wire'[i].kind = "syn" => flow.of < N_wire'[i].of)
    BY <1>2, <1>4, <1>5, <1>16, <2>1 DEF InOrder
  <2>5. QED BY <1>1, <2>2, <2>3, <2>4 DEF InOrder, ended
<1>18. AllBegun'
  <2>1. ASSUME NEW g \in 1..n, NEW j \in 1..(m + 1), Begun(g, j) PROVE Begun(g, j)'
    <3>1. /\ \A k \in 1..m : k \in 1..(m + 1) /\ N_wire'[k] = N_wire[k]
          /\ \A k \in 1..(m + 1) : k < j => k \in 1..m
      BY <1>2, <1>4
    <3>2. CASE \E k \in 1..m : k < j /\ N_wire[k].kind = "syn" /\ N_wire[k].of = g
      BY <1>4, <3>1, <3>2 DEF Begun
    <3>3. CASE /\ \A i \in 1..m : i < j => N_wire[i].of = g
               /\ flow = N!None \/ flow.of = g
      BY <1>1, <1>4, <3>1, <3>3 DEF Begun
    <3>4. QED BY <1>2, <2>1, <3>2, <3>3 DEF Begun
  <2>2. Begun(n + 1, m + 2)'
    BY <1>2, <1>4, <1>5 DEF Begun
  <2>3. \A j \in 1..(m + 1) : j = m + 1 \/ j \in 1..m
    BY <1>2
  <2>4. \A j \in 1..Len(N_wire') : N_wire'[j].kind # "syn" => Begun(N_wire[j].of, j)'
    <3>1. ASSUME NEW j \in 1..m, N_wire'[j].kind # "syn" PROVE Begun(N_wire[j].of, j)'
      <4>1. PICK g \in 1..n : g = N_wire[j].of
        BY <1>15
      <4>2. Begun(g, j)
        BY <1>2, <1>4, <3>1, <4>1 DEF AllBegun
      <4>3. Begun(g, j)'
        BY <1>2, <2>1, <4>2
      <4>4. N_wire'[j].of = g
        BY <1>4, <4>1
      <4>5. QED BY <4>3, <4>4
    <3>2. QED BY <1>4, <1>5, <2>3, <3>1
  <2>5. QED BY <1>2, <1>3, <1>4, <2>2, <2>4 DEF AllBegun
<1>19. FlowInTime'
  <2>1. ASSUME flow # N!None
        PROVE  /\ flow.of \in 1..(n + 1) /\ flow.last <= N_clock
               /\ N_conns'[flow.of].step = "ended" =>
                    /\ flow.last <= N_conns'[flow.of].at + N_Lag
                    /\ \/ flow.closed
                       \/ \E i \in 1..(m + 1) : N_wire'[i].kind = "end" /\ N_wire'[i].of = flow.of
    <3>1. N_conns'[flow.of] = N_conns[flow.of] /\ flow.of \in 1..(n + 1)
      BY <1>2, <1>3, <1>16, <2>1
    <3>2. \A i \in 1..m : i \in 1..(m + 1)
      BY <1>2
    <3>3. QED BY <1>2, <1>4, <2>1, <3>1, <3>2 DEF FlowInTime, ended
  <2>2. QED BY <1>1, <1>3, <1>4, <2>1 DEF FlowInTime, ended
<1>20. Waiting'
  BY <1>1, <1>11, WaitingGoesOn
<1>21. SocketOrder'
  <2>1. flow # N!None => flow.socket \in Nat
    BY DEF NamesType, Flow
  <2>2. pendingSocket.of \in Nat
    BY DEF NamesType, Pending
  <2>3. pendingSocket.of <= n + 1 /\ (flow # N!None => flow.socket <= n + 1)
    BY <1>2, <2>1, <2>2 DEF SocketOrder
  <2>4. QED BY <1>1, <1>3, <2>3 DEF SocketOrder
<1>22. Evidence'
  BY <1>1 DEF Evidence, Own, Strongest, N!says, N!shown, N!clientBytes
<1>23. QED BY <1>6, <1>10, <1>13, <1>14, <1>17, <1>18, <1>19, <1>20, <1>21, <1>22

LEMMA FreshAppended ==
  ASSUME NamesType, GoesOn, NEW S \in {Packets, Items}, NEW q \in Seq(S), Fresh(q), NEW y \in S,
         NEW g, y.of = g, y.at = N_clock, Seen(g, N_clock)', NEW r \in {q, Append(q, y)}
  PROVE  r \in Seq(S) /\ \A i \in 1..Len(r) : Seen(r[i].of, r[i].at)' /\ N_clock' <= r[i].at + N_Lag
<1>1. \A i \in 1..Len(q) : Seen(q[i].of, q[i].at)' /\ N_clock' <= q[i].at + N_Lag
  BY FreshGoesOn
<1>2. CASE r = q
  BY <1>1, <1>2
<1>3. CASE r = Append(q, y)
  <2>1. /\ r \in Seq(S) /\ Len(r) = Len(q) + 1 /\ Len(q) \in Nat
        /\ \A i \in 1..Len(q) : r[i] = q[i]
        /\ r[Len(q) + 1] = y
    BY <1>3, Appended
  <2>2. \A i \in 1..Len(r) : i = Len(q) + 1 \/ i \in 1..Len(q)
    BY <2>1
  <2>3. Seen(y.of, y.at)' /\ N_clock' <= y.at + N_Lag
    <3>1. N_clock' = N_clock /\ N_clock \in Nat
      BY DEF GoesOn, NamesType
    <3>2. N_clock <= N_clock + N_Lag
      BY <3>1, Windows
    <3>3. Seen(y.of, N_clock)'
      OBVIOUS
    <3>4. QED BY <3>1, <3>2, <3>3
  <2>4. QED BY <1>1, <2>1, <2>2, <2>3
<1>4. QED BY <1>2, <1>3

(* The last connection goes on: it sends, or ends.                           *)
LEMMA SendStep ==
  ASSUME NamesInv, NEW n \in Nat \ {0}, n = Len(N_conns), ~ended(n),
         NEW c \in Connections, N_conns' = [N_conns EXCEPT ![n] = c],
         c.step # "ended" => c.at = N_conns[n].at, c.step = "ended" => c.at = N_clock,
         NEW x \in Packets, x.of = n, x.at = N_clock, x.kind # "syn", c.step = "ended" => x.kind = "end",
         N_wire' = Append(N_wire, x) \/ (N_wire' = N_wire /\ c.step # "ended"),
         NEW i \in Items, i.of = n, i.at = N_clock, tls' \in {tls, Append(tls, i)},
         NEW s \in Items, s.of = n, s.at = N_clock, sockets' \in {sockets, Append(sockets, s)},
         UNCHANGED <<flow, pendingTLS, pendingSocket, N_clock>>
  PROVE  NamesInv'
<1> USE DEF NamesInv, Happened, AsTaken
<1>a. PICK m \in Nat : m = Len(N_wire)
  BY Elements DEF NamesType
<1>1. N_clock \in Nat /\ n \in 1..n /\ n > 0 /\ m \in Nat /\ m = Len(N_wire)
  BY <1>a DEF NamesType
<1>2. \A g \in 1..n : N_conns[g] \in Connections
  BY Elements DEF NamesType
<1>3. (\A g \in 1..n : N_conns[g].at \in Nat) /\ c.at \in Nat
  BY <1>2 DEF Connections
<1>4. /\ N_conns' \in Seq(Connections) /\ Len(N_conns') = n
      /\ \A g \in 1..n : N_conns'[g] = IF g = n THEN c ELSE N_conns[g]
  BY <1>1, Changed DEF NamesType
<1>5. N_conns[n].at <= c.at /\ c.at <= N_clock
  <2>1. N_conns[n].at <= N_clock
    BY <1>1 DEF Sequel
  <2>2. QED BY <1>1, <1>3, <2>1
<1>6. \A h \in 1..n : h < n => N_conns'[h] = N_conns[h] /\ N_conns[h].at + N_Reuse <= N_conns[n].at
  BY <1>1, <1>4 DEF Sequel
<1>7. \A h \in 1..n : h < n => N_conns[h].at + N_Reuse <= c.at /\ N_conns[h].at + N_Reuse <= N_clock
  BY <1>1, <1>3, <1>5, <1>6, Windows
<1>8. N_wire' \in Seq(Packets) /\ tls' \in Seq(Items) /\ sockets' \in Seq(Items)
  <2>1. Append(N_wire, x) \in Seq(Packets) /\ N_wire \in Seq(Packets)
    BY Appended DEF NamesType
  <2>2. Append(tls, i) \in Seq(Items) /\ tls \in Seq(Items)
    BY Appended DEF NamesType
  <2>3. Append(sockets, s) \in Seq(Items) /\ sockets \in Seq(Items)
    BY Appended DEF NamesType
  <2>4. QED BY <2>1, <2>2, <2>3
<1>9. NamesType'
  BY <1>4, <1>8 DEF NamesType
<1>10. /\ \A j \in 1..m : N_wire'[j] = N_wire[j]
       /\ \/ Len(N_wire') = m + 1 /\ N_wire'[m + 1] = x
          \/ Len(N_wire') = m /\ c.step # "ended"
  <2>1. CASE N_wire' = Append(N_wire, x)
    BY <1>1, <2>1, Appended DEF NamesType
  <2>2. CASE N_wire' = N_wire /\ c.step # "ended"
    BY <1>1, <2>2
  <2>3. QED BY <2>1, <2>2
<1>11. PICK k \in Nat : k = Len(N_wire')
  BY <1>1, <1>10
<1>12. /\ k \in Nat /\ k = Len(N_wire') /\ (k = m \/ k = m + 1) /\ m <= k
       /\ \A j \in 1..m : j \in 1..k /\ N_wire'[j] = N_wire[j]
       /\ \A j \in 1..k : j \in 1..m \/ (j = m + 1 /\ k = m + 1)
       /\ k = m + 1 => N_wire'[m + 1] = x
       /\ c.step = "ended" => k = m + 1
  <2>1. k \in Nat /\ k = Len(N_wire') /\ (k = m \/ k = m + 1) /\ m <= k
    BY <1>1, <1>10, <1>11
  <2>2. \A j \in 1..k : j \in 1..m \/ (j = m + 1 /\ k = m + 1)
    BY <1>1, <2>1
  <2>3. k = m + 1 => N_wire'[m + 1] = x
    BY <1>1, <1>10, <2>1
  <2>4. c.step = "ended" => k = m + 1
    BY <1>1, <1>10, <2>1
  <2>5. QED BY <1>1, <1>10, <2>1, <2>2, <2>3, <2>4
<1>13. Sequel'
  <2>1. \A g \in 1..n : N_conns'[g].at <= N_clock /\ (g < n => N_conns'[g].step = "ended")
    BY <1>1, <1>4, <1>5 DEF Sequel, ended
  <2>2. ASSUME NEW g \in 1..n, NEW h \in 1..n, h < g PROVE N_conns'[h].at + N_Reuse <= N_conns'[g].at
    <3>1. CASE g = n
      BY <1>1, <1>4, <1>6, <1>7, <2>2, <3>1
    <3>2. CASE g < n
      <4>1. h < n
        BY <1>1, <2>2, <3>2
      <4>2. N_conns'[h] = N_conns[h] /\ N_conns'[g] = N_conns[g]
        BY <1>6, <3>2, <4>1
      <4>3. QED BY <2>2, <4>2 DEF Sequel
    <3>3. QED BY <1>1, <3>1, <3>2
  <2>3. QED BY <1>4, <2>1, <2>2 DEF Sequel, ended
<1>14. GoesOn
  <2>1. ASSUME NEW h \in 1..n
        PROVE  /\ N_conns[h].at <= N_conns'[h].at
               /\ N_conns'[h].step = "ended" =>
                    N_conns'[h].at = N_clock \/ (N_conns'[h].at = N_conns[h].at /\ N_conns[h].step = "ended")
    <3>1. CASE h = n
      BY <1>1, <1>4, <1>5, <3>1
    <3>2. CASE h # n
      BY <1>3, <1>4, <3>2
    <3>3. QED BY <3>1, <3>2
  <2>2. QED BY <1>1, <1>4, <1>6, <1>9, <2>1 DEF GoesOn
<1>15. Seen(n, N_clock)'
  <2>1. c.step = "ended" => N_clock <= c.at
    BY <1>1
  <2>2. \A h \in 1..n : h < n => N_conns'[h].at + N_Reuse <= N_clock
    BY <1>6, <1>7
  <2>3. QED BY <1>1, <1>4, <2>1, <2>2 DEF Seen, ended
<1>16. Fresh(N_wire)' /\ Fresh(tls)' /\ Fresh(sockets)'
  <2>1. PICK q \in Seq(Packets) : q = N_wire
    BY DEF NamesType
  <2>2. PICK r : r = N_wire'
    OBVIOUS
  <2>3. \A j \in 1..Len(r) : Seen(r[j].of, r[j].at)' /\ N_clock' <= r[j].at + N_Lag
    BY <1>14, <1>15, <2>1, <2>2, FreshAppended
  <2>4. PICK t \in Seq(Items) : t = tls
    BY DEF NamesType
  <2>5. PICK u : u = tls'
    OBVIOUS
  <2>6. \A j \in 1..Len(u) : Seen(u[j].of, u[j].at)' /\ N_clock' <= u[j].at + N_Lag
    BY <1>14, <1>15, <2>4, <2>5, FreshAppended
  <2>7. PICK v \in Seq(Items) : v = sockets
    BY DEF NamesType
  <2>8. PICK w : w = sockets'
    OBVIOUS
  <2>9. \A j \in 1..Len(w) : Seen(w[j].of, w[j].at)' /\ N_clock' <= w[j].at + N_Lag
    BY <1>14, <1>15, <2>7, <2>8, FreshAppended
  <2>10. QED BY <2>2, <2>3, <2>5, <2>6, <2>8, <2>9 DEF Fresh
<1>17. \A j \in 1..m : N_wire[j].of \in 1..n
  BY <1>1 DEF Fresh, Seen
<1>18. flow # N!None => flow.of \in 1..n
  BY DEF FlowInTime
<1>19. InOrder'
  <2>1. \A a, b \in 1..k : a < b =>
          /\ N_wire'[a].of <= N_wire'[b].of
          /\ N_wire'[b].kind = "syn" => N_wire'[a].of < N_wire'[b].of
    <3>1. ASSUME NEW a \in 1..m, NEW b \in 1..m, a < b
          PROVE  /\ N_wire'[a].of <= N_wire'[b].of
                 /\ N_wire'[b].kind = "syn" => N_wire'[a].of < N_wire'[b].of
      BY <1>1, <1>12, <3>1 DEF InOrder
    <3>2. \A a, b \in 1..k : a < b => a \in 1..m
      BY <1>1, <1>12
    <3>3. \A a \in 1..m : N_wire'[a].of <= n
      BY <1>1, <1>12, <1>17
    <3>4. QED BY <1>12, <3>1, <3>2, <3>3
  <2>2. ASSUME NEW a \in 1..k, N_conns'[N_wire'[a].of].step = "ended", N_wire'[a].kind # "end"
        PROVE  \E b \in 1..k : a < b /\ N_wire'[b].kind = "end" /\ N_wire'[b].of = N_wire'[a].of
    <3>1. CASE a \in 1..m /\ N_wire[a].of = n
      <4>1. c.step = "ended" /\ N_wire'[a].of = n
        BY <1>1, <1>4, <1>12, <2>2, <3>1
      <4>2. a < m + 1 /\ m + 1 \in 1..k /\ N_wire'[m + 1].kind = "end" /\ N_wire'[m + 1].of = n
        BY <1>1, <1>12, <3>1, <4>1
      <4>3. QED BY <4>1, <4>2
    <3>2. CASE a \in 1..m /\ N_wire[a].of # n
      <4>1. N_wire'[a] = N_wire[a] /\ ended(N_wire[a].of)
        BY <1>4, <1>12, <1>17, <2>2, <3>2 DEF ended
      <4>2. PICK b \in 1..m : a < b /\ N_wire[b].kind = "end" /\ N_wire[b].of = N_wire[a].of
        BY <1>1, <2>2, <3>2, <4>1 DEF InOrder
      <4>3. b \in 1..k /\ N_wire'[b] = N_wire[b]
        BY <1>12
      <4>4. QED BY <4>1, <4>2, <4>3
    <3>3. CASE a = m + 1 /\ k = m + 1
      <4>1. N_wire'[a] = x
        BY <1>12, <3>3
      <4>2. c.step = "ended"
        BY <1>1, <1>4, <2>2, <4>1
      <4>3. QED BY <2>2, <4>1, <4>2
    <3>4. QED BY <1>12, <3>1, <3>2, <3>3
  <2>3. flow # N!None => \A a \in 1..k :
          flow.of <= N_wire'[a].of /\ (N_wire'[a].kind = "syn" => flow.of < N_wire'[a].of)
    <3>1. flow # N!None => flow.of <= x.of
      BY <1>1, <1>18
    <3>2. flow # N!None => \A a \in 1..m :
            flow.of <= N_wire[a].of /\ (N_wire[a].kind = "syn" => flow.of < N_wire[a].of)
      BY <1>1 DEF InOrder
    <3>3. QED BY <1>12, <3>1, <3>2
  <2>4. QED BY <1>12, <2>1, <2>2, <2>3 DEF InOrder, ended
<1>20. AllBegun'
  <2>1. ASSUME NEW g \in 1..n, NEW j \in 1..(m + 1), Begun(g, j) PROVE Begun(g, j)'
    <3>1. CASE \E a \in 1..m : a < j /\ N_wire[a].kind = "syn" /\ N_wire[a].of = g
      BY <1>12, <3>1 DEF Begun
    <3>2. CASE /\ \A a \in 1..m : a < j => N_wire[a].of = g
               /\ flow = N!None \/ flow.of = g
      <4>1. \A a \in 1..k : a < j => a \in 1..m
        BY <1>1, <1>12
      <4>2. QED BY <1>12, <3>2, <4>1 DEF Begun
    <3>3. QED BY <1>1, <2>1, <3>1, <3>2 DEF Begun
  <2>2. Begun(n, m + 1)
    BY <1>1 DEF AllBegun
  <2>3. Begun(n, m + 1)'
    BY <1>1, <2>1, <2>2
  <2>4. Begun(n, k + 1)'
    <3>1. CASE \E a \in 1..k : a < m + 1 /\ N_wire'[a].kind = "syn" /\ N_wire'[a].of = n
      BY <1>1, <1>12, <3>1 DEF Begun
    <3>2. CASE /\ \A a \in 1..k : a < m + 1 => N_wire'[a].of = n
               /\ flow = N!None \/ flow.of = n
      <4>1. \A a \in 1..k : a < m + 1 \/ (a = m + 1 /\ k = m + 1)
        BY <1>1, <1>12
      <4>2. \A a \in 1..k : N_wire'[a].of = n
        BY <1>12, <3>2, <4>1
      <4>3. QED BY <1>12, <3>2, <4>2 DEF Begun
    <3>3. QED BY <1>12, <2>3, <3>1, <3>2 DEF Begun
  <2>5. ASSUME NEW j \in 1..k, N_wire'[j].kind # "syn" PROVE Begun(N_wire[j].of, j)'
    <3>1. CASE j \in 1..m
      <4>1. PICK g \in 1..n : g = N_wire[j].of
        BY <1>17, <3>1
      <4>2. N_wire'[j] = N_wire[j] /\ j \in 1..(m + 1)
        BY <1>1, <1>12, <3>1
      <4>3. Begun(g, j)
        BY <1>1, <2>5, <3>1, <4>1, <4>2 DEF AllBegun
      <4>4. Begun(g, j)'
        BY <2>1, <4>2, <4>3
      <4>5. QED BY <4>1, <4>2, <4>4
    <3>2. CASE j = m + 1 /\ k = m + 1
      <4>1. N_wire'[j].of = n
        BY <1>12, <3>2
      <4>2. QED BY <2>3, <3>2, <4>1
    <3>3. QED BY <1>12, <3>1, <3>2
  <2>6. QED BY <1>4, <1>12, <2>4, <2>5 DEF AllBegun
<1>21. FlowInTime'
  <2>1. ASSUME flow # N!None
        PROVE  /\ flow.of \in 1..n /\ flow.last <= N_clock
               /\ N_conns'[flow.of].step = "ended" =>
                    /\ flow.last <= N_conns'[flow.of].at + N_Lag
                    /\ \/ flow.closed
                       \/ \E a \in 1..k : N_wire'[a].kind = "end" /\ N_wire'[a].of = flow.of
    <3>1. flow \in Flow
      BY <2>1 DEF NamesType
    <3>2. /\ flow.of \in 1..n /\ flow.last <= N_clock /\ flow.last \in Nat
          /\ N_conns[flow.of].step = "ended" =>
               /\ flow.last <= N_conns[flow.of].at + N_Lag
               /\ \/ flow.closed
                  \/ \E a \in 1..m : N_wire[a].kind = "end" /\ N_wire[a].of = flow.of
      BY <1>1, <2>1, <3>1 DEF FlowInTime, Flow, ended
    <3>3. CASE flow.of = n
      <4>1. N_conns'[n] = c
        BY <1>1, <1>4
      <4>2. c.step = "ended" => flow.last <= c.at + N_Lag
        BY <1>1, <3>2, Windows
      <4>3. c.step = "ended" => m + 1 \in 1..k /\ N_wire'[m + 1].kind = "end" /\ N_wire'[m + 1].of = flow.of
        <5>1. c.step = "ended" => k = m + 1 /\ m + 1 \in 1..k /\ N_wire'[m + 1] = x
          BY <1>1, <1>12
        <5>2. QED BY <3>3, <5>1
      <4>4. QED BY <3>2, <3>3, <4>1, <4>2, <4>3
    <3>4. CASE flow.of # n
      <4>1. N_conns'[flow.of] = N_conns[flow.of]
        BY <1>4, <3>2, <3>4
      <4>2. QED BY <1>12, <3>2, <4>1
    <3>5. QED BY <3>3, <3>4
  <2>2. QED BY <1>4, <1>12, <2>1 DEF FlowInTime, ended
<1>22. Waiting'
  BY <1>14, WaitingGoesOn
<1>23. SocketOrder'
  <2>1. PICK q \in Seq(Items) : q = sockets
    BY DEF NamesType
  <2>2. PICK r : r = sockets'
    OBVIOUS
  <2>3. PICK l \in Nat : l = Len(q)
    BY Elements
  <2>4. \A j \in 1..l : q[j].of \in 1..n
    BY <2>1, <2>3 DEF Fresh, Seen
  <2>5. /\ \A a, b \in 1..l : a < b => q[a].of <= q[b].of
        /\ \A a \in 1..l : pendingSocket.of <= q[a].of /\ (flow # N!None => flow.socket <= q[a].of)
        /\ pendingSocket.of <= n /\ (flow # N!None => flow.socket <= n)
    BY <2>1, <2>3 DEF SocketOrder
  <2>6. /\ \A a, b \in 1..Len(r) : a < b => r[a].of <= r[b].of
        /\ \A a \in 1..Len(r) : pendingSocket.of <= r[a].of /\ (flow # N!None => flow.socket <= r[a].of)
    <3>1. CASE r = q
      BY <2>3, <2>5, <3>1
    <3>2. CASE r = Append(q, s)
      <4>1. Len(r) = l + 1 /\ (\A j \in 1..l : r[j] = q[j]) /\ r[l + 1] = s
        BY <2>3, <3>2, Appended
      <4>2. \A a \in 1..(l + 1) : a = l + 1 \/ a \in 1..l
        BY <2>3
      <4>3. \A a, b \in 1..(l + 1) : a < b => a \in 1..l
        BY <2>3
      <4>4. \A a, b \in 1..Len(r) : a < b => r[a].of <= r[b].of
        <5>1. ASSUME NEW a \in 1..l, NEW b \in 1..l, a < b PROVE r[a].of <= r[b].of
          BY <2>5, <4>1, <5>1
        <5>2. ASSUME NEW a \in 1..l PROVE r[a].of <= r[l + 1].of
          <6>1. q[a].of \in 1..n /\ r[a] = q[a] /\ r[l + 1].of = n
            BY <2>4, <4>1
          <6>2. QED BY <6>1
        <5>3. QED BY <4>1, <4>2, <4>3, <5>1, <5>2
      <4>5. \A a \in 1..Len(r) : pendingSocket.of <= r[a].of /\ (flow # N!None => flow.socket <= r[a].of)
        BY <2>5, <4>1, <4>2
      <4>6. QED BY <4>4, <4>5
    <3>3. QED BY <2>1, <2>2, <3>1, <3>2
  <2>7. QED BY <1>4, <2>2, <2>5, <2>6 DEF SocketOrder
<1>24. Evidence'
  BY DEF Evidence, Own, Strongest, N!says, N!shown, N!clientBytes
<1>25. QED BY <1>9, <1>13, <1>16, <1>19, <1>20, <1>21, <1>22, <1>23, <1>24

LEMMA HelloStep == NamesInv /\ N!Hello => NamesInv'
<1> SUFFICES ASSUME NamesInv, N!Hello PROVE NamesInv'
  OBVIOUS
<1>a. PICK n \in Nat : n = Len(N_conns)
  BY Elements DEF NamesInv, NamesType
<1>b. PICK c : c = [N_conns[n] EXCEPT !.step = "hello"]
  OBVIOUS
<1>1. PICK ech \in BOOLEAN :
        /\ N!queued(N_wire, N!packet("hello", ech)) /\ N!queued(tls, N!item("client", FALSE))
        /\ N!queued(sockets, N!item("client", ech))
  BY DEF N!Hello
<1>c. PICK x : x = [of |-> n, kind |-> "hello", ech |-> ech, at |-> N_clock]
  OBVIOUS
<1>d. PICK i : i = [of |-> n, from |-> "client", ech |-> FALSE, at |-> N_clock]
  OBVIOUS
<1>e. PICK s : s = [of |-> n, from |-> "client", ech |-> ech, at |-> N_clock]
  OBVIOUS
<1>2. /\ N_wire' \in {N_wire, Append(N_wire, x)} /\ tls' \in {tls, Append(tls, i)}
      /\ sockets' \in {sockets, Append(sockets, s)}
  BY <1>1, <1>a, <1>c, <1>d, <1>e DEF N!queued, N!packet, N!item
<1>3. /\ N_conns # <<>> /\ N_conns[n].step = "open"
      /\ N_conns' = [N_conns EXCEPT ![n].step = "hello"]
      /\ UNCHANGED <<flow, pendingTLS, pendingSocket, N_clock>>
  BY <1>a DEF N!Hello, N!last, N!loop
<1>4. n \in Nat \ {0} /\ n = Len(N_conns) /\ N_clock \in Nat /\ n \in 1..n
  BY <1>3, <1>a DEF NamesInv, NamesType
<1>5. N_conns[n] \in Connections
  BY <1>4, Elements DEF NamesInv, NamesType
<1>6. c \in Connections /\ c.step = "hello" /\ c.at = N_conns[n].at
  BY <1>5, <1>b DEF Connections
<1>7. N_conns' = [N_conns EXCEPT ![n] = c]
  BY <1>3, <1>b
<1>8. x \in Packets /\ x.of = n /\ x.at = N_clock /\ x.kind = "hello"
  BY <1>4, <1>c DEF Packets
<1>9. i \in Items /\ i.of = n /\ i.at = N_clock
  BY <1>4, <1>d DEF Items
<1>10. s \in Items /\ s.of = n /\ s.at = N_clock
  BY <1>4, <1>e DEF Items
<1>11. ~ended(n)
  BY <1>3 DEF ended
<1>12. QED BY <1>2, <1>3, <1>4, <1>6, <1>7, <1>8, <1>9, <1>10, <1>11, SendStep

LEMMA ServerReplyStep == NamesInv /\ N!ServerReply => NamesInv'
<1> SUFFICES ASSUME NamesInv, N!ServerReply PROVE NamesInv'
  OBVIOUS
<1>a. PICK n \in Nat : n = Len(N_conns)
  BY Elements DEF NamesInv, NamesType
<1>b. PICK c : c = [N_conns[n] EXCEPT !.step = "reply"]
  OBVIOUS
<1>c. PICK x : x = [of |-> n, kind |-> "hello", ech |-> FALSE, at |-> N_clock]
  OBVIOUS
<1>d. PICK s : s = [of |-> n, from |-> "server", ech |-> FALSE, at |-> N_clock]
  OBVIOUS
<1>1. /\ N_conns # <<>> /\ N_conns[n].step = "hello"
      /\ N_conns' = [N_conns EXCEPT ![n].step = "reply"]
      /\ sockets' = Append(sockets, s)
      /\ UNCHANGED <<N_wire, tls, flow, pendingTLS, pendingSocket, N_clock>>
  BY <1>a, <1>d DEF N!ServerReply, N!last, N!loop, N!item
<1>2. n \in Nat \ {0} /\ n = Len(N_conns) /\ N_clock \in Nat /\ n \in 1..n
  BY <1>1, <1>a DEF NamesInv, NamesType
<1>3. N_conns[n] \in Connections
  BY <1>2, Elements DEF NamesInv, NamesType
<1>4. c \in Connections /\ c.step = "reply" /\ c.at = N_conns[n].at
  BY <1>3, <1>b DEF Connections
<1>5. N_conns' = [N_conns EXCEPT ![n] = c]
  BY <1>1, <1>b
<1>6. x \in Packets /\ x.of = n /\ x.at = N_clock /\ x.kind = "hello"
  BY <1>2, <1>c DEF Packets
<1>7. s \in Items /\ s.of = n /\ s.at = N_clock
  BY <1>2, <1>d DEF Items
<1>8. ~ended(n) /\ tls' \in {tls, Append(tls, s)} /\ sockets' \in {sockets, Append(sockets, s)}
  BY <1>1 DEF ended
<1>9. QED BY <1>1, <1>2, <1>4, <1>5, <1>6, <1>7, <1>8, SendStep

LEMMA EndStep == NamesInv /\ N!End => NamesInv'
<1> SUFFICES ASSUME NamesInv, N!End PROVE NamesInv'
  OBVIOUS
<1>a. PICK n \in Nat : n = Len(N_conns)
  BY Elements DEF NamesInv, NamesType
<1>b. PICK c : c = [step |-> "ended", at |-> N_clock]
  OBVIOUS
<1>c. PICK x : x = [of |-> n, kind |-> "end", ech |-> FALSE, at |-> N_clock]
  OBVIOUS
<1>d. PICK i : i = [of |-> n, from |-> "client", ech |-> FALSE, at |-> N_clock]
  OBVIOUS
<1>1. /\ N_conns # <<>> /\ N_conns[n].step # "ended"
      /\ N_conns' = [N_conns EXCEPT ![n] = c]
      /\ N_wire' = Append(N_wire, x)
      /\ UNCHANGED <<sockets, tls, flow, pendingTLS, pendingSocket, N_clock>>
  BY <1>a, <1>b, <1>c DEF N!End, N!last, N!loop, N!packet
<1>2. n \in Nat \ {0} /\ n = Len(N_conns) /\ N_clock \in Nat
  BY <1>1, <1>a DEF NamesInv, NamesType
<1>3. c \in Connections /\ c.step = "ended" /\ c.at = N_clock
  BY <1>2, <1>b DEF Connections
<1>4. x \in Packets /\ x.of = n /\ x.at = N_clock /\ x.kind = "end"
  BY <1>2, <1>c DEF Packets
<1>5. i \in Items /\ i.of = n /\ i.at = N_clock
  BY <1>2, <1>d DEF Items
<1>6. ~ended(n) /\ tls' \in {tls, Append(tls, i)} /\ sockets' \in {sockets, Append(sockets, i)}
  BY <1>1 DEF ended
<1>7. QED BY <1>1, <1>2, <1>3, <1>4, <1>5, <1>6, SendStep

LEMMA TimeStep == NamesInv /\ N!Tick => NamesInv'
<1> SUFFICES ASSUME NamesInv, N!Tick PROVE NamesInv'
  OBVIOUS
<1> USE DEF NamesInv, Happened, AsTaken
<1>1. /\ N_clock' = N_clock + 1
      /\ UNCHANGED <<N_conns, N_wire, tls, sockets, flow, pendingTLS, pendingSocket>>
      /\ \A i \in DOMAIN N_wire : ~(N_clock - N_wire[i].at >= N_Lag)
      /\ \A i \in DOMAIN tls : ~(N_clock - tls[i].at >= N_Lag)
      /\ \A i \in DOMAIN sockets : ~(N_clock - sockets[i].at >= N_Lag)
  BY DEF N!Tick, N!late
<1>2. NamesType' /\ N_clock \in Nat
  BY <1>1 DEF NamesType
<1>3. \A g \in 1..Len(N_conns) : N_conns[g].at \in Nat
  <2>1. \A g \in 1..Len(N_conns) : N_conns[g] \in Connections
    BY Elements DEF NamesType
  <2>2. QED BY <2>1 DEF Connections
<1>4. Sequel' /\ InOrder' /\ AllBegun'
  <2>1. Sequel'
    <3>1. \A g \in 1..Len(N_conns) : N_conns[g].at <= N_clock + 1
      BY <1>2, <1>3 DEF Sequel
    <3>2. QED BY <1>1, <3>1 DEF Sequel, ended
  <2>2. InOrder'
    BY <1>1 DEF InOrder, ended
  <2>3. AllBegun'
    <3>1. \A g, j : Begun(g, j) => Begun(g, j)'
      BY <1>1 DEF Begun
    <3>2. QED BY <1>1, <3>1 DEF AllBegun
  <2>4. QED BY <2>1, <2>2, <2>3
<1>5. ASSUME NEW g, NEW at \in Nat, Seen(g, at) PROVE Seen(g, at)'
  BY <1>1, <1>2, <1>5 DEF Seen, ended
<1>6. ASSUME NEW q \in Seq(Packets) \cup Seq(Items), Fresh(q), \A i \in DOMAIN q : ~(N_clock - q[i].at >= N_Lag)
      PROVE  \A i \in 1..Len(q) : Seen(q[i].of, q[i].at)' /\ N_clock' <= q[i].at + N_Lag
  <2>1. ASSUME NEW i \in 1..Len(q) PROVE Seen(q[i].of, q[i].at)' /\ N_clock' <= q[i].at + N_Lag
    <3>1. i \in DOMAIN q /\ q[i] \in Packets \cup Items
      BY <1>6, Elements
    <3>2. PICK at \in Nat : at = q[i].at
      BY <3>1 DEF Packets, Items
    <3>3. PICK g : g = q[i].of
      OBVIOUS
    <3>4. ~(N_clock - at >= N_Lag) /\ Seen(g, at)
      BY <1>6, <3>1, <3>2, <3>3 DEF Fresh
    <3>5. Seen(g, at)'
      BY <1>5, <3>4
    <3>6. N_clock' <= at + N_Lag
      BY <1>1, <1>2, <3>4, Windows
    <3>7. QED BY <3>2, <3>3, <3>5, <3>6
  <2>2. QED BY <2>1
<1>7. Fresh(N_wire)' /\ Fresh(tls)' /\ Fresh(sockets)'
  <2>1. PICK q \in Seq(Packets) : q = N_wire
    BY DEF NamesType
  <2>2. PICK r \in Seq(Items) : r = tls
    BY DEF NamesType
  <2>3. PICK t \in Seq(Items) : t = sockets
    BY DEF NamesType
  <2>4. \A i \in 1..Len(q) : Seen(q[i].of, q[i].at)' /\ N_clock' <= q[i].at + N_Lag
    BY <1>1, <1>6, <2>1
  <2>5. \A i \in 1..Len(r) : Seen(r[i].of, r[i].at)' /\ N_clock' <= r[i].at + N_Lag
    BY <1>1, <1>6, <2>2
  <2>6. \A i \in 1..Len(t) : Seen(t[i].of, t[i].at)' /\ N_clock' <= t[i].at + N_Lag
    BY <1>1, <1>6, <2>3
  <2>7. QED BY <1>1, <2>1, <2>2, <2>3, <2>4, <2>5, <2>6 DEF Fresh
<1>8. FlowInTime'
  <2>1. flow # N!None => flow.last \in Nat
    BY DEF NamesType, Flow
  <2>2. QED BY <1>1, <1>2, <2>1 DEF FlowInTime, ended
<1>9. Waiting'
  <2>1. ASSUME NEW q, q.seen \in Nat, InTime(q) PROVE InTime(q)'
    BY <1>1, <1>2, <1>5, <2>1 DEF InTime
  <2>2. PICK p : p = pendingTLS
    OBVIOUS
  <2>3. PICK q : q = pendingSocket
    OBVIOUS
  <2>4. InTime(p)' /\ InTime(q)'
    BY <2>1, <2>2, <2>3 DEF Waiting, NamesType, Pending
  <2>5. p = pendingTLS' /\ q = pendingSocket'
    BY <1>1, <2>2, <2>3
  <2>6. InTime(pendingTLS)' /\ InTime(pendingSocket)'
    BY <2>4, <2>5 DEF InTime
  <2>7. QED BY <1>1, <2>6 DEF Waiting
<1>10. SocketOrder' /\ Evidence'
  BY ZenonT(30), <1>1 DEF SocketOrder, Evidence, Own, Strongest, N!says, N!shown, N!clientBytes
<1>11. QED BY <1>2, <1>4, <1>7, <1>8, <1>9, <1>10

(* A flow that begins takes what waits for it, if that is of its connection.  *)
LEMMA PendingAttached ==
  ASSUME NamesType, NEW f \in Flow, Own(f),
         pendingSocket.of # 0 /\ N_clock - pendingSocket.seen <= PendingSocket =>
           f.of <= pendingSocket.of /\ f.socket <= pendingSocket.of,
         pendingTLS.of # 0 /\ N_clock - pendingTLS.seen <= PendingTLS => pendingTLS.of = f.of,
         NEW g, g = N!attachPending(f)
  PROVE  /\ g \in Flow /\ Own(g) /\ Strongest(g) /\ g.socket \in {f.socket, pendingSocket.of}
         /\ g.of = f.of /\ g.closed = f.closed /\ g.last = f.last
<1>1. PICK s : s = IF pendingSocket.of # 0 /\ N_clock - pendingSocket.seen <= PendingSocket
                     THEN N!attachSocketDomain(f, pendingSocket) ELSE f
  OBVIOUS
<1>2. /\ s \in Flow /\ Own(s) /\ s.socket \in {f.socket, pendingSocket.of}
      /\ s.of = f.of /\ s.closed = f.closed /\ s.last = f.last
  <2>1. PICK q \in Pending : q = pendingSocket
    BY DEF NamesType
  <2>2. q.of \in Nat /\ q.ech \in BOOLEAN
    BY DEF Pending
  <2>3. CASE pendingSocket.of # 0 /\ N_clock - pendingSocket.seen <= PendingSocket
    <3>1. f.of <= q.of /\ f.socket <= q.of /\ s = N!attachSocketDomain(f, q)
      BY <1>1, <2>1, <2>3
    <3>2. QED BY <2>1, <2>2, <3>1, SocketAttached
  <2>4. CASE ~(pendingSocket.of # 0 /\ N_clock - pendingSocket.seen <= PendingSocket)
    BY <1>1, <2>4
  <2>5. QED BY <2>3, <2>4
<1>3. PICK c : c = N!chooseDomain(s)
  OBVIOUS
<1>4. /\ c \in Flow /\ Own(c) /\ Strongest(c) /\ c.socket = s.socket
      /\ c.of = s.of /\ c.closed = s.closed /\ c.last = s.last
  BY <1>2, <1>3, Chosen DEF SameEvidence
<1>5. g = IF pendingTLS.of # 0 /\ N_clock - pendingTLS.seen <= PendingTLS
            THEN N!applyTLSEvent(c, pendingTLS) ELSE c
  BY <1>1, <1>3 DEF N!attachPending
<1>6. CASE pendingTLS.of # 0 /\ N_clock - pendingTLS.seen <= PendingTLS
  <2>1. PICK e : e = pendingTLS
    OBVIOUS
  <2>2. e.of = c.of /\ g = N!applyTLSEvent(c, e)
    BY <1>2, <1>4, <1>5, <1>6, <2>1
  <2>3. QED BY <1>2, <1>4, <2>2, ProcessNamed
<1>7. CASE ~(pendingTLS.of # 0 /\ N_clock - pendingTLS.seen <= PendingTLS)
  BY <1>2, <1>4, <1>5, <1>7
<1>8. QED BY <1>6, <1>7

(* Taking the first of a queue leaves the others fresh.                      *)
LEMMA FreshTail ==
  ASSUME NEW q \in Seq(Packets) \cup Seq(Items), q # <<>>, Fresh(q)
  PROVE  Fresh(Tail(q)) /\ Seen(q[1].of, q[1].at) /\ N_clock <= q[1].at + N_Lag
<1>1. /\ Len(q) \in Nat \ {0} /\ Len(Tail(q)) = Len(q) - 1
      /\ \A i \in 1..Len(Tail(q)) : Tail(q)[i] = q[i + 1]
  BY Tailed
<1>2. 1 \in 1..Len(q) /\ \A i \in 1..Len(Tail(q)) : i + 1 \in 1..Len(q)
  BY <1>1
<1>3. QED BY <1>1, <1>2 DEF Fresh

(* What was seen a short time before is not of an earlier connection.        *)
LEMMA NoneBefore ==
  ASSUME NamesInv, NEW e, NEW early \in Nat, Seen(e, early),
         NEW g \in 1..Len(N_conns), NEW late \in Nat, late < early + N_Reuse,
         \A h \in 1..Len(N_conns) : h < g => N_conns[h].at + N_Reuse <= late
  PROVE  e \in Nat /\ g \in Nat /\ g <= e
<1>1. e \in 1..Len(N_conns) /\ Len(N_conns) \in Nat
  BY Elements DEF Seen, NamesInv, NamesType
<1>2. SUFFICES ASSUME e < g PROVE FALSE
  BY <1>1
<1>3. N_conns[e].at \in Nat
  <2>1. N_conns[e] \in Connections
    BY <1>1, Elements DEF NamesInv, NamesType
  <2>2. QED BY <2>1 DEF Connections
<1>4. N_conns[e].at + N_Reuse <= late
  BY <1>1, <1>2
<1>5. ended(e)
  BY <1>1, <1>2 DEF NamesInv, Happened, Sequel
<1>6. early <= N_conns[e].at
  BY <1>5 DEF Seen
<1>7. QED BY <1>3, <1>4, <1>6, Windows

LEMMA PacketStep == NamesInv /\ N!Packet => NamesInv'
<1> SUFFICES ASSUME NamesInv, N!Packet PROVE NamesInv'
  OBVIOUS
<1> USE DEF NamesInv, Happened, AsTaken
<1>a. PICK n \in Nat : n = Len(N_conns)
  BY Elements DEF NamesType
<1>b. PICK m \in Nat : m = Len(N_wire)
  BY Elements DEF NamesType
<1>c. PICK p : p = N_wire[1]
  OBVIOUS
<1>d. PICK g : g = p.of
  OBVIOUS
<1>e. PICK at : at = p.at
  OBVIOUS
<1>1. N_wire # <<>> /\ N_wire' = Tail(N_wire) /\ N_wire \in Seq(Packets)
  BY DEF N!Packet, NamesType
<1>2. /\ Head(N_wire) = p /\ p \in Packets /\ Tail(N_wire) \in Seq(Packets)
      /\ m \in Nat \ {0} /\ m = Len(N_wire) /\ Len(N_wire') = m - 1
      /\ \A i \in 1..(m - 1) : N_wire'[i] = N_wire[i + 1]
  BY <1>1, <1>b, <1>c, Tailed
<1>3. g \in Nat /\ at \in Nat /\ p.kind \in {"syn", "hello", "end"} /\ p.ech \in BOOLEAN
  BY <1>2, <1>d, <1>e DEF Packets
<1>4. Seen(g, at) /\ N_clock <= at + N_Lag /\ Fresh(Tail(N_wire))
  BY <1>1, <1>c, <1>d, <1>e, FreshTail
<1>5. n \in Nat /\ n = Len(N_conns) /\ N_clock \in Nat /\ g \in 1..n /\ at <= N_clock
  BY <1>4, <1>a DEF Seen, NamesType
<1>6. \A h \in 1..n : N_conns[h].at \in Nat
  <2>1. \A h \in 1..n : N_conns[h] \in Connections
    BY <1>5, Elements DEF NamesType
  <2>2. QED BY <2>1 DEF Connections
<1>f. PICK fresh : fresh = N!newFlow(g, p.kind = "syn")
  OBVIOUS
<1>g. PICK f : f = IF flow = N!None \/ p.kind = "syn" THEN fresh ELSE flow
  OBVIOUS
<1>h. PICK h : h = N!withHello([f EXCEPT !.last = N_clock], p)
  OBVIOUS
<1>i. PICK a : a = N!attachPending(h)
  OBVIOUS
<1>7. /\ flow' = [a EXCEPT !.closed = @ \/ p.kind = "end"]
      /\ pendingTLS' = N!NoPending /\ pendingSocket' = N!NoPending
      /\ UNCHANGED <<N_conns, tls, sockets, N_clock>>
  BY <1>2, <1>d, <1>f, <1>g, <1>h, <1>i DEF N!Packet, N!retires
<1>8. flow # N!None => /\ flow \in Flow /\ flow.of \in 1..n
                       /\ flow.of <= g /\ (p.kind = "syn" => flow.of < g)
  <2>1. flow # N!None => flow \in Flow
    BY DEF NamesType
  <2>2. flow # N!None => flow.of \in 1..n
    BY <1>5 DEF FlowInTime
  <2>3. 1 \in 1..m
    BY <1>2
  <2>4. flow # N!None => flow.of <= g /\ (p.kind = "syn" => flow.of < g)
    BY <1>2, <1>c, <1>d, <2>3 DEF InOrder
  <2>5. QED BY <2>1, <2>2, <2>4
<1>9. p.kind # "syn" => flow = N!None \/ flow.of = g
  <2>1. 1 \in 1..m /\ \A i \in 1..m : ~(i < 1)
    BY <1>2
  <2>2. p.kind # "syn" => Begun(g, 1)
    BY <1>2, <1>c, <1>d, <2>1 DEF AllBegun
  <2>3. QED BY <1>2, <2>1, <2>2 DEF Begun
<1>10. /\ f \in Flow /\ f.of = g /\ Own(f)
       /\ \/ f.socket = 0
          \/ flow # N!None /\ f.socket = flow.socket
       /\ flow = N!None => f.socket = 0
  <2>1. fresh \in Flow /\ fresh.of = g /\ fresh.socket = 0 /\ Own(fresh)
    BY <1>3, <1>5, <1>f DEF N!newFlow, N!NoDNS, Flow, Own
  <2>2. CASE flow = N!None \/ p.kind = "syn"
    BY <1>g, <2>1, <2>2
  <2>3. CASE ~(flow = N!None \/ p.kind = "syn")
    <3>1. f = flow /\ flow # N!None /\ flow.of = g
      BY <1>9, <1>g, <2>3
    <3>2. QED BY <1>8, <3>1 DEF Evidence
  <2>4. QED BY <2>2, <2>3
<1>11. h \in Flow /\ h.of = g /\ h.socket = f.socket /\ h.last = N_clock /\ Own(h)
  <2>1. PICK l : l = [f EXCEPT !.last = N_clock]
    OBVIOUS
  <2>2. /\ l \in Flow /\ l.of = g /\ l.socket = f.socket /\ l.last = N_clock /\ l.wire = f.wire
        /\ l.process = f.process /\ l.conflict = f.conflict
    BY <1>5, <1>10, <2>1 DEF Flow
  <2>3. Own(l)
    BY <1>10, <2>2 DEF Own
  <2>4. CASE p.kind = "hello"
    <3>1. h = [l EXCEPT !.wire = g, !.wireECH = p.ech, !.tls = TRUE, !.known = TRUE]
      BY <1>d, <1>h, <2>1, <2>4 DEF N!withHello
    <3>2. /\ h \in Flow /\ h.of = g /\ h.socket = f.socket /\ h.last = N_clock /\ h.wire = g
          /\ h.process = l.process /\ h.conflict = l.conflict
      BY <1>3, <2>2, <3>1 DEF Flow
    <3>3. QED BY <2>2, <2>3, <3>2 DEF Own
  <2>5. CASE p.kind # "hello"
    BY <1>h, <2>1, <2>2, <2>3, <2>5 DEF N!withHello
  <2>6. QED BY <2>4, <2>5
<1>12. ASSUME pendingSocket.of # 0, N_clock - pendingSocket.seen <= PendingSocket
       PROVE  h.of <= pendingSocket.of /\ h.socket <= pendingSocket.of
  <2>1. flow = N!None /\ InTime(pendingSocket)
    BY <1>12 DEF Waiting
  <2>2. PICK q \in Pending : q = pendingSocket
    BY DEF NamesType
  <2>3. PICK since \in Nat : since = q.seen
    BY DEF Pending
  <2>4. PICK e \in Nat : e = q.of
    BY DEF Pending
  <2>5. PICK early \in Nat : Seen(e, early) /\ early <= since /\ since <= early + N_Lag
    BY <1>12, <2>1, <2>2, <2>3, <2>4 DEF InTime
  <2>6. at < early + N_Reuse
    BY <1>3, <1>5, <1>12, <2>2, <2>3, <2>5, Windows
  <2>7. g <= e
    BY <1>3, <1>4, <1>5, <2>5, <2>6, NoneBefore DEF Seen
  <2>8. h.of <= e /\ h.socket <= e
    BY <1>10, <1>11, <2>1, <2>7
  <2>9. QED BY <2>2, <2>4, <2>8
<1>13. ASSUME pendingTLS.of # 0, N_clock - pendingTLS.seen <= PendingTLS
       PROVE  pendingTLS.of = h.of
  <2>1. InTime(pendingTLS)
    BY DEF Waiting
  <2>2. PICK q \in Pending : q = pendingTLS
    BY DEF NamesType
  <2>3. PICK since \in Nat : since = q.seen
    BY DEF Pending
  <2>4. PICK e \in Nat : e = q.of
    BY DEF Pending
  <2>5. PICK early \in Nat : Seen(e, early) /\ early <= since /\ since <= early + N_Lag /\ since <= N_clock
    BY <1>13, <2>1, <2>2, <2>3, <2>4 DEF InTime
  <2>6. at < early + N_Reuse /\ early < at + N_Reuse
    BY <1>3, <1>4, <1>5, <1>13, <2>2, <2>3, <2>5, Windows
  <2>7. g <= e
    BY <1>3, <1>4, <1>5, <2>5, <2>6, NoneBefore DEF Seen
  <2>8. e <= g
    BY <1>3, <1>4, <1>5, <2>5, <2>6, NoneBefore DEF Seen
  <2>9. QED BY <1>3, <1>11, <2>2, <2>4, <2>7, <2>8
<1>14. /\ a \in Flow /\ Own(a) /\ Strongest(a) /\ a.socket \in {h.socket, pendingSocket.of}
       /\ a.of = g /\ a.last = N_clock
  BY <1>11, <1>12, <1>13, <1>i, PendingAttached
<1>15. /\ flow' \in Flow /\ flow'.of = g /\ flow'.last = N_clock /\ flow'.socket = a.socket
       /\ (p.kind = "end" => flow'.closed) /\ Own(flow') /\ Strongest(flow')
  <2>1. PICK closed \in BOOLEAN : closed = (a.closed \/ p.kind = "end")
    OBVIOUS
  <2>2. PICK b : b = [a EXCEPT !.closed = closed]
    OBVIOUS
  <2>3. flow' = b
    BY <1>7, <1>14, <2>1, <2>2 DEF Flow
  <2>4. /\ b \in Flow /\ b.of = g /\ b.last = N_clock /\ b.closed = closed /\ b.conflict = a.conflict
        /\ SameEvidence(a, b) /\ b.domain = a.domain
    BY <1>14, <2>2 DEF Flow, SameEvidence
  <2>5. Own(b)
    BY <1>14, <2>4 DEF Own, SameEvidence
  <2>6. Strongest(b)
    BY <1>14, <2>4, ShownAlike
  <2>7. QED BY <2>1, <2>3, <2>4, <2>5, <2>6 DEF SameEvidence
<1>16. flow' # N!None
  BY <1>15 DEF Flow, N!None
<1>17. NamesType'
  <2>1. N!NoPending \in Pending
    BY DEF N!NoPending, Pending
  <2>2. QED BY <1>1, <1>2, <1>7, <1>15, <2>1 DEF NamesType
<1>18. Sequel' /\ Fresh(N_wire)' /\ Fresh(tls)' /\ Fresh(sockets)'
  <2>1. Sequel'
    BY <1>7 DEF Sequel, ended
  <2>2. QED BY <1>1, <1>4, <1>7, <2>1 DEF Fresh, Seen, ended
<1>19. /\ \A i \in 1..(m - 1) : i + 1 \in 1..m /\ N_wire'[i] = N_wire[i + 1]
       /\ \A i \in 1..m : i = 1 \/ (i - 1 \in 1..(m - 1) /\ N_wire'[i - 1] = N_wire[i])
       /\ m - 1 = Len(N_wire') /\ 1 \in 1..m
  <2>1. \A i \in 1..(m - 1) : i + 1 \in 1..m
    BY <1>2
  <2>2. \A i \in 1..m : i = 1 \/ (i - 1 \in 1..(m - 1) /\ (i - 1) + 1 = i)
    BY <1>2
  <2>3. 1 \in 1..m
    BY <1>2
  <2>4. QED BY <1>2, <2>1, <2>2, <2>3
<1>20. \A i \in 1..m : /\ N_wire[i].of \in 1..n /\ g <= N_wire[i].of
                       /\ i # 1 /\ N_wire[i].kind = "syn" => g < N_wire[i].of
  <2>1. \A i \in 1..m : N_wire[i].of \in 1..n
    BY <1>2, <1>5 DEF Fresh, Seen
  <2>2. \A i \in 1..m : i # 1 => 1 < i
    BY <1>2
  <2>3. \A i \in 1..m : i # 1 => g <= N_wire[i].of /\ (N_wire[i].kind = "syn" => g < N_wire[i].of)
    BY <1>2, <1>19, <1>c, <1>d, <2>2 DEF InOrder
  <2>4. QED BY <1>5, <1>c, <1>d, <2>1, <2>3
<1>21. InOrder'
  <2>1. ASSUME NEW i \in 1..(m - 1), NEW j \in 1..(m - 1), i < j
        PROVE  /\ N_wire'[i].of <= N_wire'[j].of
               /\ N_wire'[j].kind = "syn" => N_wire'[i].of < N_wire'[j].of
    <3>1. i + 1 < j + 1
      BY <2>1
    <3>2. QED BY <1>2, <1>19, <3>1 DEF InOrder
  <2>2. ASSUME NEW i \in 1..(m - 1), N_conns'[N_wire'[i].of].step = "ended", N_wire'[i].kind # "end"
        PROVE  \E j \in 1..(m - 1) : i < j /\ N_wire'[j].kind = "end" /\ N_wire'[j].of = N_wire'[i].of
    <3>1. PICK j \in 1..m : i + 1 < j /\ N_wire[j].kind = "end" /\ N_wire[j].of = N_wire[i + 1].of
      BY <1>2, <1>7, <1>19, <2>2 DEF InOrder, ended
    <3>2. j # 1 /\ i < j - 1
      BY <3>1
    <3>3. j - 1 \in 1..(m - 1) /\ N_wire'[j - 1] = N_wire[j] /\ N_wire'[i] = N_wire[i + 1]
      BY <1>19, <3>2
    <3>4. QED BY <3>1, <3>2, <3>3
  <2>3. \A i \in 1..(m - 1) : g <= N_wire'[i].of /\ (N_wire'[i].kind = "syn" => g < N_wire'[i].of)
    <3>1. \A i \in 1..(m - 1) : i + 1 # 1
      BY <1>2
    <3>2. QED BY <1>19, <1>20, <3>1
  <2>4. QED BY <1>15, <1>19, <2>1, <2>2, <2>3 DEF InOrder, ended
<1>22. ASSUME NEW G \in 1..n, NEW j \in 1..m, Begun(G, j + 1),
              \A i \in 1..m : i < j + 1 => N_wire[i].of <= G
       PROVE  Begun(G, j)'
  <2>1. 1 < j + 1
    BY <1>2
  <2>2. ASSUME G = g PROVE Begun(G, j)'
    <3>1. \A i \in 1..(m - 1) : i < j => i + 1 < j + 1
      BY <1>2
    <3>2. \A i \in 1..(m - 1) : i < j => N_wire'[i].of <= G /\ G <= N_wire'[i].of /\ N_wire'[i].of \in Nat
      BY <1>19, <1>20, <1>22, <2>2, <3>1
    <3>3. \A i \in 1..(m - 1) : i < j => N_wire'[i].of = G
      BY <3>2
    <3>4. QED BY <1>15, <1>19, <2>2, <3>3 DEF Begun
  <2>3. CASE \E k \in 1..m : k < j + 1 /\ N_wire[k].kind = "syn" /\ N_wire[k].of = G
    <3>1. PICK k \in 1..m : k < j + 1 /\ N_wire[k].kind = "syn" /\ N_wire[k].of = G
      BY <2>3
    <3>2. CASE k = 1
      BY <1>c, <1>d, <2>2, <3>1, <3>2
    <3>3. CASE k # 1
      <4>1. k - 1 < j /\ k - 1 \in 1..(m - 1) /\ N_wire'[k - 1].kind = "syn" /\ N_wire'[k - 1].of = G
        BY <1>19, <3>1, <3>3
      <4>2. QED BY <1>19, <4>1 DEF Begun
    <3>4. QED BY <3>2, <3>3
  <2>4. CASE \A i \in 1..m : i < j + 1 => N_wire[i].of = G
    BY <1>19, <1>c, <1>d, <2>1, <2>2, <2>4
  <2>5. QED BY <1>2, <1>22, <2>3, <2>4 DEF Begun
<1>23. AllBegun'
  <2>1. ASSUME NEW j \in 1..(m - 1), N_wire'[j].kind # "syn" PROVE Begun(N_wire[j].of, j)'
    <3>1. PICK G \in 1..n : G = N_wire[j + 1].of
      BY <1>19, <1>20
    <3>2. N_wire'[j].of = G /\ N_wire[j + 1].kind # "syn" /\ j + 1 \in 1..m /\ j \in 1..m
      BY <1>2, <1>19, <2>1, <3>1
    <3>3. Begun(G, j + 1)
      BY <1>2, <3>1, <3>2 DEF AllBegun
    <3>4. \A i \in 1..m : i < j + 1 => N_wire[i].of <= G
      BY <1>2, <3>1, <3>2 DEF InOrder
    <3>5. Begun(G, j)'
      BY <1>22, <3>2, <3>3, <3>4
    <3>6. QED BY <3>2, <3>5
  <2>2. Begun(n, m)'
    <3>1. Begun(n, m + 1) /\ n \in 1..n /\ m \in 1..m
      BY <1>2, <1>5 DEF AllBegun
    <3>2. \A i \in 1..m : N_wire[i].of <= n
      BY <1>5, <1>20
    <3>3. QED BY <1>22, <3>1, <3>2
  <2>3. (m - 1) + 1 = m
    BY <1>2
  <2>4. QED BY <1>5, <1>7, <1>19, <2>1, <2>2, <2>3 DEF AllBegun
<1>24. FlowInTime'
  <2>1. ASSUME N_conns[g].step = "ended"
        PROVE  /\ N_clock <= N_conns[g].at + N_Lag
               /\ \/ flow'.closed
                  \/ \E i \in 1..(m - 1) : N_wire'[i].kind = "end" /\ N_wire'[i].of = g
    <3>1. N_clock <= N_conns[g].at + N_Lag
      BY <1>3, <1>4, <1>5, <1>6, <2>1, Windows DEF Seen, ended
    <3>2. CASE p.kind = "end"
      BY <1>15, <3>1, <3>2
    <3>3. CASE p.kind # "end"
      <4>1. PICK j \in 1..m : 1 < j /\ N_wire[j].kind = "end" /\ N_wire[j].of = g
        <5>1. \A i \in 1..m : ended(N_wire[i].of) /\ N_wire[i].kind # "end" =>
                \E j \in 1..m : i < j /\ N_wire[j].kind = "end" /\ N_wire[j].of = N_wire[i].of
          BY <1>2 DEF InOrder
        <5>2. 1 \in 1..m /\ ended(N_wire[1].of) /\ N_wire[1].kind # "end" /\ N_wire[1].of = g
          BY <1>19, <1>c, <1>d, <2>1, <3>3 DEF ended
        <5>3. QED BY <5>1, <5>2
      <4>2. j # 1
        BY <4>1
      <4>3. QED BY <1>19, <3>1, <4>1, <4>2
    <3>4. QED BY <3>2, <3>3
  <2>2. QED BY <1>5, <1>7, <1>15, <1>19, <2>1 DEF FlowInTime, ended
<1>25. Waiting'
  BY <1>7 DEF Waiting, InTime, N!NoPending
<1>26. SocketOrder'
  <2>1. flow'.socket \in {0, pendingSocket.of} \/ (flow # N!None /\ flow'.socket = flow.socket)
    BY <1>10, <1>11, <1>14, <1>15
  <2>2. pendingSocket'.of = 0
    BY <1>7 DEF N!NoPending
  <2>3. PICK q \in Seq(Items) : q = sockets
    BY DEF NamesType
  <2>4. \A i \in 1..Len(q) : q[i].of \in Nat
    <3>1. \A i \in 1..Len(q) : q[i] \in Items
      BY Elements
    <3>2. QED BY <3>1 DEF Items
  <2>5. /\ \A i \in 1..Len(q) : flow'.socket <= q[i].of /\ pendingSocket'.of <= q[i].of
        /\ flow'.socket <= n /\ pendingSocket'.of <= n
    BY <1>5, <2>1, <2>2, <2>3, <2>4 DEF SocketOrder
  <2>6. QED BY <1>5, <1>7, <2>3, <2>5 DEF SocketOrder
<1>27. Evidence'
  BY <1>15 DEF Evidence, Own, Strongest, N!says, N!shown, N!clientBytes
<1>28. QED BY <1>17, <1>18, <1>21, <1>23, <1>24, <1>25, <1>26, <1>27

(* What is read now is not of a connection before the flow's.                *)
LEMMA NotOlder ==
  ASSUME NamesInv, flow # N!None, NEW e, NEW at \in Nat, Seen(e, at), N_clock <= at + N_Lag
  PROVE  e \in Nat /\ flow.of \in 1..Len(N_conns) /\ flow.of <= e
<1> USE DEF NamesInv, Happened, AsTaken
<1>1. PICK g \in 1..Len(N_conns) : g = flow.of
  BY DEF FlowInTime
<1>2. N_clock \in Nat /\ Len(N_conns) \in Nat
  BY Elements DEF NamesType
<1>3. \A h \in 1..Len(N_conns) : N_conns[h].at \in Nat
  <2>1. \A h \in 1..Len(N_conns) : N_conns[h] \in Connections
    BY Elements DEF NamesType
  <2>2. QED BY <2>1 DEF Connections
<1>4. \A h \in 1..Len(N_conns) : h < g => N_conns[h].at + N_Reuse <= N_clock
  <2>1. ASSUME NEW h \in 1..Len(N_conns), h < g PROVE N_conns[h].at + N_Reuse <= N_clock
    <3>1. N_conns[h].at + N_Reuse <= N_conns[g].at /\ N_conns[g].at <= N_clock
      BY <2>1 DEF Sequel
    <3>2. QED BY <1>2, <1>3, <3>1, Windows
  <2>2. QED BY <2>1
<1>5. N_clock < at + N_Reuse
  BY <1>2, Windows
<1>6. QED BY <1>1, <1>2, <1>4, <1>5, NoneBefore

(* A flow that takes events is not of a connection before what is read now.   *)
LEMMA NotYounger ==
  ASSUME NamesInv, flow # N!None, N!takesEvents(flow), NEW e, NEW at \in Nat, Seen(e, at)
  PROVE  e <= flow.of
<1> USE DEF NamesInv, Happened, AsTaken
<1>1. PICK f \in 1..Len(N_conns) : f = flow.of
  BY DEF FlowInTime
<1>2. N_clock \in Nat /\ Len(N_conns) \in Nat /\ e \in 1..Len(N_conns) /\ at <= N_clock
  BY Elements DEF NamesType, Seen
<1>3. PICK l \in Nat : l = flow.last
  BY DEF NamesType, Flow
<1>4. PICK ends \in Nat : ends = N_conns[f].at
  <2>1. N_conns[f] \in Connections
    BY Elements DEF NamesType
  <2>2. QED BY <2>1 DEF Connections
<1>5. SUFFICES ASSUME f < e PROVE FALSE
  BY <1>1, <1>2
<1>6. ended(f) /\ ends + N_Reuse <= at
  BY <1>2, <1>4, <1>5 DEF Sequel, Seen
<1>7. l <= ends + N_Lag
  BY <1>1, <1>3, <1>4, <1>6 DEF FlowInTime
<1>8. ~(N_clock - l < N_LateWindow)
  BY <1>2, <1>6, <1>7, Windows
<1>9. ~flow.closed
  BY <1>3, <1>8 DEF N!takesEvents
<1>10. PICK i \in 1..Len(N_wire) : N_wire[i].of = f
  BY <1>1, <1>6, <1>9 DEF FlowInTime
<1>11. PICK read \in Nat : read = N_wire[i].at
  <2>1. N_wire[i] \in Packets
    BY Elements DEF NamesType
  <2>2. QED BY <2>1 DEF Packets
<1>12. read <= ends /\ N_clock <= read + N_Lag
  BY <1>4, <1>6, <1>10, <1>11 DEF Fresh, Seen
<1>13. QED BY <1>2, <1>6, <1>12, Windows

(* The flow stays the one it is: what is on the wire still fits it.          *)
LEMMA SameFlow ==
  ASSUME NamesInv, UNCHANGED <<N_conns, N_wire, N_clock>>,
         flow = N!None <=> flow' = N!None,
         flow # N!None => flow'.of = flow.of /\ flow'.last = flow.last /\ flow'.closed = flow.closed,
         NamesType', Fresh(tls)', Fresh(sockets)', Waiting', SocketOrder', Evidence'
  PROVE  NamesInv'
<1> USE DEF NamesInv, Happened, AsTaken
<1>1. Sequel' /\ Fresh(N_wire)'
  BY DEF Sequel, Fresh, Seen, ended
<1>2. InOrder' /\ FlowInTime'
  BY DEF InOrder, FlowInTime, ended
<1>3. AllBegun'
  <2>1. \A g, j : Begun(g, j) => Begun(g, j)'
    BY DEF Begun
  <2>2. QED BY <2>1 DEF AllBegun
<1>4. QED BY <1>1, <1>2, <1>3

LEMMA FlowNamed ==
  ASSUME NamesInv, UNCHANGED <<N_conns, N_wire, N_clock, pendingTLS, pendingSocket>>,
         flow # N!None, flow' \in Flow, flow'.of = flow.of, flow'.last = flow.last,
         flow'.closed = flow.closed, Own(flow'), Strongest(flow'),
         tls' \in Seq(Items), sockets' \in Seq(Items), Fresh(tls)', Fresh(sockets)', SocketOrder'
  PROVE  NamesInv'
<1>1. flow' # N!None
  BY DEF Flow, N!None
<1>2. NamesType' /\ Waiting'
  BY DEF NamesInv, NamesType, Waiting, InTime
<1>3. Evidence'
  BY DEF Evidence, Own, Strongest, N!says, N!shown, N!clientBytes
<1>4. QED BY <1>1, <1>2, <1>3, SameFlow

LEMMA TLSEventStep == NamesInv /\ N!tlsEvent => NamesInv'
<1> SUFFICES ASSUME NamesInv, N!tlsEvent PROVE NamesInv'
  OBVIOUS
<1> USE DEF NamesInv, Happened, AsTaken
<1>1. /\ tls # <<>> /\ tls' = Tail(tls) /\ tls \in Seq(Items)
      /\ UNCHANGED <<N_conns, N_wire, sockets, pendingSocket, N_clock>>
  BY DEF N!tlsEvent, NamesType
<1>2. PICK e : e = tls[1]
  OBVIOUS
<1>3. Head(tls) = e /\ e \in Items /\ Tail(tls) \in Seq(Items)
  BY <1>1, <1>2, Tailed
<1>4. PICK at \in Nat : at = e.at
  BY <1>3 DEF Items
<1>5. PICK g \in Nat : g = e.of
  BY <1>3 DEF Items
<1>6. Seen(g, at) /\ N_clock <= at + N_Lag /\ Fresh(Tail(tls))
  BY <1>1, <1>2, <1>4, <1>5, FreshTail
<1>7. tls' \in Seq(Items) /\ Fresh(tls)' /\ Fresh(sockets)'
  BY <1>1, <1>3, <1>6 DEF Fresh, Seen, ended
<1>8. N_clock \in Nat /\ at <= N_clock
  BY <1>6 DEF NamesType, Seen
<1>9. CASE flow = N!None
  <2>1. PICK q : q = [of |-> g, from |-> "client", ech |-> FALSE, seen |-> N_clock]
    OBVIOUS
  <2>2. pendingTLS' = q /\ UNCHANGED flow
    BY <1>3, <1>5, <1>9, <2>1 DEF N!tlsEvent
  <2>3. q \in Pending /\ q.of = g /\ q.seen = N_clock
    BY <1>8, <2>1 DEF Pending
  <2>4. NamesType'
    BY <1>1, <1>7, <2>2, <2>3 DEF NamesType
  <2>5. Seen(g, at)' /\ InTime(pendingSocket)'
    BY <1>1, <1>6 DEF Seen, ended, Waiting, InTime
  <2>6. InTime(pendingTLS)'
    BY <1>1, <1>6, <1>8, <2>2, <2>3, <2>5 DEF InTime
  <2>7. Waiting' /\ SocketOrder' /\ Evidence'
    BY <1>1, <1>9, <2>2, <2>5, <2>6 DEF Waiting, SocketOrder, Evidence
  <2>8. QED BY <1>1, <1>7, <2>2, <2>4, <2>7, SameFlow
<1>10. CASE flow # N!None
  <2>1. flow \in Flow /\ Own(flow) /\ Strongest(flow)
    BY <1>10 DEF NamesType, Evidence
  <2>2. UNCHANGED pendingTLS /\ flow' = IF N!takesEvents(flow) THEN N!applyTLSEvent(flow, e) ELSE flow
    BY <1>3, <1>10 DEF N!tlsEvent
  <2>3. /\ flow' \in Flow /\ Own(flow') /\ Strongest(flow') /\ flow'.socket = flow.socket
        /\ flow'.of = flow.of /\ flow'.closed = flow.closed /\ flow'.last = flow.last
    <3>1. CASE N!takesEvents(flow)
      <4>1. PICK f : f = flow
        OBVIOUS
      <4>2. f.of \in Nat /\ f.of <= g
        BY <1>6, <1>10, <4>1, NotOlder
      <4>3. g <= f.of
        BY <1>6, <1>10, <3>1, <4>1, NotYounger
      <4>4. e.of = f.of
        BY <1>5, <4>2, <4>3
      <4>5. PICK h : h = N!applyTLSEvent(f, e)
        OBVIOUS
      <4>6. /\ h \in Flow /\ Own(h) /\ Strongest(h) /\ h.socket = f.socket
            /\ h.of = f.of /\ h.closed = f.closed /\ h.last = f.last
        BY <2>1, <4>1, <4>4, <4>5, ProcessNamed
      <4>7. flow' = h
        BY <2>2, <3>1, <4>1, <4>5
      <4>8. QED BY <4>1, <4>6, <4>7
    <3>2. CASE ~N!takesEvents(flow)
      BY <2>1, <2>2, <3>2
    <3>3. QED BY <3>1, <3>2
  <2>4. SocketOrder'
    BY <1>1, <1>10, <2>2, <2>3 DEF SocketOrder
  <2>5. sockets' \in Seq(Items)
    BY <1>1 DEF NamesType
  <2>6. QED BY <1>1, <1>7, <1>10, <2>2, <2>3, <2>4, <2>5, FlowNamed
<1>11. QED BY <1>9, <1>10

LEMMA SocketEvidenceStep == NamesInv /\ N!socketEvidence => NamesInv'
<1> SUFFICES ASSUME NamesInv, N!socketEvidence PROVE NamesInv'
  OBVIOUS
<1> USE DEF NamesInv, Happened, AsTaken
<1>1. /\ sockets # <<>> /\ sockets' = Tail(sockets) /\ sockets \in Seq(Items)
      /\ UNCHANGED <<N_conns, N_wire, tls, pendingTLS, N_clock>>
  BY DEF N!socketEvidence, NamesType
<1>2. PICK s : s = sockets[1]
  OBVIOUS
<1>3. PICK q \in Seq(Items) : q = Tail(sockets)
  BY <1>1, Tailed
<1>4. PICK k \in Nat \ {0} : k = Len(sockets)
  BY <1>1, Tailed
<1>5. /\ Head(sockets) = s /\ s \in Items /\ Len(q) = k - 1
      /\ \A i \in 1..(k - 1) : q[i] = sockets[i + 1]
  BY <1>1, <1>2, <1>3, <1>4, Tailed
<1>6. PICK at \in Nat : at = s.at
  BY <1>5 DEF Items
<1>7. PICK g \in Nat : g = s.of
  BY <1>5 DEF Items
<1>8. Seen(g, at) /\ N_clock <= at + N_Lag /\ Fresh(q)
  BY <1>1, <1>2, <1>3, <1>6, <1>7, FreshTail
<1>9. tls' \in Seq(Items) /\ sockets' \in Seq(Items) /\ Fresh(tls)' /\ Fresh(sockets)'
  BY <1>1, <1>3, <1>8 DEF Fresh, Seen, ended, NamesType
<1>10. N_clock \in Nat /\ at <= N_clock /\ g <= Len(N_conns)
  BY <1>8 DEF NamesType, Seen
<1>11. \A i \in 1..(k - 1) : i + 1 \in 1..k /\ 1 < i + 1 /\ 1 \in 1..k
  OBVIOUS
<1>12. /\ \A i, j \in 1..Len(q) : i < j => q[i].of <= q[j].of
       /\ \A i \in 1..Len(q) : g <= q[i].of /\ (flow # N!None => flow.socket <= q[i].of)
       /\ \A i \in 1..Len(q) : pendingSocket.of <= q[i].of
  <2>1. \A i, j \in 1..k : i < j => sockets[i].of <= sockets[j].of
    BY <1>4 DEF SocketOrder
  <2>2. ASSUME NEW i \in 1..(k - 1), NEW j \in 1..(k - 1), i < j PROVE q[i].of <= q[j].of
    <3>1. i + 1 < j + 1
      BY <2>2
    <3>2. QED BY <1>5, <1>11, <2>1, <3>1
  <2>3. \A i \in 1..(k - 1) : g <= q[i].of
    BY <1>2, <1>5, <1>7, <1>11, <2>1
  <2>4. \A i \in 1..(k - 1) : (flow # N!None => flow.socket <= q[i].of) /\ pendingSocket.of <= q[i].of
    BY <1>4, <1>5, <1>11 DEF SocketOrder
  <2>5. QED BY <1>5, <2>2, <2>3, <2>4
<1>13. CASE flow = N!None
  <2>1. PICK p : p = [of |-> g, from |-> s.from, ech |-> s.ech, seen |-> N_clock]
    OBVIOUS
  <2>2. pendingSocket' = p /\ UNCHANGED flow
    BY <1>5, <1>7, <1>13, <2>1 DEF N!socketEvidence
  <2>3. p \in Pending /\ p.of = g /\ p.seen = N_clock
    BY <1>5, <1>10, <2>1 DEF Pending, Items
  <2>4. NamesType'
    BY <1>1, <1>9, <2>2, <2>3 DEF NamesType
  <2>5. Seen(g, at)' /\ InTime(pendingTLS)'
    BY <1>1, <1>8 DEF Seen, ended, Waiting, InTime
  <2>6. InTime(pendingSocket)'
    BY <1>1, <1>8, <1>10, <2>2, <2>3, <2>5 DEF InTime
  <2>7. Waiting' /\ Evidence'
    BY <1>1, <1>13, <2>2, <2>5, <2>6 DEF Waiting, Evidence
  <2>8. SocketOrder'
    BY <1>1, <1>3, <1>10, <1>12, <1>13, <2>2, <2>3 DEF SocketOrder
  <2>9. QED BY <1>1, <1>9, <2>2, <2>4, <2>7, <2>8, SameFlow
<1>14. CASE flow # N!None
  <2>1. PICK f : f = flow
    OBVIOUS
  <2>2. f \in Flow /\ Own(f) /\ Strongest(f) /\ f.socket <= Len(N_conns)
    BY <1>14, <2>1 DEF NamesType, Evidence, SocketOrder
  <2>3. f.of <= g
    BY <1>8, <1>14, <2>1, NotOlder
  <2>4. f.socket <= g
    <3>1. 1 \in 1..k
      OBVIOUS
    <3>2. QED BY <1>2, <1>4, <1>7, <1>14, <2>1, <3>1 DEF SocketOrder
  <2>5. PICK h : h = N!attachSocketDomain(f, s)
    OBVIOUS
  <2>6. UNCHANGED pendingSocket /\ flow' = h
    BY <1>5, <1>14, <2>1, <2>5 DEF N!socketEvidence
  <2>7. s.of \in Nat /\ s.ech \in BOOLEAN
    BY <1>5 DEF Items
  <2>8. /\ h \in Flow /\ Own(h) /\ Strongest(h) /\ h.socket \in {f.socket, s.of}
        /\ h.of = f.of /\ h.closed = f.closed /\ h.last = f.last
    BY <1>7, <2>2, <2>3, <2>4, <2>5, <2>7, SocketAttached
  <2>9. h.socket <= Len(N_conns) /\ \A i \in 1..Len(q) : h.socket <= q[i].of
    BY <1>7, <1>10, <1>12, <1>14, <2>1, <2>2, <2>8
  <2>10. SocketOrder'
    BY <1>1, <1>3, <1>12, <2>6, <2>9 DEF SocketOrder
  <2>11. QED BY <1>1, <1>9, <1>14, <2>1, <2>6, <2>8, <2>10, FlowNamed
<1>15. QED BY <1>13, <1>14

LEMMA HintStep ==
  ASSUME NamesInv, N!attachDNSHints \/ N!correlateProcessDNS PROVE NamesInv'
<1> USE DEF NamesInv, Happened, AsTaken
<1>1. flow # N!None /\ UNCHANGED <<N_conns, N_wire, tls, sockets, pendingTLS, pendingSocket, N_clock>>
  BY DEF N!attachDNSHints, N!correlateProcessDNS
<1>2. PICK f : f = flow
  OBVIOUS
<1>3. f \in Flow /\ Own(f) /\ Strongest(f)
  BY <1>1, <1>2 DEF NamesType, Evidence
<1>4. ASSUME NEW dns \in {"none", "dns", "dns_process"}, flow' = N!chooseDomain([f EXCEPT !.dns = dns])
      PROVE  NamesInv'
  <2>1. PICK d : d = [f EXCEPT !.dns = dns]
    OBVIOUS
  <2>2. d \in Flow /\ Own(d) /\ d.of = f.of /\ d.closed = f.closed /\ d.last = f.last /\ d.socket = f.socket
    BY <1>3, <2>1 DEF Flow, Own
  <2>3. PICK c : c = N!chooseDomain(d)
    OBVIOUS
  <2>4. /\ c \in Flow /\ Own(c) /\ Strongest(c) /\ c.socket = f.socket
        /\ c.of = f.of /\ c.closed = f.closed /\ c.last = f.last
    BY <2>2, <2>3, Chosen DEF SameEvidence
  <2>5. flow' = c
    BY <1>4, <2>1, <2>3
  <2>6. SocketOrder'
    BY <1>1, <1>2, <2>4, <2>5 DEF SocketOrder
  <2>7. tls' \in Seq(Items) /\ sockets' \in Seq(Items) /\ Fresh(tls)' /\ Fresh(sockets)'
    BY <1>1 DEF NamesType, Fresh, Seen, ended
  <2>8. QED BY <1>1, <1>2, <2>4, <2>5, <2>6, <2>7, FlowNamed
<1>5. CASE N!attachDNSHints
  <2>1. flow' = N!chooseDomain([f EXCEPT !.dns = "dns"])
    BY <1>2, <1>5 DEF N!attachDNSHints
  <2>2. QED BY <1>4, <2>1
<1>6. CASE N!correlateProcessDNS
  <2>1. \/ flow' = N!chooseDomain([f EXCEPT !.dns = "dns_process"])
        \/ flow' = N!chooseDomain([f EXCEPT !.dns = "none"])
        \/ flow' = flow
    BY <1>2, <1>6 DEF N!correlateProcessDNS, N!drop, N!NoDNS
  <2>2. CASE flow' = flow
    <3>1. NamesType' /\ Fresh(tls)' /\ Fresh(sockets)' /\ Waiting' /\ SocketOrder' /\ Evidence'
      BY <1>1, <2>2 DEF NamesType, Fresh, Seen, ended, Waiting, InTime, SocketOrder, Evidence
    <3>2. QED BY <1>1, <2>2, <3>1, SameFlow
  <2>3. QED BY <1>4, <2>1, <2>2
<1>7. QED BY <1>5, <1>6

LEMMA ExpireStep == NamesInv /\ N!Expire => NamesInv'
<1> SUFFICES ASSUME NamesInv, N!Expire PROVE NamesInv'
  OBVIOUS
<1> USE DEF NamesInv, Happened, AsTaken
<1>1. /\ UNCHANGED <<N_conns, N_wire, tls, sockets, N_clock>>
      /\ pendingTLS' \in {pendingTLS, N!NoPending} /\ pendingSocket' \in {pendingSocket, N!NoPending}
      /\ flow' = flow \/ flow' = N!None
  BY DEF N!Expire
<1>2. NamesType'
  <2>1. N!NoPending \in Pending
    BY DEF N!NoPending, Pending
  <2>2. QED BY <1>1, <2>1 DEF NamesType
<1>3. Fresh(N_wire)' /\ Fresh(tls)' /\ Fresh(sockets)' /\ Sequel'
  <2>1. Sequel'
    BY <1>1 DEF Sequel, ended
  <2>2. QED BY <1>1, <2>1 DEF Fresh, Seen, ended
<1>4. Waiting'
  <2>1. ASSUME NEW q, InTime(q) PROVE InTime(q)'
    BY <1>1, <2>1 DEF InTime, Seen, ended
  <2>2. InTime(N!NoPending)
    BY DEF InTime, N!NoPending
  <2>3. PICK p : p = pendingTLS'
    OBVIOUS
  <2>4. PICK q : q = pendingSocket'
    OBVIOUS
  <2>5. InTime(p) /\ InTime(q)
    BY <1>1, <2>2, <2>3, <2>4 DEF Waiting
  <2>6. InTime(p)' /\ InTime(q)'
    BY <2>1, <2>5
  <2>7. InTime(pendingTLS)' /\ InTime(pendingSocket)'
    BY <2>3, <2>4, <2>6 DEF InTime
  <2>8. flow' # N!None => flow' = flow /\ pendingTLS'.of = 0 /\ pendingSocket'.of = 0
    BY <1>1 DEF Waiting, N!NoPending
  <2>9. QED BY <2>7, <2>8 DEF Waiting
<1>5. SocketOrder'
  <2>1. PICK q \in Seq(Items) : q = sockets
    BY DEF NamesType
  <2>2. \A i \in 1..Len(q) : q[i].of \in Nat
    <3>1. \A i \in 1..Len(q) : q[i] \in Items
      BY Elements
    <3>2. QED BY <3>1 DEF Items
  <2>3. Len(N_conns) \in Nat
    BY Elements DEF NamesType
  <2>4. \A i \in 1..Len(q) : pendingSocket'.of <= q[i].of
    BY <1>1, <2>1, <2>2 DEF SocketOrder, N!NoPending
  <2>5. pendingSocket'.of <= Len(N_conns)
    BY <1>1, <2>3 DEF SocketOrder, N!NoPending
  <2>6. QED BY <1>1, <2>1, <2>4, <2>5 DEF SocketOrder
<1>6. Evidence'
  <2>1. CASE flow' = N!None
    BY <2>1 DEF Evidence
  <2>2. CASE flow' = flow
    BY <2>2 DEF Evidence, Own, Strongest, N!says, N!shown, N!clientBytes
  <2>3. QED BY <1>1, <2>1, <2>2
<1>7. InOrder' /\ FlowInTime'
  BY <1>1 DEF InOrder, FlowInTime, ended
<1>8. AllBegun'
  <2>1. \A g, j : Begun(g, j) => Begun(g, j)'
    BY <1>1 DEF Begun
  <2>2. QED BY <1>1, <2>1 DEF AllBegun
<1>9. QED BY <1>2, <1>3, <1>4, <1>5, <1>6, <1>7, <1>8

LEMMA NamesStep == NamesInv /\ [CollectorNext]_all => NamesInv'
<1> SUFFICES ASSUME NamesInv, [CollectorNext]_all PROVE NamesInv'
  OBVIOUS
<1>1. N!Next \/ UNCHANGED names
  BY DEF CollectorNext, all
<1>2. CASE UNCHANGED names
  <2>1. NamesType' /\ Fresh(tls)' /\ Fresh(sockets)'
    BY <1>2 DEF names, NamesInv, Happened, NamesType, Fresh, Seen, ended
  <2>2. Waiting' /\ SocketOrder' /\ Evidence'
    BY <1>2 DEF names, NamesInv, Waiting, InTime, Seen, ended, SocketOrder, Evidence
  <2>3. QED BY <1>2, <2>1, <2>2, SameFlow DEF names
<1>3. CASE N!Next
  BY <1>3, ConnectStep, HelloStep, ServerReplyStep, EndStep, TimeStep, PacketStep, TLSEventStep,
     SocketEvidenceStep, HintStep, ExpireStep DEF N!Next
<1>4. QED BY <1>1, <1>2, <1>3

(* A flow shows the strongest name it has, and the name its process gave is   *)
(* of its own connection (chooseDomain, applyTLSEvent): for any number of     *)
(* connections, in whatever order the packets, the events of OpenSSL and the  *)
(* copies of the sockets come, whichever are lost, as long as what waits is   *)
(* given up before a five-tuple is used again.                              *)
THEOREM NameRight == CollectorSpec => [](N!ShowsTheStrongest /\ N!ProcessNameIsOwn)
<1>1. CollectorInit => NamesInv
  BY NamesInit DEF CollectorInit
<1>2. NamesInv /\ [CollectorNext]_all => NamesInv'
  BY NamesStep
<1>3. NamesInv => N!ShowsTheStrongest /\ N!ProcessNameIsOwn
  <2>1. NamesInv => N!ShowsTheStrongest
    BY DEF NamesInv, Evidence, Strongest, N!ShowsTheStrongest
  <2>2. NamesInv => N!ProcessNameIsOwn
    BY DEF NamesInv, Evidence, Own, N!ProcessNameIsOwn
  <2>3. QED BY <2>1, <2>2
<1>4. QED BY <1>1, <1>2, <1>3, PTL DEF CollectorSpec

(***************************************************************************)
(* The hints: what is held of an address is in the order in which it was    *)
(* learnt, each name once, and every time it was first seen is that of an    *)
(* answer.                                                                 *)
(***************************************************************************)
Known == [name : DNSNames, first : Nat, last : Nat]
Peers == [address : Addresses, first : Nat, fromStart : BOOLEAN, hint : DNSNames \cup {""}]
Learnt(a, held) ==
  \A k \in 1..Len(held) :
    /\ held[k].first <= D_now
    /\ \E s \in seen : s.name = held[k].name /\ s.address = a /\ s.at = held[k].first
InTurn(held) ==
  \A i, j \in 1..Len(held) : i < j => held[i].first <= held[j].first /\ held[i].name # held[j].name
Hinted(c) ==
  c.fromStart /\ c.hint # "" =>
    \E s \in seen : s.name = c.hint /\ s.address = c.address /\ s.at <= c.first + Slack
HintsType == answers \in [Addresses -> Seq(Known)] /\ D_conns \in Seq(Peers) /\ D_now \in Nat
HintsInv ==
  /\ HintsType
  /\ \A a \in Addresses : Learnt(a, answers[a]) /\ InTurn(answers[a])
  /\ \A i \in 1..Len(D_conns) : Hinted(D_conns[i])

LEMMA HintsInit == D!Init => HintsInv
<1> SUFFICES ASSUME D!Init PROVE HintsInv
  OBVIOUS
<1>1. answers = [a \in Addresses |-> <<>>] /\ D_conns = <<>> /\ D_now = 0
  BY DEF D!Init
<1>2. HintsType
  BY <1>1 DEF HintsType
<1>3. \A a \in Addresses : answers[a] = <<>> /\ Len(answers[a]) = 0
  BY <1>1
<1>4. \A a \in Addresses : Learnt(a, answers[a]) /\ InTurn(answers[a])
  BY <1>3 DEF Learnt, InTurn
<1>5. QED BY <1>1, <1>2, <1>4 DEF HintsInv

(* An answer leaves the names of its address in turn, the new one last.      *)
LEMMA Observed ==
  ASSUME HintsInv, NEW a \in Addresses, NEW name \in DNSNames, NEW held \in Seq(Known), held = answers[a]
  PROVE  /\ D!observed(held, name) \in Seq(Known)
         /\ InTurn(D!observed(held, name))
         /\ \A k \in 1..Len(D!observed(held, name)) :
              \/ /\ D!observed(held, name)[k].name = name
                 /\ D!observed(held, name)[k].first = D_now
              \/ \E i \in 1..Len(held) :
                   /\ D!observed(held, name)[k].name = held[i].name
                   /\ D!observed(held, name)[k].first = held[i].first
<1>1. PICK new : new = D!observed(held, name)
  OBVIOUS
<1>2. PICK today : today = [name |-> name, first |-> D_now, last |-> D_now]
  OBVIOUS
<1>3. /\ Len(held) \in Nat /\ DOMAIN held = 1..Len(held)
      /\ \A k \in 1..Len(held) : held[k] \in Known
  BY Elements
<1>4. /\ \A k \in 1..Len(held) : held[k].first <= D_now
      /\ InTurn(held) /\ D_now \in Nat
  BY DEF HintsInv, HintsType, Learnt
<1>5. today \in Known /\ today.name = name /\ today.first = D_now
  BY <1>2, <1>4 DEF Known
<1>6. CASE \E k \in DOMAIN held : held[k].name = name
  <2>1. new = [k \in DOMAIN held |-> IF held[k].name = name THEN [held[k] EXCEPT !.last = D_now] ELSE held[k]]
    BY <1>1, <1>6 DEF D!observed
  <2>2. ASSUME NEW k \in 1..Len(held)
        PROVE  new[k] \in Known /\ new[k].name = held[k].name /\ new[k].first = held[k].first
    <3>1. new[k] = IF held[k].name = name THEN [held[k] EXCEPT !.last = D_now] ELSE held[k]
      BY <1>3, <2>1
    <3>2. PICK e \in Known : e = held[k]
      BY <1>3
    <3>3. [e EXCEPT !.last = D_now] \in Known /\ [e EXCEPT !.last = D_now].name = e.name
          /\ [e EXCEPT !.last = D_now].first = e.first
      BY <1>4 DEF Known
    <3>4. QED BY <3>1, <3>2, <3>3
  <2>3. new \in Seq(Known) /\ Len(new) = Len(held)
    <3>1. PICK n \in Nat : n = Len(held)
      BY <1>3
    <3>2. new \in [1..n -> Known]
      BY <1>3, <2>1, <2>2, <3>1
    <3>3. QED BY <3>1, <3>2
  <2>4. InTurn(new)
    BY <1>4, <2>2, <2>3 DEF InTurn
  <2>5. QED BY <1>1, <2>2, <2>3, <2>4
<1>7. CASE ~(\E k \in DOMAIN held : held[k].name = name)
  <2>1. PICK longer : longer = Append(held, today)
    OBVIOUS
  <2>2. longer \in Seq(Known) /\ Len(longer) = Len(held) + 1
        /\ (\A i \in 1..Len(held) : longer[i] = held[i]) /\ longer[Len(held) + 1] = today
    BY <1>5, <2>1, Appended
  <2>3. InTurn(longer)
    <3>1. SUFFICES ASSUME NEW i \in 1..Len(longer), NEW j \in 1..Len(longer), i < j
                   PROVE  longer[i].first <= longer[j].first /\ longer[i].name # longer[j].name
      BY DEF InTurn
    <3>2. i \in 1..Len(held) /\ (j \in 1..Len(held) \/ j = Len(held) + 1)
      BY <1>3, <2>2, <3>1
    <3>3. CASE j \in 1..Len(held)
      BY <1>4, <2>2, <3>1, <3>2, <3>3 DEF InTurn
    <3>4. CASE j = Len(held) + 1
      <4>1. longer[j].first = D_now /\ longer[j].name = name /\ longer[i] = held[i]
        BY <1>5, <2>2, <3>2, <3>4
      <4>2. held[i].name # name /\ held[i].first <= D_now
        BY <1>3, <1>4, <1>7, <3>2
      <4>3. QED BY <4>1, <4>2
    <3>5. QED BY <3>2, <3>3, <3>4
  <2>4. ASSUME NEW k \in 1..Len(longer)
        PROVE  \/ longer[k].name = name /\ longer[k].first = D_now
               \/ \E i \in 1..Len(held) : longer[k].name = held[i].name /\ longer[k].first = held[i].first
    <3>1. k \in 1..Len(held) \/ k = Len(held) + 1
      BY <1>3, <2>2
    <3>2. QED BY <1>5, <2>2, <3>1
  <2>5. CASE ~(Len(longer) > MaxNames)
    <3>1. new = longer
      BY <1>1, <1>2, <1>7, <2>1, <2>5 DEF D!observed
    <3>2. QED BY <1>1, <2>2, <2>3, <2>4, <3>1
  <2>6. CASE Len(longer) > MaxNames
    <3>1. new = Tail(longer)
      BY <1>1, <1>2, <1>7, <2>1, <2>6 DEF D!observed
    <3>2. longer # <<>>
      BY <1>3, <2>2
    <3>3. new \in Seq(Known) /\ Len(new) = Len(longer) - 1 /\ Len(longer) \in Nat
          /\ \A i \in 1..Len(new) : new[i] = longer[i + 1]
      BY <2>2, <3>1, <3>2, Tailed
    <3>4. \A i \in 1..Len(new) : i + 1 \in 1..Len(longer) /\ new[i] = longer[i + 1]
      BY <3>3
    <3>5. InTurn(new)
      BY <2>3, <3>3, <3>4 DEF InTurn
    <3>6. QED BY <1>1, <2>4, <3>3, <3>4, <3>5
  <2>7. QED BY <2>5, <2>6
<1>8. QED BY <1>6, <1>7

LEMMA ObserveStep ==
  ASSUME HintsInv, NEW name \in DNSNames, NEW records, D!ObserveRecords(name, records)
  PROVE  HintsInv'
<1>1. PICK took : /\ answers' = [a \in Addresses |-> IF a \in took THEN D!observed(answers[a], name) ELSE answers[a]]
                  /\ seen' = seen \cup {[name |-> name, address |-> a, at |-> D_now] : a \in took}
                  /\ D_conns' = D_conns /\ D_now' = D_now
  BY DEF D!ObserveRecords
<1>2. HintsType
  BY DEF HintsInv
<1>3. ASSUME NEW a \in Addresses
      PROVE  answers'[a] \in Seq(Known) /\ Learnt(a, answers[a])' /\ InTurn(answers[a])'
  <2>1. PICK held \in Seq(Known) : held = answers[a]
    BY <1>2 DEF HintsType
  <2>2. Learnt(a, held) /\ InTurn(held)
    BY <2>1 DEF HintsInv
  <2>3. CASE a \notin took
    <3>1. answers'[a] = held
      BY <1>1, <2>1, <2>3
    <3>2. PICK after : after = answers'[a]
      OBVIOUS
    <3>3. Learnt(a, after)'
      BY <1>1, <2>2, <3>1, <3>2 DEF Learnt
    <3>4. QED BY <2>1, <2>2, <3>1, <3>2, <3>3 DEF Learnt, InTurn
  <2>4. CASE a \in took
    <3>1. PICK after : after = D!observed(held, name)
      OBVIOUS
    <3>2. answers'[a] = after
      BY <1>1, <2>1, <2>4, <3>1
    <3>3. after \in Seq(Known) /\ InTurn(after)
      BY <2>1, <3>1, Observed
    <3>4. ASSUME NEW k \in 1..Len(after)
          PROVE  /\ after[k].first <= D_now
                 /\ \E s \in seen' : s.name = after[k].name /\ s.address = a /\ s.at = after[k].first
      <4>1. \/ after[k].name = name /\ after[k].first = D_now
            \/ \E i \in 1..Len(held) : after[k].name = held[i].name /\ after[k].first = held[i].first
        BY <2>1, <3>1, Observed
      <4>2. CASE after[k].name = name /\ after[k].first = D_now
        <5>1. PICK s \in seen' : s = [name |-> name, address |-> a, at |-> D_now]
          BY <1>1, <2>4
        <5>2. s.name = name /\ s.address = a /\ s.at = D_now
          BY <5>1
        <5>3. D_now <= D_now
          BY <1>2 DEF HintsType
        <5>4. QED BY <4>2, <5>2, <5>3
      <4>3. CASE \E i \in 1..Len(held) : after[k].name = held[i].name /\ after[k].first = held[i].first
        BY <1>1, <2>2, <4>3 DEF Learnt
      <4>4. QED BY <4>1, <4>2, <4>3
    <3>5. Learnt(a, answers[a])'
      BY <1>1, <3>2, <3>4 DEF Learnt
    <3>6. QED BY <3>2, <3>3, <3>5 DEF InTurn
  <2>5. QED BY <2>3, <2>4
<1>4. HintsType'
  BY <1>1, <1>2, <1>3 DEF HintsType
<1>5. \A i \in 1..Len(D_conns) : Hinted(D_conns[i])'
  BY <1>1 DEF HintsInv, Hinted
<1>6. \A a \in Addresses : Learnt(a, answers[a])' /\ InTurn(answers[a])'
  BY <1>3
<1>7. (\A i \in 1..Len(D_conns) : Hinted(D_conns[i]))'
  BY <1>1, <1>5
<1>8. QED BY <1>4, <1>6, <1>7 DEF HintsInv

LEMMA PeerStep ==
  ASSUME HintsInv, NEW b \in Addresses, NEW fromStart \in BOOLEAN, D!Connect(b, fromStart)
  PROVE  HintsInv'
<1>1. PICK c : c = [address |-> b, first |-> D_now, fromStart |-> fromStart, hint |-> ""]
  OBVIOUS
<1>2. D_conns' = Append(D_conns, c) /\ answers' = answers /\ seen' = seen /\ D_now' = D_now
  BY <1>1 DEF D!Connect
<1>3. HintsType /\ \A i \in 1..Len(D_conns) : Hinted(D_conns[i])
  BY DEF HintsInv
<1>4. c \in Peers /\ c.hint = ""
  BY <1>1, <1>3 DEF Peers, HintsType
<1>5. /\ D_conns' \in Seq(Peers) /\ Len(D_conns') = Len(D_conns) + 1 /\ Len(D_conns) \in Nat
      /\ \A i \in 1..Len(D_conns) : D_conns'[i] = D_conns[i]
      /\ D_conns'[Len(D_conns) + 1] = c
  <2>1. D_conns \in Seq(Peers)
    BY <1>3 DEF HintsType
  <2>2. QED BY ZenonT(30), <1>2, <1>4, <2>1, Appended
<1>6. HintsType'
  BY <1>2, <1>3, <1>5 DEF HintsType
<1>7. \A a \in Addresses : Learnt(a, answers[a])' /\ InTurn(answers[a])'
  BY <1>2 DEF HintsInv, Learnt, InTurn
<1>8. ASSUME NEW i \in 1..Len(D_conns') PROVE Hinted(D_conns[i])'
  <2>1. i \in 1..Len(D_conns) \/ i = Len(D_conns) + 1
    BY <1>5
  <2>2. CASE i \in 1..Len(D_conns)
    BY <1>2, <1>3, <1>5, <2>2 DEF Hinted
  <2>3. CASE i = Len(D_conns) + 1
    BY <1>4, <1>5, <2>3 DEF Hinted
  <2>4. QED BY <2>1, <2>2, <2>3
<1>9. QED BY <1>6, <1>7, <1>8 DEF HintsInv

LEMMA SameCount ==
  ASSUME NEW S
  PROVE  D!Cardinality(S) = Cardinality(S)
  BY DEF D!Cardinality, Cardinality

(* What is left after the answers have expired is in the order it was.       *)
LEMMA PutInOrder ==
  ASSUME NEW n \in Nat, NEW S \in SUBSET (1..n)
  PROVE  /\ Cardinality(S) \in Nat
         /\ D!inOrder(S) \in [1..Cardinality(S) -> S]
         /\ \A i, j \in 1..Cardinality(S) : i < j => D!inOrder(S)[i] < D!inOrder(S)[j]
<1>1. IsFiniteSet(S)
  <2>1. IsFiniteSet(1..n)
    BY FS_Interval
  <2>2. QED BY <2>1, FS_Subset
<1>2. S \in SUBSET Int
  OBVIOUS
<1>3. \E s \in [1..Cardinality(S) -> S] : \A i, j \in 1..Cardinality(S) : i < j => s[i] < s[j]
  BY <1>1, <1>2, Ascending
<1>4. \E s \in [1..Cardinality(S) -> S] : \A i, j \in DOMAIN s : i < j => s[i] < s[j]
  BY <1>3
<1>5. /\ D!inOrder(S) \in [1..Cardinality(S) -> S]
      /\ \A i, j \in DOMAIN D!inOrder(S) : i < j => D!inOrder(S)[i] < D!inOrder(S)[j]
  <2>1. PICK s : s = D!inOrder(S)
    OBVIOUS
  <2>2. s = CHOOSE t \in [1..Cardinality(S) -> S] : \A i, j \in DOMAIN t : i < j => t[i] < t[j]
    BY <2>1, SameCount DEF D!inOrder
  <2>3. s \in [1..Cardinality(S) -> S] /\ \A i, j \in DOMAIN s : i < j => s[i] < s[j]
    BY <1>4, <2>2, Zenon
  <2>4. QED BY <2>1, <2>3
<1>6. Cardinality(S) \in Nat
  BY <1>1, FS_CardinalityType
<1>7. QED BY <1>5, <1>6

LEMMA Expired ==
  ASSUME NEW held \in Seq(Known)
  PROVE  /\ D!Expire(held) \in Seq(Known)
         /\ InTurn(held) => InTurn(D!Expire(held))
         /\ \A k \in 1..Len(D!Expire(held)) : \E i \in 1..Len(held) : D!Expire(held)[k] = held[i]
<1>1. PICK n \in Nat : n = Len(held) /\ DOMAIN held = 1..n /\ \A k \in 1..n : held[k] \in Known
  BY Elements
<1>2. PICK S \in SUBSET (1..n) : S = D!fresh(held)
  BY <1>1 DEF D!fresh
<1>3. PICK left : left = D!inOrder(S)
  OBVIOUS
<1>4. PICK m \in Nat : m = Cardinality(S)
  BY PutInOrder
<1>5. left \in [1..m -> S] /\ \A i, j \in 1..m : i < j => left[i] < left[j]
  BY <1>3, <1>4, PutInOrder
<1>6. PICK kept : kept = D!Expire(held)
  OBVIOUS
<1>7. kept = [i \in 1..m |-> held[left[i]]]
  BY <1>2, <1>3, <1>5, <1>6 DEF D!Expire
<1>8. \A i \in 1..m : left[i] \in 1..n /\ kept[i] = held[left[i]]
  BY <1>5, <1>7
<1>9. kept \in [1..m -> Known]
  BY <1>1, <1>7, <1>8
<1>10. kept \in Seq(Known) /\ Len(kept) = m
  BY <1>9
<1>11. InTurn(held) => InTurn(kept)
  <2>1. SUFFICES ASSUME InTurn(held), NEW i \in 1..m, NEW j \in 1..m, i < j
                 PROVE  kept[i].first <= kept[j].first /\ kept[i].name # kept[j].name
    BY <1>10 DEF InTurn
  <2>2. left[i] < left[j] /\ left[i] \in 1..n /\ left[j] \in 1..n
    BY <1>5, <1>8, <2>1
  <2>3. held[left[i]].first <= held[left[j]].first /\ held[left[i]].name # held[left[j]].name
    BY <1>1, <2>1, <2>2 DEF InTurn
  <2>4. QED BY <1>8, <2>3
<1>12. \A k \in 1..m : \E i \in 1..n : kept[k] = held[i]
  BY <1>8
<1>13. QED BY <1>1, <1>6, <1>10, <1>11, <1>12

(* Lookup gives a name first seen by then, or one of those held, or none.    *)
LEMMA LookedUp ==
  ASSUME NEW held \in Seq(Known), NEW at, NEW allowLater \in BOOLEAN
  PROVE  LET name == D!Lookup(held, at, allowLater) IN
         /\ name \in DNSNames \cup {""}
         /\ ~allowLater /\ name # "" =>
              \E k \in 1..Len(held) : held[k].name = name /\ held[k].first <= at + Slack
<1>1. PICK n \in Nat : n = Len(held) /\ DOMAIN held = 1..n /\ \A k \in 1..n : held[k] \in Known
  BY Elements
<1>2. PICK by \in SUBSET (1..n) : by = {k \in DOMAIN held : \A i \in 1..k : held[i].first <= at + Slack}
  BY <1>1
<1>3. PICK name : name = D!Lookup(held, at, allowLater)
  OBVIOUS
<1>4. CASE by # {}
  <2>1. PICK k : k = D!Max(by)
    OBVIOUS
  <2>2. name = held[k].name
    BY <1>2, <1>3, <1>4, <2>1 DEF D!Lookup
  <2>3. k \in by
    <3>1. IsFiniteSet(by) /\ by \in SUBSET Int
      <4>1. IsFiniteSet(1..n)
        BY FS_Interval
      <4>2. IsFiniteSet(by)
        BY <4>1, FS_Subset
      <4>3. QED BY <4>2
    <3>2. \E m \in by : \A x \in by : x <= m
      BY <1>4, <3>1, Greatest
    <3>3. \E m \in by : \A x \in by : m >= x
      BY <3>1, <3>2
    <3>4. QED BY <2>1, <3>3 DEF D!Max
  <2>4. k \in 1..n /\ held[k].first <= at + Slack
    BY <1>2, <2>3
  <2>5. held[k].name \in DNSNames
    BY <1>1, <2>4 DEF Known
  <2>6. QED BY <1>1, <1>3, <2>2, <2>4, <2>5
<1>5. CASE by = {}
  <2>1. name = IF allowLater /\ held # <<>> THEN held[1].name ELSE ""
    BY <1>2, <1>3, <1>5 DEF D!Lookup
  <2>2. CASE allowLater /\ held # <<>>
    <3>1. 1 \in 1..n
      BY <1>1, <2>2
    <3>2. held[1].name \in DNSNames
      BY <1>1, <3>1 DEF Known
    <3>3. QED BY <1>3, <2>1, <2>2, <3>2
  <2>3. CASE ~(allowLater /\ held # <<>>)
    BY <1>3, <2>1, <2>3
  <2>4. QED BY <2>2, <2>3
<1>6. QED BY <1>4, <1>5

LEMMA ExpiryStep ==
  ASSUME HintsInv, D!Tick
  PROVE  HintsInv'
<1>1. PICK left : left = [a \in Addresses |-> D!Expire(answers[a])]
  OBVIOUS
<1>2. answers' = left /\ D_conns' = D!attachDNSHints(left) /\ seen' = seen /\ D_now' = D_now
  BY <1>1 DEF D!Tick
<1>3. HintsType
  BY DEF HintsInv
<1>4. ASSUME NEW a \in Addresses
      PROVE  left[a] \in Seq(Known) /\ Learnt(a, left[a]) /\ InTurn(left[a])
  <2>1. PICK held \in Seq(Known) : held = answers[a]
    BY <1>3 DEF HintsType
  <2>2. Learnt(a, held) /\ InTurn(held)
    BY <2>1 DEF HintsInv
  <2>3. PICK kept : kept = D!Expire(held)
    OBVIOUS
  <2>4. left[a] = kept
    BY <1>1, <2>1, <2>3
  <2>5. kept \in Seq(Known) /\ InTurn(kept)
        /\ \A k \in 1..Len(kept) : \E i \in 1..Len(held) : kept[k] = held[i]
    BY <2>2, <2>3, Expired
  <2>6. Learnt(a, kept)
    BY <2>2, <2>5 DEF Learnt
  <2>7. QED BY <2>4, <2>5, <2>6
<1>5. DOMAIN D_conns = 1..Len(D_conns) /\ Len(D_conns) \in Nat
      /\ \A i \in 1..Len(D_conns) : D_conns[i] \in Peers
  BY <1>3, Elements DEF HintsType
<1>6. ASSUME NEW i \in 1..Len(D_conns)
      PROVE  D_conns'[i] \in Peers /\ Hinted(D_conns'[i])
  <2>1. PICK c \in Peers : c = D_conns[i]
    BY <1>5
  <2>2. PICK held \in Seq(Known) : held = left[c.address] /\ Learnt(c.address, held)
    BY <1>4 DEF Peers
  <2>3. PICK name : name = D!Lookup(held, c.first, ~c.fromStart)
    OBVIOUS
  <2>4. D_conns'[i] = IF c.hint # "" THEN c ELSE [c EXCEPT !.hint = name]
    BY <1>2, <1>5, <2>1, <2>2, <2>3 DEF D!attachDNSHints
  <2>5. CASE c.hint # ""
    BY <2>1, <2>4, <2>5 DEF HintsInv
  <2>6. CASE c.hint = ""
    <3>1. PICK d : d = [c EXCEPT !.hint = name]
      OBVIOUS
    <3>2. c.fromStart \in BOOLEAN
      BY DEF Peers
    <3>3. name \in DNSNames \cup {""}
          /\ (c.fromStart /\ name # "" =>
                \E k \in 1..Len(held) : held[k].name = name /\ held[k].first <= c.first + Slack)
      BY <2>3, <3>2, LookedUp
    <3>4. d \in Peers /\ d.hint = name /\ d.address = c.address /\ d.first = c.first /\ d.fromStart = c.fromStart
      BY <3>1, <3>3 DEF Peers
    <3>5. Hinted(d)
      BY ZenonT(30), <2>2, <3>3, <3>4 DEF Hinted, Learnt
    <3>6. QED BY <2>4, <2>6, <3>1, <3>4, <3>5
  <2>7. QED BY <2>5, <2>6
<1>7. D_conns' \in Seq(Peers) /\ Len(D_conns') = Len(D_conns)
  <2>1. PICK n \in Nat : n = Len(D_conns) /\ DOMAIN D_conns = 1..n
    BY <1>5
  <2>2. D_conns' \in [1..n -> Peers]
    BY <1>2, <1>6, <2>1 DEF D!attachDNSHints
  <2>3. QED BY <2>1, <2>2
<1>8. HintsType'
  BY <1>1, <1>2, <1>3, <1>4, <1>7 DEF HintsType
<1>9. \A a \in Addresses : Learnt(a, answers[a])' /\ InTurn(answers[a])'
  BY <1>2, <1>4 DEF Learnt, InTurn
<1>10. ASSUME NEW i \in 1..Len(D_conns') PROVE Hinted(D_conns[i])'
  BY <1>2, <1>6, <1>7 DEF Hinted
<1>11. QED BY <1>8, <1>9, <1>10 DEF HintsInv

LEMMA WaitStep ==
  ASSUME HintsInv, D!Wait
  PROVE  HintsInv'
<1>1. D_now' = D_now + 1 /\ answers' = answers /\ seen' = seen /\ D_conns' = D_conns
  BY DEF D!Wait
<1>2. HintsType'
  BY <1>1 DEF HintsInv, HintsType
<1>3. ASSUME NEW a \in Addresses PROVE Learnt(a, answers[a])' /\ InTurn(answers[a])'
  <2>1. PICK held \in Seq(Known) : held = answers[a]
    BY DEF HintsInv, HintsType
  <2>2. Learnt(a, held) /\ InTurn(held) /\ D_now \in Nat
    BY <2>1 DEF HintsInv, HintsType
  <2>3. \A k \in 1..Len(held) : held[k] \in Known
    BY Elements
  <2>4. \A k \in 1..Len(held) : held[k].first <= D_now + 1
    <3>1. SUFFICES ASSUME NEW k \in 1..Len(held) PROVE held[k].first <= D_now + 1
      OBVIOUS
    <3>2. held[k].first \in Nat
      BY <2>3 DEF Known
    <3>3. QED BY <2>2, <3>2 DEF Learnt
  <2>5. Learnt(a, answers[a])'
    BY <1>1, <2>1, <2>2, <2>4 DEF Learnt
  <2>6. QED BY <1>1, <2>1, <2>2, <2>5 DEF InTurn
<1>4. (\A i \in 1..Len(D_conns) : Hinted(D_conns[i]))'
  BY <1>1 DEF HintsInv, Hinted
<1>5. QED BY <1>2, <1>3, <1>4 DEF HintsInv

LEMMA HintsStep == HintsInv /\ [CollectorNext]_all => HintsInv'
<1> SUFFICES ASSUME HintsInv, [CollectorNext]_all PROVE HintsInv'
  OBVIOUS
<1>1. D!Next \/ UNCHANGED hints
  BY DEF CollectorNext, all
<1>2. CASE UNCHANGED hints
  <2>1. answers' = answers /\ seen' = seen /\ D_conns' = D_conns /\ D_now' = D_now
    BY <1>2 DEF hints
  <2>2. HintsType'
    BY <2>1 DEF HintsInv, HintsType
  <2>3. (\A a \in Addresses : Learnt(a, answers[a]) /\ InTurn(answers[a]))'
    BY <2>1 DEF HintsInv, Learnt, InTurn
  <2>4. (\A i \in 1..Len(D_conns) : Hinted(D_conns[i]))'
    BY <2>1 DEF HintsInv, Hinted
  <2>5. QED BY <2>2, <2>3, <2>4 DEF HintsInv
<1>3. CASE D!Next
  BY <1>3, ObserveStep, PeerStep, WaitStep, ExpiryStep DEF D!Next
<1>4. QED BY <1>1, <1>2, <1>3

LEMMA HintsGiven == HintsInv => D!Hints
<1> SUFFICES ASSUME HintsInv PROVE D!Hints
  OBVIOUS
<1>1. HintsType
  BY DEF HintsInv
<1>2. \A i \in DOMAIN D_conns : Hinted(D_conns[i])
  BY <1>1, Elements DEF HintsInv, HintsType
<1>3. ASSUME NEW a \in Addresses, NEW i \in DOMAIN answers[a], NEW j \in DOMAIN answers[a], i < j
      PROVE  answers[a][i].first <= answers[a][j].first /\ answers[a][i].name # answers[a][j].name
  <2>1. answers[a] \in Seq(Known)
    BY <1>1 DEF HintsType
  <2>2. i \in 1..Len(answers[a]) /\ j \in 1..Len(answers[a])
    BY <2>1, Elements
  <2>3. InTurn(answers[a])
    BY DEF HintsInv
  <2>4. QED BY <1>3, <2>2, <2>3 DEF InTurn
<1>4. QED BY <1>2, <1>3 DEF D!Hints, Hinted

(* What a connection shows of its name (chooseDomain, tlsEvent, attachDNSHints):*)
(* the strongest name it has, of its own process, and a hint only of a name  *)
(* its peer had resolved to by then, for any number of addresses, names and  *)
(* connections, in whatever order answers come and expire.                  *)
THEOREM NamesShown == CollectorSpec => []NameShown
<1>1. CollectorInit => HintsInv
  BY HintsInit DEF CollectorInit
<1>2. HintsInv /\ [CollectorNext]_all => HintsInv'
  BY HintsStep
<1>3. CollectorSpec => []D!Hints
  BY <1>1, <1>2, HintsGiven, PTL DEF CollectorSpec
<1>4. N!ShowsTheStrongest /\ N!ProcessNameIsOwn /\ D!Hints => NameShown
  BY DEF NameShown
<1>5. QED BY <1>3, <1>4, NameRight, PTL
===============================================================================
