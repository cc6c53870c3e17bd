----------------------------- MODULE TCPHealth -----------------------------
(* What a flow knows of its TCP connection (tcp_health.go): retransmissions   *)
(* guessed from what was captured, the round trip of the handshake, and the   *)
(* state of a local socket as the kernel reports it.                          *)
(*                                                                            *)
(* One direction, from the local end: segments are captured in any order,     *)
(* again, whole, cut short or not at all, and numbers wrap at Space.  What    *)
(* went by without a whole segment is less than half of it, as int32 needs.   *)
(* Events of a socket come from several CPUs.                                 *)
EXTENDS Integers, Sequences, SequencesExt, FiniteSets
CONSTANTS Space, First, \* sequence numbers, and the first position
  Window, Gap, Longest, \* how far segments come late, how much may be missed
  Tracked,              \* maxTrackedTCPSegments
  Second, MaxHZ,        \* what CONFIG_HZ counts per, and its limit
  MaxTop, MaxRepeats, MaxReports, MaxNow \* bounds
VARIABLES
  health,    \* tcpHealth, but Kernel
  kernel,    \* its Kernel entry of the local end
  socket,    \* the kernel's counters, and what they have grown to
  reports,   \* events on their way
  now,
  top,       \* position the connection has come to
  spans, repeats, firstSYN, \* history: the whole segments kept, what came again,
  taken                     \* when a SYN was first captured, the events taken
captureVars == <<health, top, spans, repeats, firstSYN, now>>
kernelVars == <<kernel, socket, reports, taken>>

Half == Space \div 2
before(a, b) == (a - b) % Space >= Half          \* int32(a - b) < 0
ahead(a, b) == (a - b) % Space \in 1..(Half - 1) \* int32(a - b) > 0
overlaps(r, o) == before(r.start, o.end) /\ before(o.start, r.end)
larger(a, b) == IF a > b THEN a ELSE b

Init ==
  /\ health = [synAt |-> 0, rtt |-> 0, retransmits |-> 0, seen |-> <<>>, seenNext |-> 1, seenEnd |-> 0]
  /\ kernel = [retransmits |-> 0, segsOut |-> 0, sampled |-> 0, jiffies |-> 0, hz |-> 0]
  /\ socket = [retransmits |-> 0, segsOut |-> 0, sampled |-> 0, jiffies |-> 0] /\ reports = {} /\ taken = {}
  /\ now = 1 /\ top = First /\ spans = <<>> /\ repeats = 0 /\ firstSYN = 0

(* ---- observe: captured packets ---- *)
counted(h, again) == [h EXCEPT !.retransmits = IF again THEN @ + 1 ELSE @]
(* The SYN, perhaps sent again, and the answers to it.                        *)
SYN ==
  /\ repeats < MaxRepeats
  /\ health' = counted([health EXCEPT !.synAt = IF @ = 0 THEN now ELSE @], health.synAt # 0)
  /\ repeats' = repeats + (IF firstSYN = 0 THEN 0 ELSE 1)
  /\ firstSYN' = IF firstSYN = 0 THEN now ELSE firstSYN
  /\ UNCHANGED <<kernelVars, top, spans, now>>
SYNACK(acknowledged) ==
  /\ health' = [health EXCEPT !.rtt = IF acknowledged /\ health.synAt # 0 /\ @ = 0 /\ now > health.synAt
                                      THEN now - health.synAt ELSE @]
  /\ UNCHANGED <<kernelVars, top, spans, repeats, firstSYN, now>>

(* A segment of data: what starts at or after the furthest end recorded is    *)
(* not looked up.  The ranges are a ring.                                     *)
retransmitted(h, span) == before(span.start, h.seenEnd) /\ \E r \in ToSet(h.seen) : overlaps(span, r)
latest(h, span) == span.end \* mutant: the last end, not the furthest
furthest(h, span) == IF h.seen = <<>> \/ ahead(span.end, h.seenEnd) THEN span.end ELSE h.seenEnd
record(h, span) ==
  IF Len(h.seen) < Tracked THEN [h EXCEPT !.seen = Append(@, span), !.seenEnd = furthest(h, span)]
  ELSE [h EXCEPT !.seen[h.seenNext] = span, !.seenNext = (@ % Tracked) + 1, !.seenEnd = furthest(h, span)]

Segment(start, length, whole) ==
  LET end == start + length
      span == [start |-> start % Space, end |-> end % Space]
      last == [start |-> start, end |-> end]
      again == \E r \in ToSet(spans) : start < r.end /\ r.start < end IN
  /\ start >= First /\ end <= MaxTop /\ \A r \in ToSet(spans) : end - r.start < Half
  /\ top' = larger(top, end)
  /\ IF ~whole THEN UNCHANGED <<health, spans, repeats>>
     ELSE /\ again => repeats < MaxRepeats
          /\ health' = record(counted(health, retransmitted(health, span)), span)
          /\ spans' = IF Len(spans) < Tracked THEN Append(spans, last) ELSE Append(Tail(spans), last)
          /\ repeats' = repeats + (IF again THEN 1 ELSE 0)
  /\ UNCHANGED <<kernelVars, firstSYN, now>>
Wait == now < MaxNow /\ now' = now + 1 /\ UNCHANGED <<kernelVars, health, top, spans, repeats, firstSYN>>

(* ---- observeKernel: events of the socket ---- *)
(* The kernel reports its counters, or samples what the socket waits for; the *)
(* clock's ticks may be read late.                                            *)
Report(sent, again) ==
  /\ Cardinality(reports \cup taken) < MaxReports /\ sent + again > 0
  /\ socket' = [socket EXCEPT !.segsOut = @ + sent, !.retransmits = @ + again]
  /\ reports' = reports \cup {[sampled |-> 0, jiffies |-> 0, segsOut |-> socket'.segsOut, retransmits |-> socket'.retransmits]}
  /\ UNCHANGED <<captureVars, kernel, taken>>
Sample(ns, ticks) ==
  /\ Cardinality(reports \cup taken) < MaxReports
  /\ socket' = [socket EXCEPT !.sampled = @ + ns, !.jiffies = @ + ticks]
  /\ reports' = reports \cup {[sampled |-> socket'.sampled, jiffies |-> socket'.jiffies, segsOut |-> 0, retransmits |-> 0]}
  /\ UNCHANGED <<captureVars, kernel, taken>>

(* A sample before the last one is too late; one after it tells how fast      *)
(* jiffies count, unless its timing is distorted.                             *)
estimate(k, e) ==
  LET hz == ((e.jiffies - k.jiffies) * Second) \div (e.sampled - k.sampled) IN
  IF k.sampled > 0 /\ e.jiffies > k.jiffies /\ hz <= MaxHZ THEN hz ELSE k.hz
observeKernel(k, e) ==
  IF e.sampled = 0 THEN [k EXCEPT !.retransmits = larger(@, e.retransmits), !.segsOut = larger(@, e.segsOut)]
  ELSE IF e.sampled < k.sampled THEN k
  ELSE [k EXCEPT !.sampled = e.sampled, !.jiffies = e.jiffies, !.hz = estimate(k, e)]
Event(e) ==
  /\ reports' = reports \ {e} /\ taken' = taken \cup {e}
  /\ kernel' = observeKernel(kernel, e)
  /\ UNCHANGED <<captureVars, socket>>

CaptureNext ==
  \/ SYN \/ (\E acknowledged \in BOOLEAN : SYNACK(acknowledged)) \/ Wait
  \/ \E start \in (top - Window)..(top + Gap), length \in 1..Longest, whole \in BOOLEAN : Segment(start, length, whole)
KernelNext ==
  \/ \E sent, again \in 0..1 : Report(sent, again)
  \/ \E ns \in 1..2, ticks \in 0..2 : Sample(ns, ticks)
  \/ \E e \in reports : Event(e)
Next == CaptureNext \/ KernelNext

(* The guess counts the segments that overlap one of the last Tracked, and    *)
(* SYNs sent again, although only numbers are kept, those wrap, the ring      *)
(* overwrites them and what seems in order is not looked up.                  *)
CaptureCounts == health.retransmits = repeats

(* The round trip is taken once, from the first SYN captured to an answer.    *)
RoundTrip == health.rtt # 0 => firstSYN # 0 /\ health.rtt \in 1..(now - firstSYN)

(* Whatever the order of the events, the counters are the highest and the     *)
(* sample the latest of them, and HZ is never estimated beyond its limit.     *)
KernelIsLatest ==
  LET ofAll(field) == {e[field] : e \in taken} \cup {0} IN
  /\ \A field \in {"retransmits", "segsOut", "sampled"} :
       kernel[field] \in ofAll(field) /\ \A v \in ofAll(field) : v <= kernel[field]
  /\ kernel.hz <= MaxHZ
=============================================================================
