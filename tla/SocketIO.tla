------------------------------ MODULE SocketIO ------------------------------
(***************************************************************************)
(* Socket I/O of one collector (internal/app: eventAt and the pendingIO     *)
(* functions of app_linux.go, linkNAT of nat_linux.go).  The probe reports  *)
(* the bytes a process moved over a socket.  They are added to the process  *)
(* and, apart from that, to the flow of the socket; a report that comes     *)
(* before its flow waits in pendingIO.                                      *)
(*                                                                         *)
(* The flow table is reduced to what decides where bytes go: one flow per   *)
(* five-tuple or none, and the retired ones, at the number of the flow that  *)
(* came after them.  A report is one byte; RX and TX are not told apart.     *)
(* pendingIO says how many samples wait of one key, process and time: their  *)
(* order decides nothing.                                                   *)
(***************************************************************************)
EXTENDS Integers, FiniteSets, Functions

CONSTANTS
  Proc,       \* processes, a PID with its start time
  TCP, UDP,   \* five-tuples
  Orig, Reply, \* the two tuples of the one NAT entry
  MaxProcs,   \* maxFlows as the bound of pidIO
  MaxPending, \* maxPendingIOSamples
  Patience,   \* how long a sample waits (2 seconds)
  LateWindow, \* lateEventWindow (2 seconds)
  ClosedTTL, IdleTTL,  \* how long flows stay
  ProcTTL,    \* how long a silent process stays (5 minutes)
  MaxSent,    \* bound: reports
  MaxFlowsSeen, \* bound: flows created
  MaxNow      \* bound: clock

Key == TCP \cup UDP
NoFlow == [on |-> FALSE, closed |-> FALSE, last |-> 0, nat |-> FALSE, io |-> [p \in Proc |-> 0]]

(* A silent process outlives what it sent, and a flow its late samples. *)
SocketIOAssumption ==
  /\ IsFiniteSet(Proc) /\ IsFiniteSet(Key)
  /\ {Patience, ClosedTTL, IdleTTL, ProcTTL, MaxPending} \subseteq Nat
  /\ Patience <= ClosedTTL /\ ClosedTTL <= IdleTTL /\ Patience < ProcTTL
  /\ Orig \in Key /\ Reply \in Key /\ TCP \cap UDP = {}
ASSUME SocketIOAssumption

VARIABLES
  flows,          \* c.flows: the flow of a key, or NoFlow
  retired,        \* c.retired
  pidIO, pidSeen, \* totals of a process, and when it was last heard of
  pendingIO,      \* samples that wait for the flow of their key
  pendingIOCount,
  ioUnmatched, ioUnindexed, expiredPIDIO,
  known,          \* is the NAT entry known?
  now,
  sent,           \* what happened: bytes reported,
  lost,           \* bytes of flows and processes that have expired,
  created,        \* flows created,
  leftBehind,     \* the samples that a flow of their key left when it was created,
  inherited       \* and bytes of those given to a later flow

vars == <<flows, retired, pidIO, pidSeen, pendingIO, pendingIOCount, ioUnmatched,
          ioUnindexed, expiredPIDIO, known, now, sent, lost, created, leftBehind, inherited>>

other(k) == IF k = Orig THEN Reply ELSE Orig
total(io) == SumFunction(io)
totals(fs) == [k \in DOMAIN fs |-> total(fs[k].io)]
tooOld(x) == now - x.seen > Patience
without(f, S) == [x \in DOMAIN f \ S |-> f[x]]
put(f, x, v) == [y \in DOMAIN f \cup {x} |-> IF y = x THEN v ELSE f[y]]
oneMore(f, x) == put(f, x, (IF x \in DOMAIN f THEN f[x] ELSE 0) + 1)
takesEvents(f) == ~f.closed \/ now - f.last < LateWindow

(* What the handlers of packets change, to be passed from call to call. *)
Books == [flows |-> flows, retired |-> retired, pendingIO |-> pendingIO,
          pendingIOCount |-> pendingIOCount, ioUnmatched |-> ioUnmatched,
          lost |-> lost, leftBehind |-> leftBehind, inherited |-> inherited]
Enter(b) ==
  /\ flows' = b.flows /\ retired' = b.retired /\ pendingIO' = b.pendingIO
  /\ pendingIOCount' = b.pendingIOCount /\ ioUnmatched' = b.ioUnmatched
  /\ lost' = b.lost /\ leftBehind' = b.leftBehind /\ inherited' = b.inherited

samplesOf(b, k) == {x \in DOMAIN b.pendingIO : x.key = k}
takeOut(b, xs) ==
  [b EXCEPT !.pendingIO = without(@, xs), !.leftBehind = @ \ xs,
            !.pendingIOCount = @ - SumFunctionOnSet(b.pendingIO, xs)]

unmatched(b, xs) ==
  [takeOut(b, xs) EXCEPT !.ioUnmatched = @ + SumFunctionOnSet(b.pendingIO, xs)]

(* The samples of a key fit no flow. *)
flushPendingKey(b, k) == unmatched(b, samplesOf(b, k))

(* The samples of the key k go to the flow of the key f. *)
attachPendingIO(b, k, f) ==
  LET fresh == {x \in samplesOf(b, k) : ~tooOld(x)}
      count(xs) == SumFunctionOnSet(b.pendingIO, xs)
  IN [takeOut(b, samplesOf(b, k)) EXCEPT
        !.flows[f].io = [p \in Proc |-> @[p] + count({x \in fresh : x.proc = p})],
        !.inherited = @ + count(fresh \cap b.leftBehind),
        !.ioUnmatched = @ + count(samplesOf(b, k) \ fresh)]

(* linkNAT: each captured tuple of the entry takes the samples of the other, *)
(* unless that one is captured too.                                          *)
linkTuple(b, k) ==
  LET marked == [b EXCEPT !.flows[k].nat = TRUE] IN
  IF ~b.flows[k].on \/ b.flows[k].nat THEN b
  ELSE IF b.flows[other(k)].on THEN marked
  ELSE attachPendingIO(marked, other(k), k)
linkNAT(b) == linkTuple(linkTuple(b, Orig), Reply)

(* natSocket: the tuple the collector captured, for the tuple of a socket. *)
natSocket(k) ==
  IF known /\ k \in {Orig, Reply} /\ ~flows[k].on /\ flows[other(k)].on THEN other(k) ELSE k

(***************************************************************************)
(* eventAt: a process p moved a byte over the socket with the tuple k.     *)
(***************************************************************************)
Count(p) ==
  /\ p \in DOMAIN pidIO \/ Cardinality(DOMAIN pidIO) < MaxProcs
  /\ pidIO' = oneMore(pidIO, p)
  /\ pidSeen' = put(pidSeen, p, now)
  /\ sent < MaxSent /\ sent' = sent + 1
  /\ UNCHANGED <<retired, ioUnindexed, expiredPIDIO, known, now, lost, created, leftBehind, inherited>>

EventUnindexed(p) ==
  /\ p \notin DOMAIN pidIO /\ Cardinality(DOMAIN pidIO) >= MaxProcs
  /\ ioUnindexed' = ioUnindexed + 1
  /\ sent < MaxSent /\ sent' = sent + 1
  /\ UNCHANGED <<flows, retired, pidIO, pidSeen, pendingIO, pendingIOCount, ioUnmatched,
                 expiredPIDIO, known, now, lost, created, leftBehind, inherited>>

EventOnFlow(p, k) ==
  /\ flows[k].on /\ takesEvents(flows[k])
  /\ Count(p)
  /\ flows' = [flows EXCEPT ![k].io[p] = @ + 1]
  /\ UNCHANGED <<pendingIO, pendingIOCount, ioUnmatched>>

EventBeforeFlow(p, k) ==
  /\ ~flows[k].on /\ pendingIOCount < MaxPending
  /\ Count(p)
  /\ pendingIO' = oneMore(pendingIO, [key |-> k, proc |-> p, seen |-> now])
  /\ pendingIOCount' = pendingIOCount + 1
  /\ UNCHANGED <<flows, ioUnmatched>>

(* A port that is filtered out, a flow closed for too long, no room to wait. *)
EventUnmatched(p, k, watched) ==
  /\ \/ ~watched
     \/ flows[k].on /\ ~takesEvents(flows[k])
     \/ ~flows[k].on /\ pendingIOCount >= MaxPending
  /\ Count(p)
  /\ ioUnmatched' = ioUnmatched + 1
  /\ UNCHANGED <<flows, pendingIO, pendingIOCount>>

Event(p, k) ==
  \/ EventUnindexed(p)
  \/ EventOnFlow(p, natSocket(k))
  \/ EventBeforeFlow(p, natSocket(k))
  \/ \E watched \in BOOLEAN : EventUnmatched(p, natSocket(k), watched)

(***************************************************************************)
(* Packets, connect results and NAT entries.                               *)
(***************************************************************************)
drop(b, ks) ==
  [b EXCEPT !.flows = [k \in Key |-> IF k \in ks THEN NoFlow ELSE @[k]],
            !.lost = @ + SumFunctionOnSet(totals(b.flows), ks)]

(* evict: a full table gives some flows up; what they left may go on.      *)
evict(b, ks) == [drop(b, ks) EXCEPT !.leftBehind = {x \in @ : x.key \notin ks}]

retire(b, k) == [b EXCEPT !.retired = put(@, created + 1, b.flows[k]), !.flows[k] = NoFlow]

newFlow == [NoFlow EXCEPT !.on = TRUE, !.last = now]

(* The samples of a key whose new flow does not take them are left behind. *)
create(b, k) ==
  [b EXCEPT !.flows[k] = newFlow,
            !.leftBehind = @ \cup samplesOf(b, k)]
createAttached(b, k) ==
  attachPendingIO([b EXCEPT !.flows[k] = newFlow], k, k)

natFlow(b, k) == IF known /\ k \in {Orig, Reply} THEN linkNAT(b) ELSE b

PacketOnFlow(k, closes) ==
  /\ flows[k].on
  /\ closes => k \in TCP
  /\ flows' = [flows EXCEPT ![k].last = now, ![k].closed = @ \/ closes]
  /\ UNCHANGED <<retired, pidIO, pidSeen, pendingIO, pendingIOCount, ioUnmatched, ioUnindexed,
                 expiredPIDIO, known, now, sent, lost, created, leftBehind, inherited>>

(* A SYN ends the generation before it. *)
PacketNewFlow(k, syn) ==
  /\ created < MaxFlowsSeen /\ created' = created + 1
  /\ syn => k \in TCP
  /\ flows[k].on => syn
  /\ \E gone \in SUBSET {j \in Key \ {k} : flows[j].on} :
       LET prior == IF flows[k].on THEN retire(flushPendingKey(Books, k), k) ELSE Books
           room == evict(prior, gone)
       IN Enter(natFlow(IF syn \/ k \in UDP THEN createAttached(room, k) ELSE create(room, k), k))
  /\ UNCHANGED <<pidIO, pidSeen, ioUnindexed, expiredPIDIO, known, now, sent>>

ConnectResultOnFlow(k, fails) ==
  /\ k \in TCP /\ flows[k].on /\ takesEvents(flows[k])
  /\ fails
  /\ flows' = [flows EXCEPT ![k].closed = TRUE, ![k].last = now]
  /\ UNCHANGED <<retired, pidIO, pidSeen, pendingIO, pendingIOCount, ioUnmatched, ioUnindexed,
                 expiredPIDIO, known, now, sent, lost, created, leftBehind, inherited>>

(* The base collector keeps connections that have no packets yet. *)
ConnectResultNewFlow(k, fails) ==
  /\ k \in TCP /\ (flows[k].on => ~takesEvents(flows[k]))
  /\ created < MaxFlowsSeen /\ created' = created + 1
  /\ \E gone \in SUBSET {j \in Key \ {k} : flows[j].on} :
       LET prior == IF flows[k].on THEN retire(Books, k) ELSE Books
           b == create(evict(prior, gone), k)
       IN Enter([b EXCEPT !.flows[k].closed = fails])
  /\ UNCHANGED <<pidIO, pidSeen, ioUnindexed, expiredPIDIO, known, now, sent>>

(* A lookup of either tuple finds the entry. *)
LinkNAT ==
  /\ known' = TRUE
  /\ Enter(linkNAT(Books))
  /\ UNCHANGED <<pidIO, pidSeen, ioUnindexed, expiredPIDIO, now, sent, created>>

(* The entry outlives its flows. *)
ForgetNAT ==
  /\ known /\ ~flows[Orig].on /\ ~flows[Reply].on
  /\ known' = FALSE
  /\ UNCHANGED <<flows, retired, pidIO, pidSeen, pendingIO, pendingIOCount, ioUnmatched, ioUnindexed,
                 expiredPIDIO, now, sent, lost, created, leftBehind, inherited>>

(***************************************************************************)
(* expire, and the end of the run.                                         *)
(***************************************************************************)
outdated(b, flushAll) == {x \in DOMAIN b.pendingIO : flushAll \/ tooOld(x)}
expireUnseen(b, flushAll) ==   \* mutant: samples that waited too long count nowhere
  takeOut(b, outdated(b, flushAll))
expirePendingIO(b, flushAll) == unmatched(b, outdated(b, flushAll))

keepFlowIO(b, ids) == b   \* mutant: the flows keep the bytes of a forgotten process
(* The flows forget the bytes of processes that are forgotten. *)
forget(b, ids) ==
  LET cleared(fs) == [k \in DOMAIN fs |->
        [fs[k] EXCEPT !.io = [p \in Proc |-> IF p \in ids THEN 0 ELSE @[p]]]]
      part(fs) == SumFunction([k \in DOMAIN fs |-> SumFunctionOnSet(fs[k].io, ids)])
  IN [b EXCEPT !.flows = cleared(@), !.retired = cleared(@),
               !.lost = @ + part(b.flows) + part(b.retired)]

old(f) == now - f.last > IF f.closed THEN ClosedTTL ELSE IdleTTL
expireFlows(b) ==
  LET past == {i \in DOMAIN b.retired : old(b.retired[i])}
  IN [drop(b, {k \in Key : b.flows[k].on /\ old(b.flows[k])})
        EXCEPT !.retired = without(@, past),
               !.lost = @ + SumFunctionOnSet(totals(b.retired), past)]

Expire ==
  LET ids == {p \in DOMAIN pidSeen : now - pidSeen[p] > ProcTTL}
  IN /\ Enter(expireFlows(forget(expirePendingIO(Books, FALSE), ids)))
     /\ expiredPIDIO' = expiredPIDIO + SumFunctionOnSet(pidIO, ids)
     /\ pidIO' = without(pidIO, ids)
     /\ pidSeen' = without(pidSeen, ids)
     /\ UNCHANGED <<ioUnindexed, known, now, sent, created>>

Finish ==
  /\ pendingIOCount > 0
  /\ Enter(expirePendingIO(Books, TRUE))
  /\ UNCHANGED <<pidIO, pidSeen, ioUnindexed, expiredPIDIO, known, now, sent, created>>

Tick ==
  /\ now < MaxNow /\ now' = now + 1
  /\ UNCHANGED <<flows, retired, pidIO, pidSeen, pendingIO, pendingIOCount, ioUnmatched,
                 ioUnindexed, expiredPIDIO, known, sent, lost, created, leftBehind, inherited>>

Init ==
  /\ flows = [k \in Key |-> NoFlow] /\ retired = <<>>
  /\ pidIO = <<>> /\ pidSeen = <<>>
  /\ pendingIO = <<>> /\ pendingIOCount = 0
  /\ ioUnmatched = 0 /\ ioUnindexed = 0 /\ expiredPIDIO = 0
  /\ known = FALSE /\ now = 0
  /\ sent = 0 /\ lost = 0 /\ created = 0
  /\ leftBehind = {} /\ inherited = 0

Next ==
  \/ \E p \in Proc, k \in Key : Event(p, k)
  \/ \E k \in Key, closes \in BOOLEAN : PacketOnFlow(k, closes)
  \/ \E k \in Key, syn \in BOOLEAN : PacketNewFlow(k, syn)
  \/ \E k \in Key, fails \in BOOLEAN : ConnectResultOnFlow(k, fails)
  \/ \E k \in Key, fails \in BOOLEAN : ConnectResultNewFlow(k, fails)
  \/ LinkNAT
  \/ ForgetNAT
  \/ Expire
  \/ Finish
  \/ Tick

Spec == Init /\ [][Next]_vars

(***************************************************************************)
(* Properties.                                                             *)
(***************************************************************************)
waiting == SumFunction(pendingIO)
onFlows == SumFunction(totals(flows)) + SumFunction(totals(retired))

(* Every reported byte is counted for one process, in what processes that    *)
(* were forgotten had, or as unindexed: once.  Every byte that is counted    *)
(* for a process is on one flow, waiting, unmatched or gone with a flow or a *)
(* process (eventAt, attachPendingIO, flushPendingKey, expirePendingIO,      *)
(* linkNAT, expire).                                                         *)
ProcessBytesOnce == sent = total(pidIO) + ioUnindexed + expiredPIDIO
FlowBytesOnce == sent - ioUnindexed = onFlows + waiting + ioUnmatched + lost
BytesOnce == ProcessBytesOnce /\ FlowBytesOnce

(* The counter that bounds the samples is their number, over all the ways a  *)
(* sample can leave (pendingIOCount).                                        *)
PendingCounted == pendingIOCount = waiting /\ pendingIOCount <= MaxPending

(* A flow has no bytes of a process that was forgotten: the detail of a flow *)
(* never shows more processes than the process table (expire).               *)
ProcessesKnown ==
  /\ DOMAIN pidIO = DOMAIN pidSeen
  /\ \A p \in Proc \ DOMAIN pidIO :
       (\A k \in Key : flows[k].io[p] = 0) /\ (\A i \in DOMAIN retired : retired[i].io[p] = 0)

(* Samples that a flow of their key did not take, because it was found in    *)
(* the middle, never go to the flow of a later generation (packetAt flushes  *)
(* them); eviction of the flow in between is the exception.                  *)
NotInherited == inherited = 0

(* Every byte reported is on one flow, waits for one or is counted unmatched, *)
(* and the counter that bounds what waits is what waits (eventAt, pendingIO). *)
BytesCounted == BytesOnce /\ PendingCounted

(* A process that is forgotten is forgotten by every flow, retired ones       *)
(* included, and a new flow of a five-tuple inherits none of the bytes of the *)
(* flow before it (expire, packetAt).                                        *)
BytesOfProcesses == ProcessesKnown /\ NotInherited
=============================================================================
