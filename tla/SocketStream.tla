---------------------------- MODULE SocketStream ----------------------------
(* The first bytes of every socket, copied where the kernel takes or hands    *)
(* them out (sockstream.bpf.c), sent through a ring and a channel and parsed  *)
(* per socket direction (socket_streams.go).                                  *)
(*                                                                            *)
(* Sockets are keyed by their address, which a later socket may take again;   *)
(* with socket cookies no key comes back.  A byte is <<socket, position>>: the *)
(* number of the socket it belongs to and its place in that direction.  Calls *)
(* on one direction follow one another: the program cannot tell in which      *)
(* order concurrent ones moved their bytes.  A UDP socket talks to one peer;  *)
(* each peer has a stream of its own.                                         *)
EXTENDS Naturals, Sequences, FiniteSets
CONSTANTS Addresses,
  Directions,         \* DIR_SENT, DIR_RECEIVED
  Budget, Chunk,      \* STREAM_BUDGET, CHUNK_SIZE
  RingSize, ChanSize, \* chunks in the ring and in the channel
  MaxStreams,         \* maxSocketStreams
  Hello,              \* bytes that name a server
  MaxSockets, MaxBytes \* bounds of the environment

ASSUME BudgetAssumption == {Budget, Chunk} \subseteq Nat \ {0} /\ Hello \in Nat
ASSUME SizesAssumption == {RingSize, ChanSize, MaxStreams, MaxSockets, MaxBytes} \subseteq Nat

VARIABLES
  socket,   \* by address: number and protocol of the socket there, 0: none
  opened,   \* sockets so far
  moved,    \* by key: bytes the socket has sent or received
  calls,    \* by key: the call in progress
  captured, \* by key: bytes already captured, Forgotten: no entry
  ring, channel,
  streams,  \* by key: socketStreams
  named,    \* the evidence add returned last: what it read, and of which socket
  epoch, missed \* history: where each key's entry starts, entries whose start was lost
vars == <<socket, opened, moved, calls, captured, ring, channel, streams, named, epoch, missed>>

Keys == Addresses \X Directions
NoCall == [step |-> "idle"]
Forgotten == Budget + 1
NoStream == [of |-> 0]
NoEpoch == [of |-> 0, protocol |-> 6, first |-> 0]

Done(k) == IF captured[k] = Forgotten THEN 0 ELSE captured[k]
smaller(a, b) == IF a < b THEN a ELSE b
Datagrams(k) == socket[k[1]].protocol = 17

Init ==
  /\ socket = [a \in Addresses |-> [n |-> 0, protocol |-> 6]] /\ opened = 0
  /\ moved = [k \in Keys |-> 0] /\ calls = [k \in Keys |-> NoCall]
  /\ captured = [k \in Keys |-> Forgotten] /\ ring = <<>> /\ channel = <<>>
  /\ streams = [k \in Keys |-> NoStream] /\ named = NoStream
  /\ epoch = [k \in Keys |-> NoEpoch] /\ missed = {}

(* ---- the kernel: sockets, calls and the probe's programs ---- *)
user == <<channel, streams, named>>
OpenSocket(a, protocol) ==
  /\ socket[a].n = 0 /\ opened < MaxSockets
  /\ opened' = opened + 1 /\ socket' = [socket EXCEPT ![a] = [n |-> opened', protocol |-> protocol]]
  /\ moved' = [k \in Keys |-> IF k[1] = a THEN 0 ELSE moved[k]]
  /\ UNCHANGED <<calls, captured, ring, user, epoch, missed>>

(* inet_sock_destruct: nobody is in a call on the socket any more.            *)
socket_freed(a) ==
  /\ socket[a].n # 0 /\ \A d \in Directions : calls[<<a, d>>] = NoCall
  /\ socket' = [socket EXCEPT ![a].n = 0]
  /\ captured' = [k \in Keys |-> IF k[1] = a THEN Forgotten ELSE captured[k]]
  /\ UNCHANGED <<opened, moved, calls, ring, user, epoch, missed>>

(* The least recently used entry of captured makes room for another socket.   *)
Evict(k) ==
  /\ captured[k] # Forgotten /\ captured' = [captured EXCEPT ![k] = Forgotten]
  /\ UNCHANGED <<socket, opened, moved, calls, ring, user, epoch, missed>>

(* sendmsg or recvmsg: begin leaves a call alone when the direction's budget  *)
(* is spent.  UDP is watched where it sends.                                  *)
begin(k) ==
  /\ calls[k] = NoCall /\ socket[k[1]].n # 0 /\ Done(k) < Budget
  /\ Datagrams(k) => k[2] = "sent"
  /\ calls' = [calls EXCEPT ![k] = [step |-> "called"]]
  /\ UNCHANGED <<socket, opened, moved, captured, ring, user, epoch, missed>>

(* The call moves n bytes, or fails.  Where it was not watched they pass by.  *)
Transfer(k, n) ==
  /\ socket[k[1]].n # 0 /\ moved[k] + n <= MaxBytes
  /\ calls[k].step = "called" \/ (calls[k] = NoCall /\ Done(k) >= Budget)
  /\ moved' = [moved EXCEPT ![k] = @ + n]
  /\ calls' = [calls EXCEPT ![k] =
       IF n = 0 \/ @ = NoCall THEN NoCall
       ELSE [step |-> "moved", bytes |-> [i \in 1..n |-> <<socket[k[1]].n, moved[k] + i>>]]]
  /\ UNCHANGED <<socket, opened, captured, ring, user, epoch, missed>>

(* finish: what is left of the budget is read here and written at the end.    *)
readDone(k) ==
  /\ calls[k].step = "moved"
  /\ LET total == smaller(Len(calls[k].bytes), Budget - Done(k)) IN
     calls' = [calls EXCEPT ![k] =
       [step |-> "output", bytes |-> SubSeq(@.bytes, 1, total), done |-> Done(k), sent |-> 0]]
  /\ epoch' = [epoch EXCEPT ![k] =
       IF captured[k] # Forgotten THEN @
       ELSE [of |-> socket[k[1]].n, protocol |-> socket[k[1]].protocol,
             first |-> calls[k].bytes[1][2]]]
  /\ UNCHANGED <<socket, opened, moved, captured, ring, user, missed>>

(* A chunk and its header (fill_header).                                      *)
chunk(k, offset, data) ==
  [key |-> k, offset |-> offset, data |-> data,
   of |-> socket[k[1]].n, protocol |-> socket[k[1]].protocol, epoch |-> epoch[k]]
full == Len(ring) = RingSize
output(k, offset, data) ==
  /\ ring' = IF full THEN ring ELSE Append(ring, chunk(k, offset, data))
  /\ missed' = IF full /\ offset = 0 THEN missed \cup {<<k, epoch[k]>>} ELSE missed

(* One chunk of at most CHUNK_SIZE; when the ring is full it is lost and the  *)
(* rest of the call with it.                                                  *)
outputChunk(k) ==
  /\ calls[k].step = "output" /\ ~Datagrams(k) /\ calls[k].sent < Len(calls[k].bytes)
  /\ LET c == calls[k]
         n == smaller(Len(c.bytes) - c.sent, Chunk) IN
     /\ output(k, c.done + c.sent, SubSeq(c.bytes, c.sent + 1, c.sent + n))
     /\ calls' = [calls EXCEPT ![k].sent = IF full THEN Len(c.bytes) ELSE @ + n]
  /\ UNCHANGED <<socket, opened, moved, captured, user, epoch>>

(* Lost or not, what was offered is counted.                                  *)
countOffered(k) ==
  /\ calls[k].step = "output" /\ ~Datagrams(k) /\ calls[k].sent = Len(calls[k].bytes)
  /\ captured' = [captured EXCEPT ![k] = calls[k].done + Len(calls[k].bytes)]
  /\ calls' = [calls EXCEPT ![k] = NoCall]
  /\ UNCHANGED <<socket, opened, moved, ring, user, epoch, missed>>

(* finish_datagram: a datagram that opens with a QUIC long header goes out in *)
(* one chunk, its start if it is longer; others cost nothing.                 *)
finish_datagram(k, quic) ==
  /\ calls[k].step = "output" /\ Datagrams(k)
  /\ LET c == calls[k]
         n == smaller(Len(c.bytes), Chunk) IN
     IF quic THEN /\ output(k, c.done, SubSeq(c.bytes, 1, n))
                  /\ captured' = [captured EXCEPT ![k] = c.done + n]
     ELSE UNCHANGED <<ring, missed, captured>>
  /\ calls' = [calls EXCEPT ![k] = NoCall]
  /\ UNCHANGED <<socket, opened, moved, user, epoch>>

(* ---- the reader goroutine ---- *)
kernel == <<socket, opened, moved, calls, captured, epoch>>
Read ==
  /\ ring # <<>> /\ ring' = Tail(ring)
  /\ LET c == Head(ring) IN
     IF Len(channel) < ChanSize THEN channel' = Append(channel, c) /\ UNCHANGED missed
     ELSE /\ UNCHANGED channel \* Dropped
          /\ missed' = IF c.offset = 0 THEN missed \cup {<<c.key, c.epoch>>} ELSE missed
  /\ UNCHANGED <<kernel, streams, named>>

(* ---- the main loop: add ---- *)
(* What the parser has in a row from offset 0 on; an offset is kept as it     *)
(* came first (Reassembly).                                                   *)
prefix(s) ==
  LET n == CHOOSE n \in 0..Budget : (\A o \in 0..(n - 1) : s.bytes[o] # <<>>) /\ (n = Budget \/ s.bytes[n] = <<>>) IN
  [o \in 1..n |-> s.bytes[o - 1]]
fresh(c) == [of |-> c.of, epoch |-> c.epoch, trusted |-> TRUE, bytes |-> [o \in 0..(Budget - 1) |-> <<>>]]
startsOnce(c) == streams[c.key].of = 0 \* mutant: offset 0 does not start over
startsOver(c) == streams[c.key].of = 0 \/ c.offset = 0
fed(c) ==
  LET old == IF startsOver(c) THEN fresh(c) ELSE streams[c.key] IN
  [old EXCEPT !.trusted = @ /\ <<c.key, c.epoch>> \notin missed,
              !.bytes = [o \in 0..(Budget - 1) |->
     IF @[o] = <<>> /\ o \in c.offset..(c.offset + Len(c.data) - 1) THEN c.data[o - c.offset + 1] ELSE @[o]]]

(* A UDP chunk is a datagram, and a client Initial names the server.  A full  *)
(* table takes no new stream.                                                 *)
add ==
  /\ channel # <<>> /\ channel' = Tail(channel)
  /\ LET c == Head(channel)
         tableFull == streams[c.key].of = 0 /\ Cardinality({k \in Keys : streams[k].of # 0}) >= MaxStreams
         s == fed(c)
         read == IF c.protocol = 17 THEN c.data ELSE prefix(s) IN
     IF tableFull THEN UNCHANGED <<streams, named>>
     ELSE /\ streams' = [streams EXCEPT ![c.key] = s]
          /\ named' = IF Len(read) >= Hello \/ c.protocol = 17
                      THEN [of |-> s.of, trusted |-> s.trusted, read |-> read] ELSE NoStream
  /\ UNCHANGED <<kernel, ring, missed>>

(* Streams idle for two minutes go.                                           *)
expire(k) ==
  /\ streams[k].of # 0 /\ streams' = [streams EXCEPT ![k] = NoStream]
  /\ UNCHANGED <<kernel, ring, channel, named, missed>>

Next ==
  \/ \E a \in Addresses : socket_freed(a) \/ \E p \in {6, 17} : OpenSocket(a, p)
  \/ \E k \in Keys :
       \/ Evict(k) \/ begin(k) \/ \E n \in 0..2 : Transfer(k, n)
       \/ readDone(k) \/ outputChunk(k) \/ countOffered(k)
       \/ \E quic \in BOOLEAN : finish_datagram(k, quic)
       \/ expire(k)
  \/ Read \/ add

(* The client bytes that name a socket's connection are bytes of that socket, *)
(* each once and in a row: whatever chunks the ring or the channel lost,      *)
(* wherever the budget ended a call, whichever entry the kernel forgot and    *)
(* whoever takes the socket's address next.  Trusted: the chunk that starts   *)
(* the entry was not itself lost, for it is what tells a new socket apart.    *)
OneSocketInARow ==
  named # NoStream /\ named.trusted =>
    \A i \in DOMAIN named.read : named.read[i] = <<named.of, named.read[1][2] + i - 1>>
=============================================================================
