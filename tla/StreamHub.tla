------------------------------- MODULE StreamHub -------------------------------
(***************************************************************************)
(* The change stream on a Unix socket (stream_socket_linux.go): the accept *)
(* goroutine, one writer goroutine per client, and the capture loop, which *)
(* owns the client set.  At a tick the loop adopts the clients accepted    *)
(* since the last one, greets them with a snapshot and broadcasts the      *)
(* tick's frames.  A client that cannot take a frame is dropped.           *)
(*                                                                         *)
(* Changes are numbered; a change frame carries its number and a snapshot  *)
(* the number it is current to.  Encoding and the frame kinds a socket may *)
(* leave out are abstracted, and so are errors that end the program.       *)
(***************************************************************************)
EXTENDS Integers, Sequences, SequencesExt, FiniteSets

CONSTANTS
  Client,      \* connections to the socket, one per dial
  Buffer,      \* streamClientBuffer
  JoinBuffer,  \* capacity of joining
  MaxVersion,  \* bound: changes published
  MaxTick      \* bound: changes of one tick

ASSUME StreamHubAssumption ==
  /\ Buffer \in Nat \ {0} /\ JoinBuffer \in Nat /\ MaxVersion \in Nat /\ MaxTick \in Nat

VARIABLES
  listening,  \* the listener is open
  backlog,    \* connections the kernel holds for Accept
  accepting,  \* the client the accept goroutine is handing over, if any
  joining,    \* h.joining
  clients,    \* h.clients
  frames,     \* the frames channel of each client
  writing,    \* the frame each writer is writing, if any
  closed,     \* clients whose close has run
  hungUp,     \* peers that closed their end
  version,    \* changes published so far
  view,       \* the version the frames a peer got add up to
  loop        \* the capture loop: its frames still to send in this tick, to whom

connections == <<listening, backlog, accepting>>
vars == <<connections, joining, clients, frames, writing, closed, hungUp, version, view, loop>>

NoView == -1
Gap == -2      \* a change arrived before the snapshot or before an earlier change
Snapshot(v) == [kind |-> "snapshot", upto |-> v]
Change(v) == [kind |-> "change", upto |-> v]
Stats == [kind |-> "stats", upto |-> 0]
Frame == {Snapshot(v) : v \in 0..MaxVersion} \cup {Change(v) : v \in 1..MaxVersion} \cup {Stats}

NoClient == {}
IdleLoop == [pc |-> "idle", script |-> <<>>, to |-> {}]

(* What a peer makes of a frame: rows are current values, not differences,  *)
(* so a change it already has does no harm; one that is missing does.       *)
apply(v, frame) ==
  CASE frame.kind = "snapshot" -> frame.upto
    [] frame.kind = "change" /\ v # NoView /\ v >= frame.upto -> v
    [] frame.kind = "change" /\ v # NoView /\ v = frame.upto - 1 -> frame.upto
    [] frame.kind = "stats" /\ v # NoView -> v
    [] OTHER -> Gap

(***************************************************************************)
(* The accept goroutine.                                                   *)
(***************************************************************************)
Dial(c) ==
  /\ listening /\ c \notin backlog \cup accepting \cup clients \cup closed \cup ToSet(joining)
  /\ c \notin hungUp
  /\ backlog' = backlog \cup {c}
  /\ UNCHANGED <<listening, accepting, joining, clients, frames, writing, closed, hungUp,
                 version, view, loop>>

(* Accept returns a connection; newStreamClient starts its writer. *)
Accept(c) ==
  /\ listening /\ accepting = NoClient /\ c \in backlog
  /\ backlog' = backlog \ {c} /\ accepting' = {c}
  /\ UNCHANGED <<listening, joining, clients, frames, writing, closed, hungUp, version, view, loop>>

(* Hand the client to the loop, or refuse it when the loop is not draining. *)
Join(c) ==
  /\ c \in accepting
  /\ accepting' = NoClient
  /\ IF Len(joining) < JoinBuffer
     THEN joining' = Append(joining, c) /\ UNCHANGED closed
     ELSE closed' = closed \cup {c} /\ UNCHANGED joining
  /\ UNCHANGED <<listening, backlog, clients, frames, writing, hungUp, version, view, loop>>

(***************************************************************************)
(* The writer goroutine of a client.                                       *)
(***************************************************************************)
Take(c) ==
  /\ c \notin closed /\ writing[c] = <<>> /\ frames[c] # <<>>
  /\ writing' = [writing EXCEPT ![c] = <<Head(frames[c])>>]
  /\ frames' = [frames EXCEPT ![c] = Tail(@)]
  /\ UNCHANGED <<connections, joining, clients, closed, hungUp, version, view, loop>>

(* The write completes; it may wait for the peer as long as it likes. *)
Write(c) ==
  /\ c \notin closed /\ c \notin hungUp /\ writing[c] # <<>>
  /\ view' = [view EXCEPT ![c] = apply(@, Head(writing[c]))]
  /\ writing' = [writing EXCEPT ![c] = <<>>]
  /\ UNCHANGED <<connections, joining, clients, frames, closed, hungUp, version, loop>>

(* The peer is gone: the write fails and the writer closes the client. *)
WriteFails(c) ==
  /\ c \notin closed /\ c \in hungUp /\ writing[c] # <<>>
  /\ closed' = closed \cup {c}
  /\ UNCHANGED <<connections, joining, clients, frames, writing, hungUp, version, view, loop>>

HangUp(c) ==
  /\ c \in backlog \cup accepting \cup ToSet(joining) \cup clients /\ c \notin hungUp
  /\ hungUp' = hungUp \cup {c}
  /\ UNCHANGED <<connections, joining, clients, frames, writing, closed, version, view, loop>>

(***************************************************************************)
(* The capture loop.                                                       *)
(***************************************************************************)

(* A tick: changes are detected, the waiting clients adopted.  They get the *)
(* snapshot; then every client gets the summary, when one is due, and the   *)
(* changes.  Without clients nothing is sent.                               *)
Tick(n, stats) ==
  LET adopted == clients \cup ToSet(joining) IN
  /\ loop.pc = "idle" /\ listening
  /\ version + n <= MaxVersion
  /\ version' = version + n
  /\ clients' = adopted /\ joining' = <<>>
  /\ loop' = IF adopted = {} THEN IdleLoop
             ELSE [pc |-> "busy", to |-> ToSet(joining),
                   script |-> <<Snapshot(version + n)>> \o (IF stats THEN <<Stats>> ELSE <<>>)
                              \o [i \in 1..n |-> Change(version + i)]]
  /\ UNCHANGED <<connections, frames, writing, closed, hungUp, view>>

(* The loop turns to the next frame of its tick, for all clients. *)
NextFrame ==
  /\ loop.pc = "busy" /\ loop.to = {}
  /\ loop' = IF Len(loop.script) = 1 THEN IdleLoop
             ELSE [loop EXCEPT !.script = Tail(@), !.to = clients]
  /\ UNCHANGED <<connections, joining, clients, frames, writing, closed, hungUp, version, view>>

room(c) == c \notin closed /\ Len(frames[c]) < Buffer

(* offer queues the frame or, when the client is closing or has fallen too  *)
(* far behind, the loop drops it.                                           *)
OfferBlocking(c) ==             \* mutant: the send waits for the writer
  /\ c \in loop.to /\ room(c)
  /\ loop' = [loop EXCEPT !.to = @ \ {c}]
  /\ frames' = [frames EXCEPT ![c] = Append(@, Head(loop.script))]
  /\ UNCHANGED <<connections, joining, clients, writing, closed, hungUp, version, view>>
OfferLossy(c) ==                \* mutant: a frame without room is skipped
  /\ c \in loop.to
  /\ loop' = [loop EXCEPT !.to = @ \ {c}]
  /\ frames' = IF room(c) THEN [frames EXCEPT ![c] = Append(@, Head(loop.script))] ELSE frames
  /\ UNCHANGED <<connections, joining, clients, writing, closed, hungUp, version, view>>
Offer(c) ==
  /\ c \in loop.to
  /\ loop' = [loop EXCEPT !.to = @ \ {c}]
  /\ IF room(c)
     THEN /\ frames' = [frames EXCEPT ![c] = Append(@, Head(loop.script))]
          /\ UNCHANGED <<clients, closed>>
     ELSE /\ clients' = clients \ {c} /\ closed' = closed \cup {c}
          /\ UNCHANGED frames
  /\ UNCHANGED <<connections, joining, writing, hungUp, version, view>>

(* close, when the loop has ended: the listener first, then the clients not *)
(* yet adopted, then the others.                                            *)
StopListening ==
  /\ loop.pc = "idle" /\ listening
  /\ listening' = FALSE /\ backlog' = {} /\ closed' = closed \cup backlog
  /\ UNCHANGED <<accepting, joining, clients, frames, writing, hungUp, version, view, loop>>
CloseClients ==
  /\ loop.pc = "idle" /\ ~listening
  /\ closed' = closed \cup ToSet(joining) \cup clients
  /\ joining' = <<>> /\ clients' = {}
  /\ loop' = [IdleLoop EXCEPT !.pc = "done"]
  /\ UNCHANGED <<connections, frames, writing, hungUp, version, view>>

Init ==
  /\ listening = TRUE /\ backlog = {} /\ accepting = NoClient
  /\ joining = <<>> /\ clients = {} /\ closed = {} /\ hungUp = {}
  /\ frames = [c \in Client |-> <<>>] /\ writing = frames
  /\ version = 0 /\ view = [c \in Client |-> NoView]
  /\ loop = IdleLoop

Ticks == \E n \in 0..MaxTick, stats \in BOOLEAN : Tick(n, stats)
Send == NextFrame \/ \E c \in Client : Offer(c)
Writer(c) == Take(c) \/ Write(c) \/ WriteFails(c)

Next ==
  \/ \E c \in Client : Dial(c) \/ Accept(c) \/ Join(c) \/ HangUp(c)
  \/ \E c \in Client : Writer(c)
  \/ Ticks \/ Send
  \/ StopListening \/ CloseClients

(* The loop goroutine runs.  Nothing is assumed of the peers. *)
Spec == Init /\ [][Next]_vars /\ WF_vars(Send)

(* Every goroutine runs, the ticker fires, and every peer keeps reading. *)
AllRun ==
  /\ WF_vars(Ticks)
  /\ \A c \in Client : WF_vars(Join(c)) /\ WF_vars(Writer(c))

(***************************************************************************)
(* Properties.                                                             *)
(***************************************************************************)

(* The subscription protocol: whatever the buffers, the drops and the       *)
(* disconnects do, the frames a peer got are a snapshot followed by every   *)
(* later change in order (greet, broadcast, writeLoop).                     *)
S == INSTANCE Subscription WITH ended <- closed
Subscribed == S!Spec

(* A peer that stops reading never stalls the capture loop: a tick that     *)
(* started ends without the help of any writer or peer.                     *)
LoopNeverStalls == loop.pc = "busy" ~> loop.pc # "busy"

(* While all goroutines run, a connection that reached the program is       *)
(* served until it is closed: it gets every version, unless it falls        *)
(* behind, is refused, hangs up or the program ends.                        *)
Served == AllRun =>
  \A c \in Client, v \in 0..MaxVersion :
    (version = v /\ c \in accepting \cup ToSet(joining) \cup clients)
      ~> (view[c] >= v \/ c \in closed \cup hungUp \/ ~listening)
=============================================================================
