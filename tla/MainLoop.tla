------------------------------ MODULE MainLoop ------------------------------
(***************************************************************************)
(* The goroutines of a run (internal/app: Run of app_linux.go, streamWriter *)
(* of stream_output.go; capture: Socket.Run; the reader goroutines of the   *)
(* probes): capture sockets hand ring blocks to the main loop, probe        *)
(* readers send it events, it writes rows to the output, and all of them    *)
(* have to come to an end, after a signal, a quit key or an error.          *)
(*                                                                         *)
(* What the handlers do with a message is left to the modules of the parts; *)
(* here they only take it.  A row is a number.                              *)
(***************************************************************************)
EXTENDS Naturals, Sequences, FiniteSets

CONSTANTS
  Capture,   \* capture sockets, one per interface
  Probe,     \* probe readers
  Fatal,     \* those whose error ends the run
  Blocking,  \* those that wait for the loop to take what they send
  ChanSize,  \* what the channel of a probe holds
  Rows,      \* streamOutputBuffer
  MaxSent,   \* bound: messages of a probe
  MaxRows    \* bound: rows written

ASSUME SourcesAssumption == "packets" \notin Probe
ASSUME SizesAssumption == ChanSize \in Nat /\ MaxSent \in Nat /\ MaxRows \in Nat

VARIABLES
  cancelled,  \* ctx is done
  capture,    \* where Run of each socket is
  mapped,     \* sockets whose ring is mapped
  packets,    \* the packets channel: whose block
  packetErrors,
  probe,      \* where each reader is
  queue,      \* messages in the channel of each reader
  failed,     \* readers that reported an error
  sent,
  open,       \* the channels the loop still selects from
  loop,       \* where the loop is, and whose block it is working on
  frames, writer, written, accepted  \* the writer: its channel, where it is, rows done and taken

rvars == <<cancelled, capture, mapped, packets, packetErrors, probe, queue, failed, sent,
          open, loop, frames, writer, written, accepted>>
sources == <<capture, packets, packetErrors, probe, queue, failed, sent>>
output == <<frames, writer, written, accepted>>

Ended == \A s \in Capture : capture[s] = "stopped"   \* captureWG

(***************************************************************************)
(* Socket.Run.                                                             *)
(***************************************************************************)
captures == <<cancelled, mapped, probe, queue, failed, sent, open, loop, output>>

BlockReady(s) ==
  /\ capture[s] = "read" /\ ~cancelled
  /\ capture' = [capture EXCEPT ![s] = "offer"]
  /\ UNCHANGED <<packets, packetErrors, captures>>
Offer(s) ==
  /\ capture[s] = "offer" /\ Len(packets) < Cardinality(Capture)
  /\ packets' = Append(packets, s)
  /\ capture' = [capture EXCEPT ![s] = "held"]
  /\ UNCHANGED <<packetErrors, captures>>
(* The interface went away: the error is sent, or ctx is done first. *)
CaptureFails(s) ==
  /\ capture[s] = "read" /\ Len(packetErrors) < Cardinality(Capture)
  /\ packetErrors' = Append(packetErrors, s)
  /\ capture' = [capture EXCEPT ![s] = "stopped"]
  /\ UNCHANGED <<packets, captures>>
seesCancelReading(s) == capture[s] \in {"read", "offer"}   \* mutant: a release is awaited for ever
seesCancel(s) == capture[s] \in {"read", "offer", "held"}
CaptureStops(s) ==
  /\ cancelled /\ seesCancel(s)
  /\ capture' = [capture EXCEPT ![s] = "stopped"]
  /\ UNCHANGED <<packets, packetErrors, captures>>

(***************************************************************************)
(* A probe reader: a message that finds the channel full is dropped, unless *)
(* the reader waits.                                                       *)
(***************************************************************************)
readers == <<cancelled, capture, mapped, packets, packetErrors, open, loop, output>>

Send(p) ==
  /\ probe[p] = "read" /\ sent[p] < MaxSent
  /\ p \in Blocking => queue[p] < ChanSize
  /\ sent' = [sent EXCEPT ![p] = @ + 1]
  /\ queue' = [queue EXCEPT ![p] = IF @ < ChanSize THEN @ + 1 ELSE @]
  /\ UNCHANGED <<probe, failed, readers>>
ReaderFails(p) ==
  /\ probe[p] = "read" /\ p \notin Blocking
  /\ failed' = failed \cup {p}
  /\ probe' = [probe EXCEPT ![p] = "ended"]
  /\ UNCHANGED <<queue, sent, readers>>
(* The drop probe sends what is left, with the loop there to take it. *)
LastBatch(p) ==
  /\ probe[p] = "read" /\ cancelled /\ p \in Blocking /\ queue[p] < ChanSize
  /\ queue' = [queue EXCEPT ![p] = @ + 1]
  /\ probe' = [probe EXCEPT ![p] = "ended"]
  /\ UNCHANGED <<failed, sent, readers>>
ReaderStops(p) ==
  /\ probe[p] = "read" /\ cancelled
  /\ probe' = [probe EXCEPT ![p] = "ended"]
  /\ UNCHANGED <<queue, failed, sent, readers>>

(***************************************************************************)
(* The main loop.                                                          *)
(***************************************************************************)
Selecting == loop.pc = "select" /\ open # {}
return == loop' = [loop EXCEPT !.pc = "close", !.of = {}]

TakeBatch ==
  /\ Selecting /\ "packets" \in open /\ packets # <<>>
  /\ loop' = [loop EXCEPT !.pc = "batch", !.of = {Head(packets)}]
  /\ packets' = Tail(packets)
  /\ UNCHANGED <<cancelled, mapped, capture, packetErrors, probe, queue, failed, sent, open, output>>
(* Release: a reader that saw ctx done is not there to take it. *)
ReleaseBatch ==
  /\ loop.pc = "batch"
  /\ loop' = [loop EXCEPT !.pc = "select", !.of = {}]
  /\ capture' = [s \in Capture |->
                   IF s \in loop.of /\ capture[s] = "held" THEN "read" ELSE capture[s]]
  /\ UNCHANGED <<cancelled, mapped, packets, packetErrors, probe, queue, failed, sent, open, output>>
TakeMessage(p) ==
  /\ Selecting /\ p \in open /\ queue[p] > 0
  /\ queue' = [queue EXCEPT ![p] = @ - 1]
  /\ UNCHANGED <<cancelled, capture, mapped, packets, packetErrors, probe, failed, sent, open, loop, output>>
SeeClosed ==
  /\ Selecting
  /\ \/ Ended /\ packets = <<>> /\ open' = open \ {"packets"}
     \/ \E p \in Probe : probe[p] = "ended" /\ queue[p] = 0 /\ open' = open \ {p}
  /\ open' # open
  /\ UNCHANGED <<cancelled, mapped, sources, loop, output>>
SeeError ==
  /\ Selecting
  /\ packetErrors # <<>> \/ failed \cap Fatal # {} \/ writer = "failed"
  /\ return
  /\ UNCHANGED <<cancelled, mapped, sources, open, output>>
Quit ==
  /\ Selecting /\ ~cancelled
  /\ cancelled' = TRUE
  /\ UNCHANGED <<mapped, sources, open, loop, output>>
(* A tick ends in rows for the output. *)
Tick ==
  /\ Selecting /\ ~cancelled /\ accepted < MaxRows
  /\ loop' = [loop EXCEPT !.pc = "write"]
  /\ UNCHANGED <<cancelled, mapped, sources, open, output>>
(* Write waits for the writer, which may wait for the output's reader. *)
Write ==
  /\ loop.pc = "write"
  /\ \/ /\ writer # "failed" /\ Len(frames) < Rows
        /\ frames' = Append(frames, accepted + 1) /\ accepted' = accepted + 1
        /\ loop' = [loop EXCEPT !.pc = "select"]
     \/ writer = "failed" /\ return /\ UNCHANGED <<frames, accepted>>
  /\ UNCHANGED <<cancelled, mapped, sources, open, writer, written>>

loopEndsEarly == "packets" \notin open   \* mutant: the packets decide alone
loopEnds == open = {}
Finish ==
  /\ loop.pc = "select" /\ loopEnds
  /\ loop' = [loop EXCEPT !.pc = "close", !.finished = TRUE]
  /\ UNCHANGED <<cancelled, mapped, sources, open, output>>

(* The deferred calls: the writer is closed, then the rings.  Sockets are    *)
(* closed only when no Run works with their ring.                            *)
CloseWriter ==
  /\ loop.pc = "close"
  /\ cancelled' = TRUE
  /\ loop' = [loop EXCEPT !.pc = "flush"]
  /\ UNCHANGED <<mapped, sources, open, output>>
flushed == writer \in {"done", "failed"}
Flushed ==
  /\ loop.pc = "flush" /\ flushed
  /\ loop' = [loop EXCEPT !.pc = "unmap"]
  /\ UNCHANGED <<cancelled, mapped, sources, open, output>>
runsEnded == Ended
CloseSockets ==
  /\ loop.pc = "unmap" /\ runsEnded
  /\ mapped' = {}
  /\ loop' = [loop EXCEPT !.pc = "exited"]
  /\ UNCHANGED <<cancelled, sources, open, output>>

(***************************************************************************)
(* The writer goroutine, its output, and signals.                          *)
(***************************************************************************)
WriterWrites ==
  /\ writer = "write" /\ frames # <<>>
  /\ written' = Append(written, Head(frames)) /\ frames' = Tail(frames)
  /\ UNCHANGED <<cancelled, mapped, sources, open, loop, writer, accepted>>
WriterFails ==
  /\ writer = "write" /\ frames # <<>>
  /\ writer' = "failed"
  /\ UNCHANGED <<cancelled, mapped, sources, open, loop, frames, written, accepted>>
WriterEnds ==
  /\ writer = "write" /\ frames = <<>> /\ loop.pc \in {"flush", "unmap", "exited"}
  /\ writer' = "done"
  /\ UNCHANGED <<cancelled, mapped, sources, open, loop, frames, written, accepted>>

Signal ==
  /\ ~cancelled /\ cancelled' = TRUE
  /\ UNCHANGED <<mapped, sources, open, loop, output>>

RunInit ==
  /\ cancelled = FALSE
  /\ capture = [s \in Capture |-> "read"] /\ mapped = Capture
  /\ packets = <<>> /\ packetErrors = <<>>
  /\ probe = [p \in Probe |-> "read"] /\ queue = [p \in Probe |-> 0] /\ sent = queue
  /\ failed = {} /\ open = Probe \cup {"packets"}
  /\ loop = [pc |-> "select", of |-> {}, finished |-> FALSE]
  /\ frames = <<>> /\ writer = "write" /\ written = <<>> /\ accepted = 0

CaptureGoes(s) == Offer(s) \/ CaptureStops(s)
ReaderGoes(p) == ReaderStops(p) \/ LastBatch(p)
LoopGoes ==
  \/ TakeBatch \/ ReleaseBatch \/ (\E p \in Probe : TakeMessage(p)) \/ SeeClosed \/ SeeError
  \/ Write \/ Finish \/ CloseWriter \/ Flushed \/ CloseSockets
WriterGoes == WriterWrites \/ WriterEnds

RunNext ==
  \/ \E s \in Capture : BlockReady(s) \/ CaptureGoes(s) \/ CaptureFails(s)
  \/ \E p \in Probe : Send(p) \/ ReaderFails(p) \/ ReaderGoes(p)
  \/ LoopGoes \/ Quit \/ Tick
  \/ WriterGoes \/ WriterFails
  \/ Signal
RunSpec == RunInit /\ [][RunNext]_rvars

(***************************************************************************)
(* Properties.                                                             *)
(***************************************************************************)

(* A ring is not unmapped while a Run reads it, nor while the loop works on  *)
(* packets that lie in it (Close, captureWG).                                *)
RingsKept == \A s \in Capture : capture[s] # "stopped" \/ s \in loop.of => s \in mapped

(* The final report is made when all that the sources handed over before     *)
(* they ended is in it (Run's loop condition).                               *)
Drained == loop.finished => packets = <<>> /\ \A p \in Probe : probe[p] = "ended" /\ queue[p] = 0

(* And when the program exits, the rows that Write took are written, in order,   *)
(* unless the output failed (streamWriter).                                  *)
RowsWritten ==
  /\ written = [i \in 1..Len(written) |-> i]
  /\ loop.pc = "exited" /\ writer # "failed" => Len(written) = accepted
Complete == RingsKept /\ Drained /\ RowsWritten

(* A signal, a quit key, an error of a source or of the output ends the      *)
(* program, as long as the output's reader reads.                            *)
Exits == (cancelled \/ loop.pc = "close") ~> loop.pc = "exited"
=============================================================================
