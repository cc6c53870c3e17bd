------------------------------ MODULE Recording ------------------------------
(* Recording to PCAPNG: the frames kept in memory by --record-before          *)
(* (frameHistory), the session that c starts and stops (captureSession), and  *)
(* the part of the capture loop that gives each frame to both, with the flow  *)
(* it finds for it.  One interface.  A flow object is <<key, generation>>;    *)
(* captured is the truth: every frame with the flow packetAt counted it in.   *)
EXTENDS Integers, SequencesExt, FiniteSetsExt
CONSTANTS
  Conns,         \* five-tuples; each belongs to the process of the same name
  Rest,          \* the key of fragments whose first fragment was not captured
  MaxAge, HistoryLimit,  \* --record-before and historyLimit, in ticks and bytes
  Duration, FileLimit,   \* recordingDuration and recordingLimit
  Frames,        \* <<five-tuple, kind, size>> of the frames that are captured; kinds are
                 \* "syn", "whole", and "first" and "later" of a fragmented packet
  Targets,       \* what c may be pressed on
  MaxFrames, MaxFlows, MaxNow   \* bounds of the model
VARIABLES
  flows,         \* key -> generation of the indexed flow object, 0 when none
  known,         \* flow objects whose process is known
  heads,         \* tuples whose first fragment is remembered (c.fragments)
  history,       \* frames kept, oldest first, with their flow
  recording,     \* the session
  captured, now
vars == <<flows, known, heads, history, recording, captured, now>>

Keys == Conns \cup {Rest}
None == <<>>
Flow(k, at) == IF at[k] = 0 THEN None ELSE <<k, at[k]>>

NoSession == [on |-> FALSE, flow |-> None, pid |-> None, until |-> 0, bytes |-> 0, file |-> <<>>,
              began |-> 0, after |-> 0, knew |-> {}]
Bytes(frames) == FoldLeft(LAMBDA sum, f : sum + f.size, 0, frames)

trimToLess(frames, t) ==
  LET keeps(k) == LET rest == SubSeq(frames, k, Len(frames))
                  IN  rest = <<>> \/ (Bytes(rest) <= HistoryLimit /\ t - rest[1].at < MaxAge)
  IN  SubSeq(frames, Min({k \in 1..Len(frames) + 1 : keeps(k)}), Len(frames))
(* trim: the frames too old at time t go, and the oldest beyond the limit.    *)
trim(frames, t) ==
  LET keeps(k) == LET rest == SubSeq(frames, k, Len(frames))
                  IN  rest = <<>> \/ (Bytes(rest) <= HistoryLimit /\ t - rest[1].at <= MaxAge)
  IN  SubSeq(frames, Min({k \in 1..Len(frames) + 1 : keeps(k)}), Len(frames))
add(frame) == IF frame.flow = None THEN history ELSE trim(Append(history, frame), frame.at)

(* What a session takes: the frames of its flow, or of the flows whose        *)
(* process is known to be its own.                                            *)
takes(s, f, processes) ==
  /\ f # None
  /\ s.flow # None => f = s.flow
  /\ s.pid # None => f \in processes /\ <<f[1]>> = s.pid

(* Write: a frame beyond the size limit ends the recording.                   *)
Write(s, frame, processes) ==
  IF ~s.on \/ ~takes(s, frame.flow, processes) THEN s
  ELSE IF s.bytes + frame.size > FileLimit THEN [s EXCEPT !.on = FALSE]
  ELSE [s EXCEPT !.bytes = @ + frame.size, !.file = Append(@, frame.n)]

(* packetAt: a SYN with another number opens another flow of its tuple, a     *)
(* full table turns a new flow away, and a later fragment goes to the flow of *)
(* its first.                                                                 *)
joined(c, kind) == IF kind = "later" /\ c \notin heads THEN Rest ELSE c
(* packetKey of the frame the loop holds, to which joinFragment did nothing.  *)
unjoined(c, kind) == IF kind = "later" THEN Rest ELSE c

Frame(c, kind, size, indexed) ==
  LET key == joined(c, kind)
      opens == flows[key] = 0 \/ kind = "syn"
      generation == 1 + Max({0} \cup {captured[n].flow[2] : n \in {m \in DOMAIN captured :
                                       captured[m].flow # None /\ captured[m].flow[1] = key}})
      after == IF ~opens THEN flows ELSE [flows EXCEPT ![key] = IF indexed THEN generation ELSE 0]
      frame == [n |-> Len(captured) + 1, size |-> size, at |-> now, flow |-> Flow(unjoined(c, kind), after)]
  IN  /\ Len(captured) < MaxFrames
      /\ ~opens => indexed
      /\ opens => generation <= MaxFlows
      /\ flows' = after
      /\ heads' = IF kind = "first" THEN heads \cup {c} ELSE heads
      /\ captured' = Append(captured, [size |-> size, at |-> now, kind |-> kind, flow |-> Flow(key, after), knew |-> known])
      /\ recording' = Write(recording, frame, known)
      /\ history' = add(frame)
      /\ UNCHANGED <<known, now>>

(* eventAt: the process of a flow becomes known.                              *)
Attribute(k) ==
  /\ flows[k] # 0
  /\ known' = known \cup {<<k, flows[k]>>}
  /\ UNCHANGED <<flows, heads, history, recording, captured, now>>

(* evict, expire: the flow leaves the table; a later frame opens another.     *)
Leave(k) ==
  /\ flows[k] # 0
  /\ flows' = [flows EXCEPT ![k] = 0]
  /\ UNCHANGED <<known, heads, history, recording, captured, now>>

(* The tick: an expired recording stops, the history is trimmed, and after    *)
(* fragmentTTL, longer than a recording, the first fragments are forgotten.   *)
Tick ==
  /\ now < MaxNow
  /\ now' = now + 1
  /\ recording' = [recording EXCEPT !.on = @ /\ now' < recording.until]
  /\ history' = trim(history, now')
  /\ heads' \in {heads, {}}
  /\ UNCHANGED <<flows, known, captured>>

(* c: a recording stops; or one of a flow that is still in the table, or of a *)
(* process, starts with the frames kept (startCapture).                       *)
session(flow, pid) ==
  [NoSession EXCEPT !.on = TRUE, !.flow = flow, !.pid = pid, !.until = now + Duration,
                    !.began = now, !.after = Len(captured), !.knew = known]
Start(s) ==
  /\ recording = NoSession   \* one recording in a behaviour
  /\ recording' = FoldLeft(LAMBDA r, frame : Write(r, frame, known), s, history)
  /\ UNCHANGED <<flows, known, heads, history, captured, now>>
StartFlow(k) == flows[k] # 0 /\ Start(session(<<k, flows[k]>>, None))
StartPID(c) == Start(session(None, <<c>>))
Stop ==
  /\ recording.on
  /\ recording' = [recording EXCEPT !.on = FALSE]
  /\ UNCHANGED <<flows, known, heads, history, captured, now>>

Init ==
  /\ flows = [k \in Keys |-> 0] /\ known = {} /\ heads = {}
  /\ history = <<>> /\ recording = NoSession /\ captured = <<>> /\ now = 0
Next ==
  \/ \E f \in Frames, indexed \in BOOLEAN : Frame(f[1], f[2], f[3], indexed)
  \/ \E c \in Conns \cap Targets : StartFlow(c) \/ StartPID(c) \/ Attribute(c)
  \/ \E k \in Keys \cap Targets : Leave(k)
  \/ Tick \/ Stop

------------------------------------------------------------------------------
(* The frames the file should hold: of the target, from the oldest that       *)
(* --record-before promises, each judged when it is written.                  *)
Kept(n) ==
  /\ recording.began - captured[n].at <= MaxAge
  /\ Bytes(SubSeq(captured, n, recording.after)) <= HistoryLimit
Wanted == {n \in DOMAIN captured :
  /\ n > recording.after \/ Kept(n)
  /\ takes(recording, captured[n].flow, IF n > recording.after THEN captured[n].knew ELSE recording.knew)}
FileHolds(frames) ==
  LET file == recording.file
      ended(n) == ~recording.on /\ (file = <<>> \/ n > Last(file))
  IN  /\ \A i \in 1..Len(file) - 1 : file[i] < file[i + 1]
      /\ \A n \in Wanted \cap frames : n \in ToSet(file) \/ ended(n)
      /\ \A n \in ToSet(file) \cap frames : captured[n].flow # None /\ (recording.flow # None => captured[n].flow = recording.flow)

(* The file has the frames of the chosen connection or process, in order, each*)
(* once and without a gap, from the oldest kept to where the recording ends,  *)
(* and none of another generation of the tuple (Write, frameHistory, Run).    *)
TargetRecorded == FileHolds({n \in DOMAIN captured : captured[n].kind # "later"})

(* Later fragments belong to the flow of their first fragment and are         *)
(* recorded with it (Run looks the flow up with the key of its own copy).     *)
FragmentsRecorded == FileHolds(DOMAIN captured)
=============================================================================
