--------------------------------- MODULE Host ---------------------------------
(***************************************************************************)
(* The two probes that name a connection from within the host, side by      *)
(* side: the first bytes of its socket (SocketStream) and the name its TLS   *)
(* library has (TLSProbe); of what is shown, the trends of rows (Trends), the *)
(* rates of processes (Rates) and the screen (Screen); and what is recorded   *)
(* (Recording).  They share no state.                                       *)
(***************************************************************************)
EXTENDS SocketStream

CONSTANTS Threads, SSLs, BIOs, Fds, Names, MaxTLSSockets,
  Rows, Totals, Largest, Seconds, TrendRows, Stale, Widths, Gaps, MaxTicks,
  Processes, Namespaces, Reports, IdleFor, Space, MaxSamples, MaxTotal,
  Interfaces, Height, Visible,
  Conns, Rest, MaxAge, HistoryLimit, Duration, FileLimit, Frames, Targets, MaxFrames, MaxFlows, MaxTime
VARIABLES
  T_socket, T_opened, bio, ssl, thread, T_calls, bio_calls, active_connects, ssl_states, bio_fds,
  event,
  rings, unused, tick, pass, todo, shown, past, last, before,
  pidIO, pidSeen, interface, pidPrevious, pidRates, lastSample, V_now, grown, of,
  u, table, conns, U_recording, input,
  flows, flowsKnown, heads, history, R_recording, R_captured, R_now

T == INSTANCE TLSProbe WITH MaxSockets <- MaxTLSSockets,
  socket <- T_socket, opened <- T_opened, calls <- T_calls
tvars == <<T_socket, T_opened, bio, ssl, thread, T_calls, bio_calls, active_connects, ssl_states,
           bio_fds, event>>

M == INSTANCE Trends WITH MaxNow <- MaxTicks, now <- tick
trends == <<rings, unused, tick, pass, todo, shown, past, last, before>>

V == INSTANCE Rates WITH Sizes <- Reports, Idle <- IdleFor, MaxNow <- MaxSamples,
  shown <- interface, now <- V_now
rates == <<pidIO, pidSeen, interface, pidPrevious, pidRates, lastSample, V_now, grown, of>>

U == INSTANCE Screen WITH recording <- U_recording
screen == <<u, table, conns, U_recording, input>>

R == INSTANCE Recording WITH MaxNow <- MaxTime,
  known <- flowsKnown, recording <- R_recording, captured <- R_captured, now <- R_now
recordings == <<flows, flowsKnown, heads, history, R_recording, R_captured, R_now>>

(* A ring has at least one sample, samples are numbers, and a table has an end; *)
(* passes take place at different times, and a row is not stale at once.       *)
ASSUME TrendsAssumption ==
  /\ Seconds \in Nat \ {0} /\ Largest \in Nat /\ Totals \subseteq Nat /\ IsFiniteSet(Rows)
  /\ TrendRows \in Nat /\ Stale \in Nat \ {0} /\ Gaps \subseteq Nat \ {0}
  /\ Widths \subseteq Nat \ {0}

(* The totals of a process do not reach what counters wrap at, 2^64.           *)
ASSUME RatesAssumption ==
  /\ Space \in Nat /\ MaxTotal \in Nat /\ MaxTotal < Space
  /\ Reports \subseteq Nat /\ IdleFor \in Nat /\ MaxSamples \in Nat

HostInit == Init /\ T!Init /\ M!Init
HostNext ==
  \/ Next /\ UNCHANGED <<tvars, trends>>
  \/ T!Next /\ UNCHANGED <<vars, trends>>
  \/ M!Next /\ UNCHANGED <<vars, tvars>>
HostSpec == HostInit /\ [][HostNext]_<<vars, tvars, trends>>
RatesSpec == V!Init /\ [][V!Next]_rates

(* What the OpenSSL probe says of a socket is the name its SSL has, although  *)
(* pointers and descriptors are used again (openssl.bpf.c).                   *)
EventsAreRight == T!EventsAreRight

(* The ring of a row has its last samples, and the curves drawn of it show    *)
(* them (trendRing, sparkn, sparkWindow of trend.go).                         *)
ShowsHistory == M!RingsAreHistory /\ M!CurvesShowHistory

(* Rings are bounded and kept for rows that were shown lately; and the rates   *)
(* of processes are what they transferred, whatever was forgotten in between   *)
(* (trendStore, sampleAll).                                                   *)
TrendsKept == [][M!kept]_trends /\ [][V!ratesAreGrowth]_rates

(* The highlight stays with its row and connection while they move, and a     *)
(* step or a click goes to what was drawn there (selectMain, render).         *)
HighlightFollows == [][U!followed]_screen

(* A recording has the frames of its target, in order, each once and without  *)
(* a gap (frameHistory, captureSession.Write).                               *)
TargetRecorded == R!TargetRecorded
=============================================================================
