-------------------------------- MODULE MCHost --------------------------------
(* What a collector gets from the host's sockets, libraries and processes, and *)
(* what is recorded and shown of it.  They share no state here; part says     *)
(* which one a behaviour is about.                                           *)
EXTENDS Host
VARIABLES part,
  started, alive, parentOf, procs, cgroups, held

processes == <<started, alive, parentOf, procs, cgroups, held>>

(* Four processes, the fourth with the PID of the first; the first runs in a  *)
(* service of its own.                                                       *)
MCPID(p) == <<2, 3, 4, 2>>[p]
MCService(p) == <<"s", "t", "t", "t">>[p]
(* Frames of two connections, and a connection's in fragments.                *)
Whole == {<<"a", "syn", 1>>, <<"a", "whole", 1>>, <<"b", "whole", 1>>}
Fragmented == {<<"a", "first", 1>>, <<"a", "later", 1>>}

P == INSTANCE Processes WITH
  Procs <- 1..4, PID <- MCPID, Service <- MCService, MaxAncestors <- 3, MaxProcesses <- 3, Idle <- 0
F == INSTANCE Recording WITH Frames <- Fragmented, MaxNow <- MaxTime,
  known <- flowsKnown, recording <- R_recording, captured <- R_captured, now <- R_now

(* The keys and the tables that matter to pages, to rows and to connections.  *)
PageKeys == {"0", "i", "a", "d", "1", "6", "esc", "enter", "tab", "shift-tab", "/", "valid"}
RowKeys == {"up", "down", "pageup", "pagedown", "i", "a", "help", "geo"}
DetailKeys == {"up", "down", "i", "enter", "esc"}
Orders(n) == {s \in UNION {[1..k -> 1..n] : k \in 0..n} : \A i, j \in DOMAIN s : i # j => s[i] # s[j]}
Tables == Orders(3)
Below == Orders(2)
onScreen == part \in {"pages", "rows", "details"}
ScreenNext ==
  \/ part = "pages" /\ \E k \in PageKeys : U!Key(k)
  \/ part = "rows" /\ (\/ \E k \in RowKeys : U!Key(k)
                       \/ \E t \in Tables : U!Tick(t, <<>>) \/ U!Change(t, <<>>)
                       \/ \E l \in 0..1 : U!Click("row", l)
                       \/ U!ToggleCapture)
  \/ part = "details" /\ (\/ \E k \in DetailKeys : U!Key(k)
                          \/ \E t \in {<<1, 2>>, <<2, 1>>, <<2>>}, below \in Below :
                               U!Tick(t, <<below, <<>>>>) \/ U!Change(t, <<below, <<>>>>)
                          \/ \E l \in 0..1 : U!Click("row", l) \/ U!Click("flow", l)
                          \/ U!ToggleCapture)

(* A single row with any rates; or three rows of one, in any order.            *)
OneRow == [row : {"a"}, total : Totals]
TrendTables(some) == IF some = "trend" THEN {<<x>> : x \in OneRow} \cup {<<>>}
                     ELSE {t \in M!Table : \A i \in DOMAIN t : t[i].total = Largest + 1}
TrendNext ==
  /\ part \in {"trend", "trends"}
  /\ (\E t \in TrendTables(part) : M!Pass(t)) \/ M!Add \/ M!Sweep
  /\ part = "trends" => tick' < MaxTicks

Start(parts) ==
  /\ part \in parts
  /\ HostInit /\ P!Init /\ R!Init /\ U!Init /\ V!Init /\ interface = "m"
others == <<processes, recordings, screen, rates>>
MCNext ==
  \/ part = "sockets" /\ Next /\ UNCHANGED <<part, tvars, trends, others>>
  \/ part = "library" /\ T!Next /\ UNCHANGED <<part, vars, trends, others>>
  \/ TrendNext /\ UNCHANGED <<part, vars, tvars, others>>
  \/ UNCHANGED <<part, vars, tvars, trends>> /\
       \/ part = "processes" /\ P!Next /\ UNCHANGED <<recordings, screen, rates>>
       \/ part = "recordings" /\ R!Next /\ UNCHANGED <<processes, screen, rates>>
       \/ ScreenNext /\ UNCHANGED <<processes, recordings, rates>>
       \/ part = "rates" /\ V!Next /\ UNCHANGED <<processes, recordings, screen>>
all == <<part, vars, tvars, trends, others>>
MCSpec ==
  /\ Start({"sockets", "library", "processes", "recordings", "pages", "rows", "details",
            "trend", "trends", "rates"})
  /\ [][MCNext]_all
ScreenSpec == Start({"rows", "details"}) /\ [][MCNext]_all
FragmentsSpec == Start({"fragments"}) /\ [][F!Next /\ UNCHANGED <<part, vars, tvars, trends, processes, screen, rates>>]_all

(* Process trees and --pid hold after the ancestors exit (processTable).      *)
HoldsOnceTheyExit == part = "processes" => P!HoldsOnceTheyExit

(* Later fragments are recorded with the flow of their first (Run).           *)
FragmentsRecorded == part = "fragments" => F!FragmentsRecorded

(* What is highlighted is in view and the details are its own; and no page is *)
(* a trap: Tab alone comes by every page and Escape alone ends at the         *)
(* overview (handleKey, render).                                             *)
InView == (onScreen => U!InView) /\ (part = "pages" => U!NoTrap)

(* c records what is highlighted (Run).                                       *)
RecordsTheHighlighted == onScreen => U!RecordsTheHighlighted
=============================================================================
