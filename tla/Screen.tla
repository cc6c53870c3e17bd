------------------------------- MODULE Screen -------------------------------
(* The terminal interface (ui.go): pages, scope, filter line and overlays, a  *)
(* table of rows with a cursor, the connections of the selected row with      *)
(* another, the keys and the mouse, and what c records.                       *)
(*                                                                            *)
(* The table changes between two drawings when one interface's live           *)
(* collector is shown; the merged host view changes only in the tick that     *)
(* draws it.  A row is <<page, name>>, a connection <<name, number>>.  Sorting *)
(* and filtering choose the order, which is free here.                        *)
EXTENDS Naturals, Sequences, SequencesExt
CONSTANTS Interfaces, \* number of capture interfaces
  Height, Visible     \* lines of the table and of the list below it
VARIABLES
  u,          \* terminalUI
  table,      \* names of the rows as they are now, in order
  conns,      \* by name: numbers of its connections, in order
  recording,  \* on, and after c what it chose and what was highlighted
  input       \* history: the last input
vars == <<u, table, conns, recording, input>>

None == <<>>
lesser(a, b) == IF a < b THEN a ELSE b
Clamp(i, n) == IF n = 0 \/ i < 0 THEN 0 ELSE lesser(i, n - 1) \* 0-based
Pages == <<"PID", "SOURCE", "TARGET", "PROTOCOL", "SERVICES", "LOG", "PORTS", "DOMAINS", "INTERFACES">>
topTabKeys == <<"1", "2", "3", "4", "5", "6", "7", "d", "0", "a", "i">>
topPageIndex(mode) == (CHOOSE i \in DOMAIN Pages : Pages[i] = mode) - 1

(* What the current page lists and what is below a row of it.                 *)
rows(mode, now) ==
  IF mode = "INTERFACES" THEN [i \in 1..Interfaces |-> <<mode, i>>] ELSE [i \in DOMAIN now |-> <<mode, now[i]>>]
flowsOf(row, now) == IF row[2] \in DOMAIN now THEN [i \in DOMAIN now[row[2]] |-> <<row[2], now[row[2]][i]>>] ELSE <<>>

(* ---- render ---- *)
rowAtPlace(v, ids) == \* mutant: the cursor keeps its line
  LET at == Clamp(v.selected, Len(ids)) IN
  [v EXCEPT !.selected = at, !.group = IF ids # <<>> THEN ids[at + 1] ELSE None, !.labels = ids,
            !.scroll = IF at < @ THEN at ELSE IF at >= @ + Height THEN at - Height + 1 ELSE @]
rowOutOfView(v, ids) == \* mutant: the table does not scroll with the cursor
  LET found == v.group # None /\ v.group \in ToSet(ids)
      at == IF found THEN (CHOOSE i \in DOMAIN ids : ids[i] = v.group) - 1 ELSE Clamp(v.selected, Len(ids)) IN
  [v EXCEPT !.selected = at, !.group = IF ids # <<>> THEN ids[at + 1] ELSE None, !.labels = ids]
selectRow(v, ids) == \* the row keeps its identity, or the cursor its place
  LET found == v.group # None /\ v.group \in ToSet(ids)
      at == IF found THEN (CHOOSE i \in DOMAIN ids : ids[i] = v.group) - 1 ELSE Clamp(v.selected, Len(ids)) IN
  [v EXCEPT !.selected = at,
            !.flowRef = IF v.group = None \/ found THEN @ ELSE None,
            !.group = IF ids # <<>> THEN ids[at + 1] ELSE None,
            !.labels = ids,
            !.scroll = IF at < @ THEN at ELSE IF at >= @ + Height THEN at - Height + 1 ELSE @]
ofRow(v) == \* another row than the one whose details were shown last
  IF v.group = v.detailOf THEN v ELSE [v EXCEPT !.detailOf = v.group, !.sFlow = 0, !.flowRef = None]
selectFlow(v, list) ==
  LET at == IF v.flowRef # None /\ v.flowRef \in ToSet(list)
            THEN (CHOOSE i \in DOMAIN list : list[i] = v.flowRef) - 1 ELSE Clamp(v.sFlow, Len(list)) IN
  [v EXCEPT !.sFlow = at, !.flowRef = list[at + 1], !.flowOrder = list,
            !.shown = [row |-> v.group, flow |-> list[at + 1],
                       start |-> IF at >= Visible THEN at - Visible + 1 ELSE 0]]
renderBottom(v, list) ==
  IF v.labels = <<>> THEN [v EXCEPT !.shown = [row |-> None, flow |-> None, start |-> 0]]
  ELSE LET w == ofRow(v) IN
       IF list = <<>> THEN [w EXCEPT !.shown = [row |-> v.group, flow |-> None, start |-> 0]]
       ELSE selectFlow(w, list)
render(v, now, below) ==
  LET w == selectRow(v, rows(v.mode, now)) IN
  IF w.overlay # "" THEN [w EXCEPT !.shown = [row |-> w.group, flow |-> None, start |-> 0]]
  ELSE renderBottom(w, IF w.group = None THEN <<>> ELSE flowsOf(w.group, below))

(* ---- handleKey: the pages ---- *)
top(v) == [v EXCEPT !.selected = 0, !.scroll = 0, !.sFlow = 0, !.focus = FALSE, !.group = None, !.flowRef = None]
leaveInterfaces(v) == \* the overview's pages, where the interface page came from
  IF v.mode = "INTERFACES" THEN [v EXCEPT !.hostScope = TRUE, !.mode = v.returnMode] ELSE v
tabAt(v, index) == [v EXCEPT !.topTab = index]

pressInterfaces(v) ==
  LET w == IF v.mode = "INTERFACES" THEN leaveInterfaces(v) ELSE [v EXCEPT !.returnMode = v.mode, !.mode = "INTERFACES"] IN
  tabAt(top(w), topPageIndex(w.mode))
pressNextInterface(v) ==
  IF Interfaces < 2 \/ v.mode \in {"LOG", "PORTS"} THEN v
  ELSE LET next == IF ~v.hostScope \/ v.mode = "INTERFACES" THEN (v.interface % Interfaces) + 1 ELSE v.interface
           w == tabAt(top([v EXCEPT !.interface = next, !.hostScope = FALSE]), 10) IN
       IF w.mode = "INTERFACES" THEN [w EXCEPT !.group = <<"INTERFACES", next>>] ELSE w
pressOverview(v) == tabAt(top([leaveInterfaces(v) EXCEPT !.hostScope = TRUE]), 9)
pressPage(v, index) ==
  LET page == Pages[index + 1] IN
  tabAt(top([v EXCEPT !.mode = page, !.hostScope = @ \/ v.mode = "INTERFACES" \/ page \in {"LOG", "PORTS"}]), index)
pressDomains(v) ==
  LET w == leaveInterfaces(v)
      x == IF w.mode = "DOMAINS" THEN [w EXCEPT !.mode = w.previousMode]
           ELSE [w EXCEPT !.previousMode = w.mode, !.mode = "DOMAINS"] IN
  tabAt(top(x), topPageIndex(x.mode))
pressGroup(v) == IF v.mode \in {"SERVICES", "LOG"} THEN top(v) ELSE v
pressEscape(v) ==
  LET w == IF v.focus THEN [v EXCEPT !.focus = FALSE]
           ELSE IF v.mode = "INTERFACES" THEN leaveInterfaces(v)
           ELSE IF v.mode = "DOMAINS" THEN [v EXCEPT !.mode = v.previousMode]
           ELSE IF v.filter # "" THEN [v EXCEPT !.filter = ""]
           ELSE [v EXCEPT !.hostScope = TRUE] IN
  tabAt(w, topPageIndex(w.mode))
skipped(v, key) ==
  \/ key = "a" /\ v.hostScope /\ v.mode # "INTERFACES"
  \/ key = "i" /\ (Interfaces < 2 \/ v.mode \in {"LOG", "PORTS"})
topTabKey(v, direction) == \* direction 1 or 10, which is one back
  LET index(step) == (v.topTab + direction * step) % 11
      step == CHOOSE s \in 1..11 : ~skipped(v, topTabKeys[index(s) + 1])
                                   /\ \A t \in 1..(s - 1) : skipped(v, topTabKeys[index(t) + 1]) IN
  topTabKeys[index(step) + 1]

(* ---- handleKey: the cursors ---- *)
selectMain(v, index) ==
  IF v.labels = <<>> THEN [v EXCEPT !.selected = IF index < 0 THEN 0 ELSE index]
  ELSE LET i == Clamp(index, Len(v.labels)) IN
       [v EXCEPT !.selected = i, !.group = v.labels[i + 1], !.sFlow = 0, !.flowRef = None]
rememberFlow(v) ==
  IF v.flowOrder = <<>> THEN v
  ELSE LET i == Clamp(v.sFlow, Len(v.flowOrder)) IN [v EXCEPT !.sFlow = i, !.flowRef = v.flowOrder[i + 1]]
bounded(v) == [v EXCEPT !.sFlow = lesser(@, 4), !.selected = lesser(@, 4)] \* without rows or flows they just count
move(v, delta) ==
  IF v.focus THEN bounded(rememberFlow([v EXCEPT !.sFlow = IF @ + delta < 0 THEN 0 ELSE @ + delta]))
  ELSE bounded(selectMain(v, v.selected + delta))
page(v, direction) ==
  IF v.focus THEN rememberFlow([v EXCEPT !.sFlow = Clamp(@ + direction * Visible, Len(v.flowOrder))])
  ELSE LET w == bounded(selectMain(v, v.selected + direction * Height)) IN
       [w EXCEPT !.scroll = IF Len(w.labels) <= Height THEN 0 ELSE lesser(w.selected, Len(w.labels) - Height)]
pressEnter(v) ==
  IF v.mode = "INTERFACES" /\ ~v.focus
  THEN LET w == [v EXCEPT !.interface = IF v.group # None /\ v.group[1] = "INTERFACES" THEN v.group[2] ELSE @,
                          !.hostScope = FALSE, !.mode = v.returnMode] IN
       tabAt([top(w) EXCEPT !.focus = v.focus], topPageIndex(w.mode))
  ELSE [v EXCEPT !.focus = ~@]

(* ---- the filter line and the overlays take keys first ---- *)
filterKey(v, key) ==
  LET w == CASE key = "enter" -> [v EXCEPT !.filtering = v.filter = "invalid"]
             [] key = "esc" -> [v EXCEPT !.filtering = FALSE, !.filter = ""]
             [] key \in {"valid", "invalid"} -> [v EXCEPT !.filter = key]
             [] OTHER -> v IN
  [w EXCEPT !.selected = 0, !.scroll = 0, !.group = None, !.flowRef = None]
pageKey(v, key) ==
  CASE key = "0" -> pressInterfaces(v) [] key = "i" -> pressNextInterface(v) [] key = "a" -> pressOverview(v)
    [] key = "d" -> pressDomains(v) [] key = "b" -> pressGroup(v)
    [] key \in {"1", "2", "3", "4", "5", "6", "7"} -> pressPage(v, (CHOOSE i \in 1..7 : topTabKeys[i] = key) - 1)
    [] OTHER -> v
handleKey(v, key) ==
  CASE v.filtering -> filterKey(v, key)
    [] ~v.filtering /\ v.overlay # "" -> IF v.overlay = "geo" /\ key \notin {"enter", "esc"} THEN v ELSE [v EXCEPT !.overlay = ""]
    [] OTHER ->
       CASE key = "esc" -> pressEscape(v) [] key = "enter" -> pressEnter(v)
         [] key = "up" -> move(v, -1) [] key = "down" -> move(v, 1)
         [] key = "pageup" -> page(v, -1) [] key = "pagedown" -> page(v, 1)
         [] key = "tab" -> IF v.focus THEN v ELSE pageKey(v, topTabKey(v, 1))
         [] key = "shift-tab" -> IF v.focus THEN v ELSE pageKey(v, topTabKey(v, 10))
         [] key = "/" -> [v EXCEPT !.filtering = TRUE]
         [] key \in {"help", "status", "geo"} -> [v EXCEPT !.overlay = key]
         [] OTHER -> pageKey(v, key)

(* ---- handleMouse, in the table and in the list below ---- *)
clickRow(v, line) ==
  LET index == v.scroll + line
      w == [v EXCEPT !.filtering = FALSE, !.overlay = ""] IN
  tabAt([(IF index < Len(rows(v.mode, table)) THEN selectMain(w, index) ELSE w) EXCEPT !.focus = FALSE], topPageIndex(v.mode))
clickFlow(v, line) ==
  LET w == [v EXCEPT !.filtering = FALSE, !.overlay = ""] IN
  IF v.shown.flow = None \/ v.shown.start + line >= Len(v.flowOrder) THEN w
  ELSE [rememberFlow([w EXCEPT !.sFlow = v.shown.start + line]) EXCEPT !.focus = TRUE]

(* ---- the main loop ---- *)
Init ==
  /\ table = <<>> /\ conns = <<>>
  /\ u = render([mode |-> "PID", previousMode |-> "PID", returnMode |-> "PID", hostScope |-> TRUE, interface |-> 1,
          topTab |-> 0, filtering |-> FALSE, filter |-> "", overlay |-> "",
          selected |-> 0, group |-> None, labels |-> <<>>, scroll |-> 0, focus |-> FALSE,
          detailOf |-> None, sFlow |-> 0, flowRef |-> None, flowOrder |-> <<>>,
          shown |-> [row |-> None, flow |-> None, start |-> 0]], <<>>, <<>>)
  /\ recording = [on |-> FALSE, chosen |-> None, shown |-> None] /\ input = <<"tick">>

settled == [recording EXCEPT !.chosen = None, !.shown = None]
(* A key, and the drawing that follows it.                                    *)
Key(key) ==
  /\ u' = render(handleKey(u, key), table, conns) /\ input' = <<IF key \in {"up", "down"} THEN key ELSE "key">>
  /\ recording' = settled /\ UNCHANGED <<table, conns>>
Click(where, line) ==
  /\ u.overlay # "geo"
  /\ u' = render(IF where = "row" THEN clickRow(u, line) ELSE clickFlow(u, line), table, conns)
  /\ input' = <<where, line>>
  /\ recording' = settled /\ UNCHANGED <<table, conns>>

(* Packets and events change what a live collector would show.                *)
Change(now, below) ==
  /\ ~u.hostScope
  /\ table' = now /\ conns' = below /\ input' = <<"change">> /\ recording' = settled /\ UNCHANGED u
(* Every second the host view is rebuilt and the screen drawn.                *)
Tick(now, below) ==
  /\ table' = now /\ conns' = below /\ u' = render(u, now, below) /\ input' = <<"tick">>
  /\ recording' = settled

(* c: on the PID page's table the PID of the selected row, else the selected  *)
(* connection, if there is one and its collector has it.                      *)
ToggleCapture ==
  LET ids == rows(u.mode, table)
      ofPID == u.mode = "PID" /\ ~u.focus
      chosen == IF ~ofPID THEN u.flowRef
                ELSE IF u.selected < Len(ids) THEN ids[u.selected + 1] ELSE None
      active == ofPID \/ (chosen # None /\ chosen \in ToSet(flowsOf(<<u.mode, chosen[1]>>, conns))) IN
  /\ ~u.filtering /\ u.overlay = "" /\ u.mode # "INTERFACES"
  /\ recording' = IF recording.on \/ chosen = None \/ ~active THEN [settled EXCEPT !.on = FALSE]
                  ELSE [on |-> TRUE, chosen |-> chosen, shown |-> IF ofPID THEN u.shown.row ELSE u.shown.flow]
  /\ u' = render(u, table, conns) /\ input' = <<"c">> /\ UNCHANGED <<table, conns>>

(* What is highlighted is in the table and in view, and the connection        *)
(* highlighted is one of the row's.                                           *)
InView ==
  /\ u.labels # <<>> => u.labels[u.selected + 1] = u.shown.row /\ u.selected \in u.scroll..(u.scroll + Height - 1)
  /\ u.shown.flow # None => u.flowOrder[u.sFlow + 1] = u.shown.flow /\ u.shown.flow[1] = u.shown.row[2]

(* The highlight stays with its row and its connection while they move, and a *)
(* click or a step goes to what the user saw there, however the table is      *)
(* ordered by then.                                                           *)
drawn == u.labels
seenAt(i) == drawn[IF i + 1 > Len(drawn) THEN Len(drawn) ELSE IF i < 0 THEN 1 ELSE i + 1]
goesTo(row) == row \in ToSet(rows(u.mode, table)') => u'.shown.row = row
followed ==
  /\ input' = <<"tick">> /\ u.shown.row # None =>
       /\ goesTo(u.shown.row)
       /\ (u.shown.flow # None /\ u'.shown.row = u.shown.row /\ u.shown.flow \in ToSet(flowsOf(u.shown.row, conns)'))
            => u'.shown.flow = u.shown.flow
  /\ (input' \in {<<"up">>, <<"down">>} /\ ~u.focus /\ ~u.filtering /\ u.overlay = "" /\ drawn # <<>>)
       => goesTo(seenAt(u.selected + (IF input' = <<"up">> THEN -1 ELSE 1)))
  /\ \A l \in 0..(Height - 1) :
       (input' = <<"row", l>> /\ u.scroll + l < Len(drawn) /\ u.scroll + l < Len(rows(u.mode, table)))
          => goesTo(drawn[u.scroll + l + 1])
HighlightFollows == [][followed]_vars

(* No page is a trap: Tab alone comes by every page and Escape alone ends at  *)
(* the overview, outside the domain and interface pages.                      *)
after(v, keys) == FoldLeft(handleKey, v, keys)
modesBy(v, key) ==
  {w.mode : w \in ToSet(FoldLeft(LAMBDA seen, i : Append(seen, handleKey(Last(seen), key)), <<v>>, [i \in 1..22 |-> i]))}
plain(v) == v.overlay = "" /\ ~v.filtering /\ ~v.focus
NoTrap ==
  plain(u) =>
    /\ \A key \in {"tab", "shift-tab"} : modesBy(u, key) = ToSet(Pages)
    /\ LET w == after(u, [i \in 1..5 |-> "esc"]) IN w.hostScope /\ w.mode \notin {"DOMAINS", "INTERFACES"} /\ w.filter = ""

(* c records what is highlighted (docs/user/ui-design.md:62).                 *)
RecordsTheHighlighted == recording.on /\ None \notin {recording.chosen, recording.shown} => recording.chosen = recording.shown
=============================================================================
