------------------------------ MODULE HostView ------------------------------
(***************************************************************************)
(* The connections of the whole host (internal/app: host_view_linux.go,    *)
(* changes.go).  Every second, collect groups the observations that the    *)
(* interfaces have of one connection and merges each group into a          *)
(* snapshot; updateAt gives the snapshot the id its observations had,      *)
(* records final snapshots in a bounded ring and counts what left; then    *)
(* detectChanges says what is new, different or over.                      *)
(*                                                                         *)
(* The snapshots are objects that displayed, history and the merge share   *)
(* by pointer: Cell is their addresses, snap the memory.  Observations are *)
(* the flows of the interface collectors as FlowTable has them, reduced to *)
(* what grouping and merging read.  Names, processes and drops of a        *)
(* connection are left out, and so are the sums over namespaces.           *)
(***************************************************************************)
EXTENDS Integers, FiniteSets, SequencesExt

CONSTANTS
  Obs,         \* interface observations, 1..n in the order of their creation
  Iface,       \* interfaces
  FlowKey,     \* five-tuples of the observations
  Original,    \* the one that is the original side of the others' NAT entries
  SYN,         \* sequence numbers of SYNs; 0 means no SYN was seen
  Cell,        \* bound: addresses of merged snapshots, 1..n
  LateWindow,  \* lateEventWindow (2 seconds)
  Skew,        \* observations may be this far apart (2 seconds)
  IdleTTL,     \* idle time after which an observation expires (5 minutes)
  ClosedTTL,   \* the same once it is closed (1 minute)
  HistorySize, \* maxFlowHistory
  MaxId,       \* bound: connection ids
  MaxBytes,    \* bound: bytes of one observation
  MaxNow       \* bound: clock

HostViewAssumption ==
  /\ IsFiniteSet(Obs) /\ Obs = 1..Cardinality(Obs) /\ Cell \subseteq Nat \ {0}
  /\ MaxId \in Nat /\ HistorySize \in Nat \ {0}
ASSUME HostViewAssumption

ID == 1..MaxId
NoCell == 0
NoKey == "no key"
NoIface == "no interface"
Never == -1

VARIABLES
  obs,           \* the flows of the interface collectors
  linked,        \* the tuples for which conntrack has answered
  now,           \* the clock
  snap,          \* the merged snapshots in memory
  nextID, flowIDs, active, displayed,   \* s.nextID, s.flowIDs, s.active, s.displayed
  history, historyNext,                 \* s.history with s.historyIDs, s.historyNext
  expired,                              \* s.expired
  changeKeys, firstObserved, lastChanges,
  log, announced, over   \* what happened: the ids remembered, in order, and the
                         \* ids whose "new" and whose "end" were told

state == <<snap, nextID, flowIDs, active, displayed, history, historyNext, expired,
           changeKeys, firstObserved, lastChanges, log, announced, over>>
vars == <<obs, linked, now, state>>

Unborn == [where |-> "unborn", iface |-> NoIface, key |-> NoKey, nat |-> NoKey, syn |-> 0,
           First |-> 0, Last |-> 0, bytes |-> 0, Closed |-> FALSE, Failed |-> FALSE]
Blank == [bytes |-> 0, Closed |-> FALSE, Last |-> 0, End |-> "ongoing"]

Live == {o \in Obs : obs[o].where \in {"flows", "retired"}}

(***************************************************************************)
(* collect: grouping and merging.                                          *)
(***************************************************************************)
(* A gateway's LAN and WAN tuples are one connection. *)
groupKey(o) == IF obs[o].nat = NoKey THEN obs[o].key ELSE obs[o].nat

apart(o, p) == obs[o].First > obs[p].Last + Skew
sameObservedConnection(o, group) ==
  \A p \in Range(group) :
    /\ obs[o].iface # obs[p].iface
    /\ obs[o].syn # 0 /\ obs[p].syn # 0 => obs[o].syn = obs[p].syn
    /\ ~apart(o, p) /\ ~apart(p, o)

(* A candidate with a SYN looks among the groups of that SYN and then among *)
(* those that began without one; a candidate without looks at every group.  *)
addObservation(r, o) ==
  LET syn == obs[o].syn
      search == IF syn = 0 THEN [i \in DOMAIN r.groups |-> i] ELSE r.bySYN[syn] \o r.midstream
      fits == {i \in DOMAIN search : sameObservedConnection(o, r.groups[search[i]])}
      matched == search[Min(fits)]
      new == Len(r.groups) + 1
  IN IF fits = {}
     THEN [groups |-> Append(r.groups, <<o>>),
           bySYN |-> IF syn = 0 THEN r.bySYN ELSE [r.bySYN EXCEPT ![syn] = Append(@, new)],
           midstream |-> IF syn = 0 THEN Append(r.midstream, new) ELSE r.midstream]
     ELSE [r EXCEPT !.groups[matched] = Append(@, o),
                    !.bySYN = IF syn = 0 \/ matched \in Range(@[syn]) THEN @
                              ELSE [@ EXCEPT ![syn] = Append(@, matched)]]

(* The candidates of a group key come in the order of their First. *)
groupObservations(key) ==
  LET grouped[n \in 0..Cardinality(Obs)] ==
        IF n = 0 THEN [groups |-> <<>>, bySYN |-> [s \in SYN |-> <<>>], midstream |-> <<>>]
        ELSE IF n \in Live /\ groupKey(n) = key THEN addObservation(grouped[n - 1], n)
        ELSE grouped[n - 1]
  IN grouped[Cardinality(Obs)].groups

(* The keys come in the order of a map.                                    *)
Groupings ==
  {FlattenSeq([i \in DOMAIN keys |-> groupObservations(keys[i])]) :
     keys \in SetToSeqs({groupKey(o) : o \in Live})}

(* The bytes are those of one interface, never a sum. *)
mergeObservedFlow(group) ==
  LET members == Range(group)
      source == CHOOSE o \in members :
                  \A p \in members : \/ obs[p].bytes < obs[o].bytes
                                     \/ obs[p].bytes = obs[o].bytes
                                        /\ SelectInSeq(group, LAMBDA x : x = o)
                                             <= SelectInSeq(group, LAMBDA x : x = p)
      failed == \E o \in members : obs[o].Failed
  IN [bytes |-> obs[source].bytes, Closed |-> obs[source].Closed \/ failed,
      Last |-> Max({obs[o].Last : o \in members}),
      End |-> IF failed THEN "failed" ELSE "ongoing"]

earlierIDs(group) == {flowIDs[o] : o \in Range(group)} \ {0}
lastMemberID(group) == flowIDs[Last(group)]   \* mutant: the newest observation decides
firstID(group) ==
  LET known == {i \in DOMAIN group : flowIDs[group[i]] # 0}
  IN IF known = {} THEN 0 ELSE flowIDs[group[Min(known)]]

referenced == {displayed[i] : i \in ID} \cup {history[i].cell : i \in DOMAIN history}

(* An active snapshot is merged in place, a final one never. *)
reuse(group, m, used) ==
  /\ firstID(group) # 0
  /\ displayed[firstID(group)] \notin used \cup {NoCell}
  /\ m[displayed[firstID(group)]].End = "ongoing"
  /\ \A o \in Range(group) : ~obs[o].Failed

merge(r, group) ==
  LET used == Range(r.cells)
      cell == IF reuse(group, r.snap, used) THEN displayed[firstID(group)]
              ELSE Min(Cell \ (referenced \cup used))
  IN [snap |-> [r.snap EXCEPT ![cell] = mergeObservedFlow(group)], cells |-> Append(r.cells, cell)]
collect(groups) ==
  LET merged[n \in 0..Len(groups)] ==
        IF n = 0 THEN [snap |-> snap, cells |-> <<>>] ELSE merge(merged[n - 1], groups[n])
  IN merged[Len(groups)]

(***************************************************************************)
(* updateAt: ids, ends and totals.                                         *)
(***************************************************************************)
endReason(f) ==
  IF f.Closed THEN "closed" ELSE IF now - f.Last > IdleTTL THEN "idle" ELSE "evicted"

Entry(id, cell) == [id |-> id, cell |-> cell]
rememberUntilFull(r, id, cell) ==   \* mutant: the ring is never overwritten
  [r EXCEPT !.history = IF Len(@) < HistorySize THEN Append(@, Entry(id, cell)) ELSE @,
            !.log = Append(@, id)]
(* The ring overwrites the oldest of its final snapshots. *)
remember(r, id, cell) ==
  IF Len(r.history) < HistorySize
  THEN [r EXCEPT !.history = Append(@, Entry(id, cell)), !.log = Append(@, id)]
  ELSE [r EXCEPT !.history[r.historyNext + 1] = Entry(id, cell),
                 !.historyNext = (@ + 1) % HistorySize, !.log = Append(@, id)]

(* wasEnded: the final snapshot of this id was recorded before. *)
endIf(r, id, cell, wasEnded) ==
  IF r.snap[cell].End # "ongoing" /\ ~wasEnded THEN remember(r, id, cell)
  ELSE IF /\ r.snap[cell].End = "ongoing" /\ r.snap[cell].Closed
          /\ now - r.snap[cell].Last >= LateWindow
  THEN remember([r EXCEPT !.snap[cell].End = endReason(r.snap[cell])], id, cell)
  ELSE r

(* One merged snapshot takes its place in the view. *)
show(r, group, cell) ==
  LET old == firstID(group)
      new == old = 0 \/ r.displayed[old] # NoCell
      id == IF new THEN r.nextID + 1 ELSE old
      was == IF new THEN NoCell ELSE displayed[old]
      wasEnded == was # NoCell /\ r.snap[was].End # "ongoing"
      shown == IF was = NoCell \/ wasEnded THEN cell ELSE was
      memory == IF was = NoCell THEN r.snap
                ELSE IF wasEnded THEN [r.snap EXCEPT ![cell].End = r.snap[was].End]
                ELSE [r.snap EXCEPT ![was] = r.snap[cell]]
  IN endIf([r EXCEPT !.nextID = IF new THEN id ELSE @,
                     !.flowIDs = [o \in Obs |-> IF o \in Range(group) THEN id ELSE @[o]],
                     !.active[id] = r.snap[cell].bytes,
                     !.displayed[id] = shown,
                     !.snap = memory,
                     !.absorbed = @ \cup earlierIDs(group)],
           id, shown, wasEnded)

departCountOnly(r, id) == [r EXCEPT !.expired = @ + active[id]]   \* mutant: no final snapshot
(* An id that no group took, and none absorbed, is over. *)
depart(r, id) ==
  LET cell == displayed[id]
      counted == [r EXCEPT !.expired = @ + active[id]]
  IN IF r.snap[cell].End # "ongoing" THEN counted
     ELSE remember([counted EXCEPT !.snap[cell].End = endReason(r.snap[cell])], id, cell)

(* updateAt: the merged snapshots of collect take their places in the order of *)
(* the groups.                                                            *)
update(groups) ==
  LET c == collect(groups)
      shown[n \in 0..Len(groups)] ==
        IF n = 0
        THEN [nextID |-> nextID, flowIDs |-> [o \in Obs |-> 0], active |-> [i \in ID |-> 0],
              displayed |-> [i \in ID |-> NoCell], snap |-> c.snap, history |-> history,
              historyNext |-> historyNext, expired |-> expired, log |-> log, absorbed |-> {}]
        ELSE show(shown[n - 1], groups[n], c.cells[n])
  IN shown[Len(groups)]

gone(r) == {i \in ID : displayed[i] # NoCell /\ r.displayed[i] = NoCell /\ i \notin r.absorbed}
departAll(r, order) ==
  LET departed[n \in 0..Len(order)] == IF n = 0 THEN r ELSE depart(departed[n - 1], order[n])
  IN departed[Len(order)]

(***************************************************************************)
(* detectChanges: the view r against what was told before.  A new          *)
(* connection waits for its late events unless it is over already.         *)
(***************************************************************************)
changeKey(f) == [told |-> TRUE, state |-> f.Closed, end |-> f.End]
Untold == [told |-> FALSE, state |-> FALSE, end |-> "ongoing"]
since(i) == IF firstObserved[i] = Never THEN now ELSE firstObserved[i]
waits(r, i) ==
  /\ r.displayed[i] # NoCell /\ ~changeKeys[i].told
  /\ now - since(i) < LateWindow /\ r.snap[r.displayed[i]].End = "ongoing"

leftEndOnly(r, i) == {"end"}   \* mutant: a connection that leaves is told to end, told or not
(* What is told of an id that leaves the view. *)
left(r, i) ==
  IF ~changeKeys[i].told THEN {"new", "end"}
  ELSE IF changeKeys[i].end = "ongoing" THEN {"end"} ELSE {}

fields(r, i) ==
  IF r.displayed[i] = NoCell THEN IF displayed[i] = NoCell THEN {} ELSE left(r, i)
  ELSE LET key == changeKey(r.snap[r.displayed[i]]) IN
       IF waits(r, i) THEN {}
       ELSE IF ~changeKeys[i].told
       THEN {"new"} \cup (IF key.end # "ongoing" THEN {"end"} ELSE {})
       ELSE (IF key.state # changeKeys[i].state THEN {"state"} ELSE {})
            \cup (IF key.end # changeKeys[i].end THEN {"end"} ELSE {})

(* The row of a change is written in the second it was found. *)
rows(r) ==
  {[id |-> i, Changes |-> fields(r, i)] : i \in {j \in ID : fields(r, j) # {}}}
told(r, field) == {i \in ID : field \in fields(r, i)}

detectChanges(r) ==
  /\ lastChanges' = rows(r)
  /\ changeKeys' = [i \in ID |-> IF r.displayed[i] = NoCell THEN Untold
                                 ELSE IF waits(r, i) THEN Untold
                                 ELSE changeKey(r.snap[r.displayed[i]])]
  /\ firstObserved' = [i \in ID |-> IF waits(r, i) THEN since(i) ELSE Never]
  /\ announced' = announced \cup told(r, "new")
  /\ over' = over \cup told(r, "end")

(* A refresh each second: the clock counts them. *)
Refresh ==
  \E groups \in Groupings :
    LET view == update(groups) IN
    \E order \in SetToSeqs(gone(view)) :
      LET r == departAll(view, order) IN
      /\ now < MaxNow /\ now' = now + 1 /\ r.nextID <= MaxId
      /\ Cell \ (referenced \cup Range(collect(groups).cells)) # {}
      /\ nextID' = r.nextID /\ flowIDs' = r.flowIDs /\ active' = r.active
      /\ displayed' = r.displayed /\ expired' = r.expired /\ log' = r.log
      /\ history' = r.history /\ historyNext' = r.historyNext
      /\ snap' = [c \in Cell |->
                    IF c \in Range(r.displayed) \cup {e.cell : e \in Range(r.history)}
                    THEN r.snap[c] ELSE Blank]
      /\ detectChanges(r)
      /\ UNCHANGED <<obs, linked>>

(***************************************************************************)
(* What the collectors of the interfaces do in between (FlowTable).        *)
(***************************************************************************)
indexed(i, k) == {o \in Obs : obs[o].where = "flows" /\ obs[o].iface = i /\ obs[o].key = k}

natOf(k) == IF k \in linked THEN Original ELSE NoKey

(* The first packet of a flow; a SYN retires the generation before it. *)
Appear(i, k, syn) ==
  /\ indexed(i, k) = {} \/ (syn # 0 /\ \A p \in indexed(i, k) : obs[p].syn # syn)
  /\ \E o \in Obs :
       /\ obs[o].where = "unborn" /\ \A p \in Obs : p < o => obs[p].where # "unborn"
       /\ obs' = [p \in Obs |->
            IF p = o
            THEN [Unborn EXCEPT !.where = "flows", !.iface = i, !.key = k, !.nat = natOf(k),
                                !.syn = syn, !.First = now, !.Last = now, !.bytes = 1]
            ELSE IF p \in indexed(i, k) THEN [obs[p] EXCEPT !.where = "retired"] ELSE obs[p]]
  /\ UNCHANGED <<linked, now, state>>

(* A later packet; a reset or the second FIN closes the flow. *)
Packet(o, closes) ==
  /\ obs[o].where = "flows" /\ obs[o].bytes < MaxBytes
  /\ obs' = [obs EXCEPT ![o].bytes = @ + 1, ![o].Last = now, ![o].Closed = @ \/ closes]
  /\ UNCHANGED <<linked, now, state>>

(* connectResult reports that the connect failed. *)
ConnectFails(o) ==
  /\ obs[o].where = "flows" /\ ~obs[o].Failed
  /\ ~obs[o].Closed \/ now - obs[o].Last < LateWindow
  /\ obs' = [obs EXCEPT ![o].Failed = TRUE, ![o].Closed = TRUE, ![o].Last = now]
  /\ UNCHANGED <<linked, now, state>>

(* linkNAT: conntrack knows the tuple as the other end of a translation. All *)
(* interfaces learn it at once, retired flows not.                            *)
LinkNAT(k) ==
  /\ k \notin linked \cup {Original} /\ \E i \in Iface : indexed(i, k) # {}
  /\ linked' = linked \cup {k}
  /\ obs' = [o \in Obs |-> IF obs[o].where = "flows" /\ obs[o].key = k
                            THEN [obs[o] EXCEPT !.nat = Original] ELSE obs[o]]
  /\ UNCHANGED <<now, state>>

(* evict, of a flow that the table may give up, or expire. *)
Vanish(o) ==
  /\ o \in Live
  /\ \/ obs[o].where = "flows"
     \/ now - obs[o].Last > IF obs[o].Closed THEN ClosedTTL ELSE IdleTTL
  /\ obs' = [obs EXCEPT ![o] = [Unborn EXCEPT !.where = "gone"]]
  /\ UNCHANGED <<linked, now, state>>

Init ==
  /\ obs = [o \in Obs |-> Unborn] /\ linked = {} /\ now = 0
  /\ snap = [c \in Cell |-> Blank]
  /\ nextID = 0 /\ flowIDs = [o \in Obs |-> 0] /\ active = [i \in ID |-> 0]
  /\ displayed = [i \in ID |-> NoCell]
  /\ history = <<>> /\ historyNext = 0 /\ expired = 0
  /\ changeKeys = [i \in ID |-> Untold] /\ firstObserved = [i \in ID |-> Never]
  /\ lastChanges = {}
  /\ log = <<>> /\ announced = {} /\ over = {}

Next ==
  \/ \E i \in Iface, k \in FlowKey, syn \in SYN \cup {0} : Appear(i, k, syn)
  \/ \E o \in Obs, closes \in BOOLEAN : Packet(o, closes)
  \/ \E o \in Obs : ConnectFails(o)
  \/ \E k \in FlowKey : LinkNAT(k)
  \/ \E o \in Obs : Vanish(o)
  \/ Refresh

Spec == Init /\ [][Next]_vars

(***************************************************************************)
(* Properties.                                                             *)
(***************************************************************************)
(* A connection enters the history once, although its end is seen again in    *)
(* every second in which its observations stay, and once more when they go;   *)
(* and the history has the latest of the connections that ended and no other, *)
(* however often its ring went round (updateAt, remember).                    *)
HistoryIsLatest ==
  LET kept == Min({HistorySize, Len(log)}) IN
  /\ IsInjective(log) /\ Len(history) = kept
  /\ {e.id : e \in Range(history)} = Range(SubSeq(log, Len(log) - kept + 1, Len(log)))

(* Nothing vanishes without its final snapshot, and that is final: an id that *)
(* leaves the view was recorded, or its observations are now those of another *)
(* id (updateAt); and no later merge writes a snapshot the history points to  *)
(* ("keep the recorded final snapshot immutable").                           *)
NoneVanishes ==
  [][/\ \A i \in ID :
          displayed[i] # NoCell /\ displayed'[i] = NoCell =>
            \/ i \in Range(log')
            \/ \E o \in Live : flowIDs[o] = i /\ flowIDs'[o] \notin {0, i}
     /\ \A i \in DOMAIN history :
          history'[i] = history[i] => snap'[history[i].cell] = snap[history[i].cell]]_vars

(* The changes tell each connection's life in order: new once and first,    *)
(* end once, and for every id that has left the view both (detectChanges).  *)
ChangesInOrder ==
  /\ [][now' # now => \A c \in lastChanges' :
          /\ "new" \in c.Changes <=> c.id \notin announced
          /\ "end" \in c.Changes => c.id \notin over]_vars
  /\ [](\A i \in 1..nextID : displayed[i] = NoCell => i \in announced \cap over)

(* An observation keeps its connection: its id changes only when its group  *)
(* was joined with another connection or lost a member (updateAt).          *)
IdentityKept ==
  [][\A o \in Live :
       flowIDs[o] # 0 /\ flowIDs'[o] \notin {0, flowIDs[o]} =>
         \E p \in Live \ {o} :
           \/ flowIDs'[p] = flowIDs'[o] /\ flowIDs[p] \notin {0, flowIDs[o]}
           \/ flowIDs[p] = flowIDs[o] /\ flowIDs'[p] # flowIDs'[o]]_vars

(***************************************************************************)
(* What the tests say.                                                     *)
(***************************************************************************)

(* "split observations reused the same merged connection" is the failure    *)
(* that TestHostRefreshSeparatesObservationsThatSplit reports: no two       *)
(* connections of the view show the same snapshot (collect, updateAt).      *)
SplitsKeepApart ==
  \A i, j \in ID : displayed[i] # NoCell /\ displayed[i] = displayed[j] => i = j
=============================================================================
