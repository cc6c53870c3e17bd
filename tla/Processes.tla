------------------------------ MODULE Processes ------------------------------
(* processTable (processes_linux.go): the processes of socket events and      *)
(* their ancestors, read from /proc while they live, for trees, groups and    *)
(* the process filter.                                                        *)
(*                                                                            *)
(* A process is a number; later ones start later, and PID tells which share a *)
(* PID.  An orphan's new parent is PID 1, the table's end.  Names play no     *)
(* part except that an unreadable process has none.                           *)
EXTENDS Naturals, Sequences, FiniteSets, SequencesExt
CONSTANTS Procs,        \* 1..n
  PID(_), Service(_),   \* of a process
  MaxAncestors, MaxProcesses, \* maxAncestors, maxProcesses
  Idle                  \* processIdle, in expiry rounds
VARIABLES
  started, alive, \* processes so far, and those that live
  parentOf,       \* the process tree of the kernel, 0: PID 1
  procs,          \* by process: its entry, Absent: none
  cgroups,        \* services whose path is known by ID
  held            \* history: ancestors that lived when the process was read
vars == <<started, alive, parentOf, procs, cgroups, held>>

Absent == [name |-> FALSE, parent |-> 0, cgroup |-> FALSE, age |-> Idle + 2]
Known(table) == {p \in Procs : table[p] # Absent}
climb(p, up, n) == \* p and what up leads to, at most n + 1 of them
  FoldLeft(LAMBDA chain, i : IF Last(chain) = 0 THEN chain ELSE Append(chain, up[Last(chain)]), <<p>>, [i \in 1..n |-> i])
ancestors(p) == ToSet(climb(p, parentOf, Cardinality(Procs))) \ {0, p}

Init ==
  /\ started = 0 /\ alive = {} /\ parentOf = [p \in Procs |-> 0]
  /\ procs = [p \in Procs |-> Absent] /\ cgroups = {} /\ held = [p \in Procs |-> {}]

(* ---- the machine's processes ---- *)
Start(p, parent) ==
  /\ p = started + 1 /\ parent \in alive \cup {0} /\ \A q \in alive : PID(q) # PID(p)
  /\ started' = p /\ alive' = alive \cup {p} /\ parentOf' = [parentOf EXCEPT ![p] = parent]
  /\ UNCHANGED <<procs, cgroups, held>>
Exit(p) ==
  /\ p \in alive /\ alive' = alive \ {p}
  /\ parentOf' = [q \in Procs |-> IF parentOf[q] = p /\ q \in alive THEN 0 ELSE parentOf[q]]
  /\ UNCHANGED <<started, procs, cgroups, held>>

(* ---- the table ---- *)
(* readProc: a process that is gone, or whose PID a later one has, reads as   *)
(* nothing.                                                                   *)
readProc(p) ==
  IF p \in alive THEN [name |-> TRUE, parent |-> parentOf[p], cgroup |-> TRUE, age |-> 0]
  ELSE [name |-> FALSE, parent |-> 0, cgroup |-> FALSE, age |-> 0]

(* addAncestors: up to the first known one, the first that is gone, the end   *)
(* of the tree, the depth or the room.                                        *)
addAncestors(table, first) ==
  FoldLeft(LAMBDA s, i :
      IF s.p = 0 \/ Cardinality(Known(s.table)) >= MaxProcesses \/ s.table[s.p] # Absent THEN [s EXCEPT !.p = 0]
      ELSE [table |-> [s.table EXCEPT ![s.p] = readProc(s.p)], p |-> readProc(s.p).parent],
    [table |-> table, p |-> first], [i \in 1..MaxAncestors |-> i]).table

complete(table, p) == \* its ancestors, if all live and the table had room
  IF ancestors(p) \subseteq alive \cap Known(table) THEN ancestors(p) ELSE {}

(* A socket event: its process is as the kernel saw it, alive or just gone,   *)
(* with its parent of that time.                                              *)
observe(p) ==
  /\ p <= started
  /\ IF procs[p] # Absent
     THEN procs' = [procs EXCEPT ![p].age = 0, ![p].name = TRUE] /\ UNCHANGED <<cgroups, held>>
     ELSE IF Cardinality(Known(procs)) >= MaxProcesses THEN UNCHANGED <<procs, cgroups, held>>
     ELSE LET path == Service(p) \in cgroups \/ p \in alive
              m == [name |-> TRUE, parent |-> parentOf[p], cgroup |-> path, age |-> 0] IN
          /\ cgroups' = IF path THEN cgroups \cup {Service(p)} ELSE cgroups
          /\ procs' = addAncestors([procs EXCEPT ![p] = m], parentOf[p])
          /\ held' = [held EXCEPT ![p] = complete(procs', p)]
  /\ UNCHANGED <<started, alive, parentOf>>

(* meta: what a view or the filter asks about, read from /proc once.          *)
meta(p) ==
  /\ p <= started /\ procs[p] = Absent /\ Cardinality(Known(procs)) < MaxProcesses
  /\ LET m == readProc(p)
         table == [procs EXCEPT ![p] = m] IN
     /\ procs' = IF m.name THEN addAncestors(table, m.parent) ELSE table
     /\ held' = [held EXCEPT ![p] = IF m.name THEN complete(procs', p) ELSE {}]
  /\ UNCHANGED <<started, alive, parentOf, cgroups>>

(* expire: what was idle for long goes, except ancestors of the rest.         *)
kept == {p \in Procs : procs[p].age <= Idle}
parents == [p \in Procs |-> procs[p].parent]
forgetIdle == kept \* mutant: ancestors go when they are idle themselves
keep == kept \cup UNION {ToSet(climb(p, parents, MaxAncestors)) : p \in kept}
expire ==
  /\ Known(procs) # {}
  /\ procs' = [p \in Procs |-> IF p \notin keep \/ procs[p] = Absent THEN Absent
                               ELSE [procs[p] EXCEPT !.age = IF @ > Idle THEN @ ELSE @ + 1]]
  /\ held' = [p \in Procs |-> IF p \in keep THEN held[p] ELSE {}]
  /\ UNCHANGED <<started, alive, parentOf, cgroups>>

(* cgroupOf, treeRoot, matches: what the table says.                          *)
serviceOf(p) == IF procs[p].cgroup \/ (Service(p) \in cgroups /\ procs[p].name) THEN Service(p) ELSE "unknown"
treeRoot(p) ==
  FoldLeft(LAMBDA q, i : LET up == procs[q].parent IN
             IF up = 0 \/ procs[up] = Absent \/ serviceOf(up) # serviceOf(p) THEN q ELSE up,
           p, [i \in 1..MaxAncestors |-> i])
matches(pid, p) == \E q \in ToSet(climb(p, parents, MaxAncestors)) \ {0} : PID(q) = pid

(* The line of ancestors shown with a process, up to the first without a name  *)
(* (reading those the table lacks, as meta does, is left out).                *)
ancestry(p) ==
  FoldLeft(LAMBDA s, i :
      IF s.next = 0 \/ (i > 1 /\ ~procs[s.next].name) THEN [s EXCEPT !.next = 0]
      ELSE [chain |-> Append(s.chain, s.next), next |-> procs[s.next].parent],
    [chain |-> <<>>, next |-> p], [i \in 1..MaxAncestors |-> i]).chain

(* treeOrder: a list of processes as trees, siblings by PID.                   *)
treeOrder(list) ==
  LET sorted(S) == SetToSortSeq(S, LAMBDA p, q : PID(p) < PID(q) \/ (PID(p) = PID(q) /\ p < q))
      roots == {p \in list : procs[p].parent \notin list}
      kids(p) == {q \in list : procs[q].parent = p}
      all(S, trees) == FoldLeft(LAMBDA order, p : order \o trees[p], <<>>, sorted(S))
      visit[depth \in 0..MaxAncestors] == \* the tree of each down to a depth
        [p \in list |-> <<p>> \o (IF depth = 0 THEN <<>> ELSE all(kids(p), visit[depth - 1]))]
  IN all(roots, visit[MaxAncestors])

Next ==
  \/ \E p \in Procs :
       \/ \E parent \in Procs \cup {0} : Start(p, parent)
       \/ Exit(p) \/ observe(p) \/ meta(p)
  \/ expire

(* Trees and --pid hold once the ancestors exit: a process read while its     *)
(* ancestors lived is theirs as long as the table has it, whoever exits, is   *)
(* forgotten or gets the PID; its tree starts at the farthest of them that    *)
(* runs in its service, unless one's service was never known.  They are the    *)
(* line shown with it, and any list of processes in tree order has each once, *)
(* a parent just before what descends from it.                                *)
sameService(p, a) == \A q \in held[p] \cup {p} : q >= a => Service(q) = Service(p) /\ procs[q].cgroup
inTreeOrder(list, order) ==
  /\ ToSet(order) = list /\ Len(order) = Cardinality(list)
  /\ \A i \in DOMAIN order : procs[order[i]].parent \in list =>
       \E j \in 1..(i - 1) :
         /\ order[j] = procs[order[i]].parent
         /\ \A k \in j..i : order[j] \in ToSet(climb(order[k], parents, MaxAncestors))
HoldsOnceTheyExit ==
  /\ \A p \in Known(procs) : \A a \in held[p] :
       /\ matches(PID(a), p)
       /\ sameService(p, a) => treeRoot(p) <= a
       /\ a \in ToSet(ancestry(p))
  /\ \A list \in SUBSET (1..started) : inTreeOrder(list, treeOrder(list))
=============================================================================
