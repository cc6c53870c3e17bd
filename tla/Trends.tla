-------------------------------- MODULE Trends --------------------------------
(* The trend of the rows of the main table (trend.go, sampleTrends of ui.go):  *)
(* a ring of samples for each row, one a pass, drawn as a curve in the row     *)
(* and, over a longer time, below the table.                                  *)
(*                                                                            *)
(* A pass adds a sample to every row shown, in the order of the table, then   *)
(* marks the rows that are missing and drops those missing for long.  Nothing *)
(* reads the store during a pass; a pass is several steps here because which  *)
(* ring makes room for a new one is not determined.                           *)
EXTENDS Integers, Sequences, SequencesExt, FiniteSetsExt
CONSTANTS
  Rows,        \* identities of rows
  Totals,      \* rates of a row, received and sent
  Largest,     \* 2^32 - 1, what a sample holds
  Seconds, TrendRows, Stale, \* trendSeconds, trendRows, trendRowStaleMs
  Widths,      \* widths of curves
  Gaps, MaxNow \* between two passes; bound
VARIABLES
  rings, unused, now, \* trendStore
  pass, todo, shown,  \* is a pass on, its rows not added yet with their rates,
                      \* and seen: the rows it added
  past, last, before  \* history: a row's samples while it has a ring, when it
                      \* was last shown, and the time of the pass before
vars == <<rings, unused, now, pass, todo, shown, past, last, before>>

Lesser(a, b) == IF a < b THEN a ELSE b
Highest(S) == IF S = {} THEN 0 ELSE Max(S)

(* ---- trendRing ---- *)
NewRing == [samples |-> [i \in 0..(Seconds - 1) |-> 0], count |-> 0, newest |-> -1]
uncapped(n) == n + 1 \* mutant: counts samples that were overwritten
counted(n) == IF n < Seconds THEN n + 1 ELSE n
add(t, total) ==
  LET newest == (t.newest + 1) % Seconds IN
  [samples |-> [t.samples EXCEPT ![newest] = Lesser(total, Largest)],
   count |-> counted(t.count), newest |-> newest]
at(t, age) == t.samples[(t.newest - age + Seconds) % Seconds]

(* The rung of a sample, of eight; 0 is a blank.                              *)
sparkRung(v, top) == IF v = 0 \/ top = 0 THEN 0 ELSE 1 + Lesser((v * 8) \div (top + 1), 7)

(* Curves, cells from the left: one sample a cell, or the highest of several. *)
sparkn(t, width) ==
  LET drawn == Lesser(width, t.count)
      top == Highest({at(t, age) : age \in 0..(drawn - 1)}) IN
  [i \in 1..width |-> IF width - i < drawn THEN sparkRung(at(t, width - i), top) ELSE 0]
sparkWindow(t, seconds, width) ==
  LET drawn == Lesser(seconds, t.count)
      cell(age) == width - (age * width) \div drawn
      top == Highest({at(t, age) : age \in 0..(drawn - 1)})
      highest(i) == Highest({at(t, age) : age \in {a \in 0..(drawn - 1) : cell(a) = i}}) IN
  [i \in 1..width |-> sparkRung(highest(i), top)]

(* ---- trendStore ---- *)
Init ==
  /\ rings = <<>> /\ unused = <<>> /\ now = 0 /\ pass = FALSE /\ todo = <<>> /\ shown = {}
  /\ past = [r \in Rows |-> <<>>] /\ last = [r \in Rows |-> 0] /\ before = 0

Without(f, S) == [r \in DOMAIN f \ S |-> f[r]]
With(f, r, v) == [x \in DOMAIN f \cup {r} |-> IF x = r THEN v ELSE f[x]]

(* A tick: the table has these rows, in some order.                           *)
Pass(rows) ==
  /\ ~pass /\ pass' = TRUE /\ \E gap \in Gaps : now + gap <= MaxNow /\ now' = now + gap
  /\ todo' = rows /\ shown' = {} /\ before' = now
  /\ UNCHANGED <<rings, unused, past, last>>

(* What evictOldest drops: the row missing longest, or any.                   *)
evictOldest ==
  IF unused = <<>> THEN DOMAIN rings
  ELSE {r \in DOMAIN unused : \A x \in DOMAIN unused : unused[r] <= unused[x]}
AddWith(r, total, dropped) ==
  LET ring == IF r \in DOMAIN rings THEN rings[r] ELSE NewRing IN
  /\ rings' = With(Without(rings, dropped), r, add(ring, total))
  /\ unused' = Without(unused, dropped \cup {r})
  /\ past' = [x \in Rows |-> IF x \in dropped THEN <<>>
                             ELSE IF x = r THEN Append(past[r], Lesser(total, Largest)) ELSE past[x]]
Add ==
  /\ pass /\ todo # <<>>
  /\ LET r == Head(todo).row
         full == r \notin DOMAIN rings /\ Cardinality(DOMAIN rings) >= TrendRows IN
     /\ IF full THEN \E x \in evictOldest : AddWith(r, Head(todo).total, {x})
        ELSE AddWith(r, Head(todo).total, {})
     /\ shown' = shown \cup {r} /\ last' = [last EXCEPT ![r] = now]
  /\ todo' = Tail(todo)
  /\ UNCHANGED <<now, pass, before>>

(* The end of a pass: markUnused for what was not in it, evict.               *)
marks == {r \in DOMAIN rings : r \notin shown /\ r \notin DOMAIN unused}
Sweep ==
  LET marked == [r \in DOMAIN unused \cup marks |-> IF r \in marks THEN now ELSE unused[r]]
      dropped == {r \in DOMAIN marked : now - marked[r] >= Stale} IN
  /\ pass /\ todo = <<>> /\ pass' = FALSE
  /\ rings' = Without(rings, dropped) /\ unused' = Without(marked, dropped)
  /\ past' = [r \in Rows |-> IF r \in dropped THEN <<>> ELSE past[r]]
  /\ UNCHANGED <<now, todo, shown, last, before>>

(* The rows a table may have, each once.                                      *)
Table == {s \in UNION {[1..n -> [row : Rows, total : Totals]] : n \in 0..Cardinality(Rows)} :
            \A i, j \in DOMAIN s : s[i].row = s[j].row => i = j}
Next == (\E rows \in Table : Pass(rows)) \/ Add \/ Sweep
Spec == Init /\ [][Next]_vars

(* A ring has the last samples of its row, the newest first, whatever was      *)
(* overwritten (add, at).                                                     *)
agesOf(r) == 0..(Lesser(Seconds, Len(past[r])) - 1)
sample(r, age) == past[r][Len(past[r]) - age]
RingsAreHistory == \A r \in DOMAIN rings :
  /\ past[r] # <<>> /\ rings[r].count = Lesser(Seconds, Len(past[r]))
  /\ \A age \in agesOf(r) : at(rings[r], age) = sample(r, age)

(* The curve of the table has each sample of the last passes in its place,     *)
(* higher ones not lower, blank where there is none; the longer curve loses no *)
(* peak and shows nothing that was not there (sparkn, sparkWindow).           *)
CurvesShowHistory == \A r \in DOMAIN rings, width \in Widths :
  /\ LET drawn == agesOf(r) \cap 0..(width - 1)
         curve == sparkn(rings[r], width) IN
     /\ \A age \in 0..(width - 1) : curve[width - age] # 0 <=> age \in drawn /\ sample(r, age) > 0
     /\ \A a, b \in drawn : sample(r, a) <= sample(r, b) => curve[width - a] <= curve[width - b]
  /\ \A seconds \in 1..(Seconds + 1) :
       LET ages == agesOf(r) \cap 0..(seconds - 1)
           curve == sparkWindow(rings[r], seconds, width)
           top == Highest({sample(r, age) : age \in ages})
           rung(age) == sparkRung(sample(r, age), top) IN
       /\ \A age \in ages : \E i \in 1..width : curve[i] >= rung(age)
       /\ \A i \in 1..width : curve[i] # 0 => \E age \in ages : curve[i] = rung(age)
       /\ curve[width] >= rung(0)

(* The store is bounded, and a row loses its history only after it was missing *)
(* for Stale, or while more rows than the store holds were shown that recently *)
(* or in the pass before (add, evict, evictOldest).                            *)
recent(r) == now - last[r] < Stale \/ last[r] >= before
kept ==
  /\ Cardinality(DOMAIN rings') <= TrendRows
  /\ \A r \in DOMAIN rings \ DOMAIN rings' :
       recent(r) => Cardinality({x \in DOMAIN rings : recent(x)} \cup shown') > TrendRows
=============================================================================
