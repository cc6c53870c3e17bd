---------------------------- MODULE HostViewProofs ----------------------------
(***************************************************************************)
(* Theorems about the host view, for any addresses, any number of          *)
(* observations, any windows and any length of the history: what the       *)
(* history remembers, what the stream reports, which connection an         *)
(* observation has, and that what is final stays.                          *)
(***************************************************************************)
EXTENDS HostView, Sums, SequenceTheorems



(***************************************************************************)
(* What the loops over groups and ids compute, step by step.               *)
(***************************************************************************)
LEMMA LeastOf == ASSUME NEW S \in SUBSET Nat, S # {} PROVE Min(S) \in S
<1>1. PICK m \in S : \A x \in S : m <= x BY Least
<1>2. QED BY <1>1 DEF Min

NoGroups == [groups |-> <<>>, bySYN |-> [s \in SYN |-> <<>>], midstream |-> <<>>]
regroup(r, n, key) == IF n \in Live /\ groupKey(n) = key THEN addObservation(r, n) ELSE r
Groups(key, n, f) ==
  f = [i \in 0..n |-> IF i = 0 THEN NoGroups ELSE regroup(f[i - 1], i, key)]

LEMMA GroupsExist == ASSUME NEW key, NEW N \in Nat PROVE \E f : Groups(key, N, f)
<1> DEFINE P == {n \in 0..N : \E f : Groups(key, n, f)}
<1>1. 0 \in P
  <2>1. PICK f : f = [i \in 0..0 |-> NoGroups] OBVIOUS
  <2>2. \A i \in 0..0 : i = 0 OBVIOUS
  <2>3. Groups(key, 0, f) BY <2>1, <2>2 DEF Groups
  <2>4. QED BY <2>3
<1>2. ASSUME NEW n \in 0..N, n < N, n \in P PROVE n + 1 \in P
  <2>1. PICK f : Groups(key, n, f) BY <1>2
  <2>2. PICK g : g = [i \in 0..(n + 1) |-> IF i <= n THEN f[i] ELSE regroup(f[n], n + 1, key)] OBVIOUS
  <2>3. ASSUME NEW i \in 0..(n + 1)
        PROVE  g[i] = IF i = 0 THEN NoGroups ELSE regroup(g[i - 1], i, key)
    <3>1. CASE i = 0
      <4>1. g[i] = f[0] BY <2>2, <3>1
      <4>2. f[0] = NoGroups BY <2>1 DEF Groups
      <4>3. QED BY <3>1, <4>1, <4>2
    <3>2. CASE i \in 1..n
      <4>1. g[i] = f[i] /\ g[i - 1] = f[i - 1] BY <2>2, <3>2
      <4>2. f[i] = regroup(f[i - 1], i, key) BY <2>1, <3>2 DEF Groups
      <4>3. QED BY <3>2, <4>1, <4>2
    <3>3. CASE i = n + 1
      <4>1. g[i] = regroup(f[n], n + 1, key) /\ g[i - 1] = f[n] BY <2>2, <3>3
      <4>2. QED BY <3>3, <4>1
    <3>4. QED BY <3>1, <3>2, <3>3
  <2>4. g = [i \in 0..(n + 1) |-> g[i]] BY <2>2
  <2>5. Groups(key, n + 1, g) BY <2>3, <2>4 DEF Groups
  <2>6. QED BY <1>2, <2>5
<1>3. 0..N \subseteq P
  <2> HIDE DEF P
  <2>1. QED BY <1>1, <1>2, IntervalInduction
<1>4. QED BY <1>3

LEMMA GroupSteps ==
  ASSUME NEW key
  PROVE  \E f : /\ f[0] = NoGroups
                /\ \A n \in Obs : f[n] = regroup(f[n - 1], n, key)
                /\ groupObservations(key) = f[Cardinality(Obs)].groups
<1>1. Cardinality(Obs) \in Nat /\ Obs = 1..Cardinality(Obs)
  BY HostViewAssumption, FS_CardinalityType DEF HostViewAssumption
<1>2. PICK f : f = CHOOSE g : Groups(key, Cardinality(Obs), g) OBVIOUS
<1>3. Groups(key, Cardinality(Obs), f) BY <1>1, <1>2, GroupsExist
<1>4. groupObservations(key) = f[Cardinality(Obs)].groups
  BY <1>2 DEF groupObservations, Groups, regroup, NoGroups
<1>5. f[0] = NoGroups BY <1>1, <1>3 DEF Groups
<1>6. ASSUME NEW n \in Obs PROVE f[n] = regroup(f[n - 1], n, key)
  <2>1. n \in 0..Cardinality(Obs) /\ n # 0 BY <1>1
  <2>2. QED BY <1>3, <2>1 DEF Groups
<1>7. QED BY <1>4, <1>5, <1>6

Merges(groups, n, f) ==
  f = [i \in 0..n |-> IF i = 0 THEN [snap |-> snap, cells |-> <<>>] ELSE merge(f[i - 1], groups[i])]

LEMMA MergesExist == ASSUME NEW groups, NEW N \in Nat PROVE \E f : Merges(groups, N, f)
<1> DEFINE P == {n \in 0..N : \E f : Merges(groups, n, f)}
<1>1. 0 \in P
  <2>1. PICK f : f = [i \in 0..0 |-> [snap |-> snap, cells |-> <<>>]] OBVIOUS
  <2>2. \A i \in 0..0 : i = 0 OBVIOUS
  <2>3. Merges(groups, 0, f) BY <2>1, <2>2 DEF Merges
  <2>4. QED BY <2>3
<1>2. ASSUME NEW n \in 0..N, n < N, n \in P PROVE n + 1 \in P
  <2>1. PICK f : Merges(groups, n, f) BY <1>2
  <2>2. PICK g : g = [i \in 0..(n + 1) |-> IF i <= n THEN f[i] ELSE merge(f[n], groups[n + 1])] OBVIOUS
  <2>3. ASSUME NEW i \in 0..(n + 1)
        PROVE  g[i] = IF i = 0 THEN [snap |-> snap, cells |-> <<>>] ELSE merge(g[i - 1], groups[i])
    <3>1. CASE i = 0
      <4>1. g[i] = f[0] BY <2>2, <3>1
      <4>2. f[0] = [snap |-> snap, cells |-> <<>>] BY <2>1 DEF Merges
      <4>3. QED BY <3>1, <4>1, <4>2
    <3>2. CASE i \in 1..n
      <4>1. g[i] = f[i] /\ g[i - 1] = f[i - 1] BY <2>2, <3>2
      <4>2. f[i] = merge(f[i - 1], groups[i]) BY <2>1, <3>2 DEF Merges
      <4>3. QED BY <3>2, <4>1, <4>2
    <3>3. CASE i = n + 1
      <4>1. g[i] = merge(f[n], groups[n + 1]) /\ g[i - 1] = f[n] BY <2>2, <3>3
      <4>2. QED BY <3>3, <4>1
    <3>4. QED BY <3>1, <3>2, <3>3
  <2>4. g = [i \in 0..(n + 1) |-> g[i]] BY <2>2
  <2>5. Merges(groups, n + 1, g) BY <2>3, <2>4 DEF Merges
  <2>6. QED BY <1>2, <2>5
<1>3. 0..N \subseteq P
  <2> HIDE DEF P
  <2>1. QED BY <1>1, <1>2, IntervalInduction
<1>4. QED BY <1>3

LEMMA CollectSteps ==
  ASSUME NEW groups, Len(groups) \in Nat
  PROVE  \E f : /\ f[0] = [snap |-> snap, cells |-> <<>>]
                /\ \A n \in 1..Len(groups) : f[n] = merge(f[n - 1], groups[n])
                /\ collect(groups) = f[Len(groups)]
<1>1. PICK f : f = CHOOSE g : Merges(groups, Len(groups), g) OBVIOUS
<1>2. Merges(groups, Len(groups), f) BY <1>1, MergesExist
<1>3. collect(groups) = f[Len(groups)] BY <1>1 DEF collect, Merges
<1>4. QED BY <1>2, <1>3 DEF Merges

NothingShown(c) ==
  [nextID |-> nextID, flowIDs |-> [o \in Obs |-> 0], active |-> [i \in ID |-> 0],
   displayed |-> [i \in ID |-> NoCell], snap |-> c.snap, history |-> history,
   historyNext |-> historyNext, expired |-> expired, log |-> log, absorbed |-> {}]
Shows(c, groups, n, f) ==
  f = [i \in 0..n |-> IF i = 0 THEN NothingShown(c) ELSE show(f[i - 1], groups[i], c.cells[i])]

LEMMA ShowsExist == ASSUME NEW c, NEW groups, NEW N \in Nat PROVE \E f : Shows(c, groups, N, f)
<1> DEFINE P == {n \in 0..N : \E f : Shows(c, groups, n, f)}
<1>1. 0 \in P
  <2>1. PICK f : f = [i \in 0..0 |-> NothingShown(c)] OBVIOUS
  <2>2. \A i \in 0..0 : i = 0 OBVIOUS
  <2>3. Shows(c, groups, 0, f) BY <2>1, <2>2 DEF Shows
  <2>4. QED BY <2>3
<1>2. ASSUME NEW n \in 0..N, n < N, n \in P PROVE n + 1 \in P
  <2>1. PICK f : Shows(c, groups, n, f) BY <1>2
  <2>2. PICK g : g = [i \in 0..(n + 1) |-> IF i <= n THEN f[i] ELSE show(f[n], groups[n + 1], c.cells[n + 1])] OBVIOUS
  <2>3. ASSUME NEW i \in 0..(n + 1)
        PROVE  g[i] = IF i = 0 THEN NothingShown(c) ELSE show(g[i - 1], groups[i], c.cells[i])
    <3>1. CASE i = 0
      <4>1. g[i] = f[0] BY <2>2, <3>1
      <4>2. f[0] = NothingShown(c) BY <2>1 DEF Shows
      <4>3. QED BY <3>1, <4>1, <4>2
    <3>2. CASE i \in 1..n
      <4>1. g[i] = f[i] /\ g[i - 1] = f[i - 1] BY <2>2, <3>2
      <4>2. f[i] = show(f[i - 1], groups[i], c.cells[i]) BY <2>1, <3>2 DEF Shows
      <4>3. QED BY <3>2, <4>1, <4>2
    <3>3. CASE i = n + 1
      <4>1. g[i] = show(f[n], groups[n + 1], c.cells[n + 1]) /\ g[i - 1] = f[n] BY <2>2, <3>3
      <4>2. QED BY <3>3, <4>1
    <3>4. QED BY <3>1, <3>2, <3>3
  <2>4. g = [i \in 0..(n + 1) |-> g[i]] BY <2>2
  <2>5. Shows(c, groups, n + 1, g) BY <2>3, <2>4 DEF Shows
  <2>6. QED BY <1>2, <2>5
<1>3. 0..N \subseteq P
  <2> HIDE DEF P
  <2>1. QED BY <1>1, <1>2, IntervalInduction
<1>4. QED BY <1>3

LEMMA UpdateSteps ==
  ASSUME NEW groups, Len(groups) \in Nat, NEW c, c = collect(groups)
  PROVE  \E f : /\ f[0] = NothingShown(c)
                /\ \A n \in 1..Len(groups) : f[n] = show(f[n - 1], groups[n], c.cells[n])
                /\ update(groups) = f[Len(groups)]
<1>1. PICK f : f = CHOOSE g : Shows(c, groups, Len(groups), g) OBVIOUS
<1>2. Shows(c, groups, Len(groups), f) BY <1>1, ShowsExist
<1>3. update(groups) = f[Len(groups)] BY <1>1 DEF update, Shows, NothingShown
<1>4. QED BY <1>2, <1>3 DEF Shows

Departs(r, order, n, f) ==
  f = [i \in 0..n |-> IF i = 0 THEN r ELSE depart(f[i - 1], order[i])]

LEMMA DepartsExist == ASSUME NEW r, NEW order, NEW N \in Nat PROVE \E f : Departs(r, order, N, f)
<1> DEFINE P == {n \in 0..N : \E f : Departs(r, order, n, f)}
<1>1. 0 \in P
  <2>1. PICK f : f = [i \in 0..0 |-> r] OBVIOUS
  <2>2. \A i \in 0..0 : i = 0 OBVIOUS
  <2>3. Departs(r, order, 0, f) BY <2>1, <2>2 DEF Departs
  <2>4. QED BY <2>3
<1>2. ASSUME NEW n \in 0..N, n < N, n \in P PROVE n + 1 \in P
  <2>1. PICK f : Departs(r, order, n, f) BY <1>2
  <2>2. PICK g : g = [i \in 0..(n + 1) |-> IF i <= n THEN f[i] ELSE depart(f[n], order[n + 1])] OBVIOUS
  <2>3. ASSUME NEW i \in 0..(n + 1)
        PROVE  g[i] = IF i = 0 THEN r ELSE depart(g[i - 1], order[i])
    <3>1. CASE i = 0
      <4>1. g[i] = f[0] BY <2>2, <3>1
      <4>2. f[0] = r BY <2>1 DEF Departs
      <4>3. QED BY <3>1, <4>1, <4>2
    <3>2. CASE i \in 1..n
      <4>1. g[i] = f[i] /\ g[i - 1] = f[i - 1] BY <2>2, <3>2
      <4>2. f[i] = depart(f[i - 1], order[i]) BY <2>1, <3>2 DEF Departs
      <4>3. QED BY <3>2, <4>1, <4>2
    <3>3. CASE i = n + 1
      <4>1. g[i] = depart(f[n], order[n + 1]) /\ g[i - 1] = f[n] BY <2>2, <3>3
      <4>2. QED BY <3>3, <4>1
    <3>4. QED BY <3>1, <3>2, <3>3
  <2>4. g = [i \in 0..(n + 1) |-> g[i]] BY <2>2
  <2>5. Departs(r, order, n + 1, g) BY <2>3, <2>4 DEF Departs
  <2>6. QED BY <1>2, <2>5
<1>3. 0..N \subseteq P
  <2> HIDE DEF P
  <2>1. QED BY <1>1, <1>2, IntervalInduction
<1>4. QED BY <1>3

LEMMA DepartSteps ==
  ASSUME NEW r, NEW order, Len(order) \in Nat
  PROVE  \E f : /\ f[0] = r
                /\ \A n \in 1..Len(order) : f[n] = depart(f[n - 1], order[n])
                /\ departAll(r, order) = f[Len(order)]
<1>1. PICK f : f = CHOOSE g : Departs(r, order, Len(order), g) OBVIOUS
<1>2. Departs(r, order, Len(order), f) BY <1>1, DepartsExist
<1>3. departAll(r, order) = f[Len(order)] BY <1>1 DEF departAll, Departs
<1>4. QED BY <1>2, <1>3 DEF Departs

(***************************************************************************)
(* Groups are sequences of observations that are there.                    *)
(***************************************************************************)
joined(s, t) == s \o t
Flattens(seqs, n, f) == f = [i \in 1..n |-> IF i = 1 THEN seqs[i] ELSE joined(f[i - 1], seqs[i])]

LEMMA FlattensExist == ASSUME NEW seqs, NEW N \in Nat \ {0} PROVE \E f : Flattens(seqs, N, f)
<1> DEFINE P == {n \in 0..(N - 1) : \E f : Flattens(seqs, n + 1, f)}
<1>1. 0 \in P
  <2>1. PICK f : f = [i \in 1..1 |-> seqs[i]] OBVIOUS
  <2>2. \A i \in 1..1 : i = 1 OBVIOUS
  <2>3. Flattens(seqs, 0 + 1, f) BY <2>1, <2>2 DEF Flattens
  <2>4. QED BY <2>3
<1>2. ASSUME NEW n \in 0..(N - 1), n < N - 1, n \in P PROVE n + 1 \in P
  <2>1. PICK f : Flattens(seqs, n + 1, f) BY <1>2
  <2>2. PICK g : g = [i \in 1..(n + 2) |-> IF i <= n + 1 THEN f[i] ELSE joined(f[n + 1], seqs[n + 2])] OBVIOUS
  <2>3. ASSUME NEW i \in 1..(n + 2)
        PROVE  g[i] = IF i = 1 THEN seqs[i] ELSE joined(g[i - 1], seqs[i])
    <3>1. CASE i = 1
      <4>1. g[i] = f[1] BY <2>2, <3>1
      <4>2. f[1] = seqs[1] BY <2>1 DEF Flattens
      <4>3. QED BY <3>1, <4>1, <4>2
    <3>2. CASE i \in 2..(n + 1)
      <4>1. g[i] = f[i] /\ g[i - 1] = f[i - 1] BY <2>2, <3>2
      <4>2. f[i] = joined(f[i - 1], seqs[i]) BY <2>1, <3>2 DEF Flattens
      <4>3. QED BY <3>2, <4>1, <4>2
    <3>3. CASE i = n + 2
      <4>1. g[i] = joined(f[n + 1], seqs[n + 2]) /\ g[i - 1] = f[n + 1] BY <2>2, <3>3
      <4>2. QED BY <3>3, <4>1
    <3>4. QED BY <3>1, <3>2, <3>3
  <2>4. g = [i \in 1..(n + 2) |-> g[i]] BY <2>2
  <2>5. Flattens(seqs, n + 2, g) BY <2>3, <2>4 DEF Flattens
  <2>6. n + 1 + 1 = n + 2 /\ n + 1 \in 0..(N - 1) BY <1>2
  <2>7. QED BY <2>5, <2>6
<1>3. 0..(N - 1) \subseteq P
  <2>1. N - 1 \in Nat OBVIOUS
  <2> HIDE DEF P
  <2>2. QED BY <1>1, <1>2, <2>1, IntervalInduction
<1>4. N - 1 \in P BY <1>3
<1>5. N - 1 + 1 = N OBVIOUS
<1>6. QED BY <1>4, <1>5

JoinsUp(seqs, N, f) ==
  f[1] = seqs[1] /\ \A n \in 1..(N - 1) : f[n + 1] = joined(f[n], seqs[n + 1])

LEMMA FlattenSteps ==
  ASSUME NEW seqs, NEW N \in Nat \ {0}, N = Len(seqs)
  PROVE  \E f : JoinsUp(seqs, N, f) /\ FlattenSeq(seqs) = f[N]
<1>1. PICK f : f = CHOOSE g : Flattens(seqs, N, g) OBVIOUS
<1>2. Flattens(seqs, N, f) BY <1>1, FlattensExist
<1>3. FlattenSeq(seqs) = f[N] BY <1>1 DEF FlattenSeq, Flattens, joined
<1>4. f[1] = seqs[1] BY <1>2 DEF Flattens
<1>5. ASSUME NEW n \in 1..(N - 1) PROVE f[n + 1] = joined(f[n], seqs[n + 1])
  <2>1. n + 1 \in 1..N /\ n + 1 # 1 /\ n + 1 - 1 = n OBVIOUS
  <2>2. f[n + 1] = joined(f[n + 1 - 1], seqs[n + 1]) BY <1>2, <2>1 DEF Flattens
  <2>3. QED BY <2>1, <2>2
<1>6. QED BY <1>3, <1>4, <1>5 DEF JoinsUp

(* No observation is in two groups. *)
Apart(gs) ==
  \A i, j \in DOMAIN gs : \A o : o \in Range(gs[i]) /\ o \in Range(gs[j]) => i = j
Within(gs, S) == \A i \in DOMAIN gs : Range(gs[i]) \subseteq S

LEMMA JoinedApart ==
  ASSUME NEW S, NEW s \in Seq(Seq(S)), NEW t \in Seq(Seq(S)), Apart(s), Apart(t),
         NEW A, NEW B, Within(s, A), Within(t, B), A \cap B = {}
  PROVE  Apart(s \o t) /\ Within(s \o t, A \cup B)
<1>1. PICK m, n \in Nat : m = Len(s) /\ n = Len(t) OBVIOUS
<1>2. PICK u : u = s \o t OBVIOUS
<1>3. /\ DOMAIN u = 1..(m + n) /\ \A i \in 1..m : u[i] = s[i]
      /\ \A i \in (m + 1)..(m + n) : i - m \in 1..n /\ u[i] = t[i - m]
  BY <1>1, <1>2
<1>4. /\ \A i \in 1..m : Range(u[i]) \subseteq A
      /\ \A i \in (m + 1)..(m + n) : Range(u[i]) \subseteq B
  <2>1. DOMAIN s = 1..m /\ DOMAIN t = 1..n BY <1>1
  <2>2. \A i \in 1..m : Range(s[i]) \subseteq A BY <2>1 DEF Within
  <2>3. \A i \in 1..n : Range(t[i]) \subseteq B BY <2>1 DEF Within
  <2>4. QED BY <1>3, <2>2, <2>3
<1>5. ASSUME NEW i \in 1..(m + n), NEW j \in 1..(m + n), NEW o, o \in Range(u[i]), o \in Range(u[j])
      PROVE  i = j
  <2>1. CASE i \in 1..m /\ j \in 1..m
    <3>1. DOMAIN s = 1..m BY <1>1
    <3>2. QED BY <1>3, <1>5, <2>1, <3>1 DEF Apart
  <2>2. CASE i \in (m + 1)..(m + n) /\ j \in (m + 1)..(m + n)
    <3>1. DOMAIN t = 1..n BY <1>1
    <3>2. i - m = j - m BY <1>3, <1>5, <2>2, <3>1 DEF Apart
    <3>3. QED BY <3>2
  <2>3. i \in 1..m \/ i \in (m + 1)..(m + n) OBVIOUS
  <2>4. j \in 1..m \/ j \in (m + 1)..(m + n) OBVIOUS
  <2>5. QED BY <1>4, <1>5, <2>1, <2>2, <2>3, <2>4
<1>6. \A i \in 1..(m + n) : i \in 1..m \/ i \in (m + 1)..(m + n) OBVIOUS
<1>7. QED BY <1>2, <1>3, <1>4, <1>5, <1>6 DEF Apart, Within

LEMMA Flattened ==
  ASSUME NEW S, NEW seqs \in Seq(Seq(Seq(S))), NEW K,
         \A i \in DOMAIN seqs : Apart(seqs[i]) /\ Within(seqs[i], K[i]),
         \A i, j \in DOMAIN seqs : i # j => K[i] \cap K[j] = {}
  PROVE  FlattenSeq(seqs) \in Seq(Seq(S)) /\ Apart(FlattenSeq(seqs))
<1>1. CASE Len(seqs) = 0
  <2>1. seqs = <<>> BY <1>1
  <2>2. FlattenSeq(seqs) = <<>> BY <1>1, <2>1 DEF FlattenSeq
  <2>3. <<>> \in Seq(Seq(S)) OBVIOUS
  <2>4. Apart(<<>>) BY DEF Apart
  <2>5. QED BY <2>2, <2>3, <2>4
<1>2. CASE Len(seqs) # 0
  <2>1. PICK N \in Nat \ {0} : N = Len(seqs) /\ DOMAIN seqs = 1..N BY <1>2
  <2>2. PICK f : JoinsUp(seqs, N, f) /\ FlattenSeq(seqs) = f[N] BY <2>1, FlattenSteps
  <2> DEFINE upTo(n) == UNION {K[j] : j \in 1..n}
             good(n) == f[n] \in Seq(Seq(S)) /\ Apart(f[n]) /\ Within(f[n], upTo(n))
             P == {n \in 0..(N - 1) : good(n + 1)}
  <2>3. good(1)
    <3>0. 1 \in DOMAIN seqs /\ f[1] = seqs[1] BY <2>1, <2>2 DEF JoinsUp
    <3>1. f[1] \in Seq(Seq(S)) /\ Apart(f[1]) /\ Within(f[1], K[1]) BY <3>0
    <3>2. K[1] \subseteq upTo(1) OBVIOUS
    <3> HIDE DEF upTo
    <3>3. Within(f[1], upTo(1)) BY <3>1, <3>2 DEF Within
    <3>4. QED BY <3>1, <3>3
  <2>4. ASSUME NEW n \in 1..(N - 1), good(n) PROVE good(n + 1)
    <3>1. f[n + 1] = joined(f[n], seqs[n + 1]) /\ n + 1 \in DOMAIN seqs
      <4>1. f[n + 1] = joined(f[n], seqs[n + 1]) BY <2>2 DEF JoinsUp
      <4>2. n + 1 \in 1..N OBVIOUS
      <4>3. QED BY <2>1, <4>1, <4>2
    <3>2. seqs[n + 1] \in Seq(Seq(S)) /\ Apart(seqs[n + 1]) /\ Within(seqs[n + 1], K[n + 1]) BY <3>1
    <3>3. upTo(n) \cap K[n + 1] = {}
      <4>1. \A j \in 1..n : j \in DOMAIN seqs /\ j # n + 1 BY <2>1
      <4>2. \A j \in 1..n : K[j] \cap K[n + 1] = {} BY <3>1, <4>1
      <4>3. QED BY <4>2
    <3>4. upTo(n) \cup K[n + 1] = upTo(n + 1)
      <4>1. 1..(n + 1) = (1..n) \cup {n + 1} OBVIOUS
      <4>2. QED BY <4>1
    <3> HIDE DEF upTo
    <3>5. f[n + 1] \in Seq(Seq(S))
      <4>1. f[n] \in Seq(Seq(S)) BY <2>4
      <4>2. QED BY <3>1, <3>2, <4>1 DEF joined
    <3>6. Apart(f[n + 1]) /\ Within(f[n + 1], upTo(n) \cup K[n + 1])
      <4>1. PICK s \in Seq(Seq(S)), t \in Seq(Seq(S)) : s = f[n] /\ t = seqs[n + 1] BY <2>4, <3>2
      <4>2. PICK A, B : A = upTo(n) /\ B = K[n + 1] OBVIOUS
      <4>3. Apart(s \o t) /\ Within(s \o t, A \cup B)
        BY <2>4, <3>2, <3>3, <4>1, <4>2, JoinedApart
      <4>4. f[n + 1] = s \o t BY <3>1, <4>1 DEF joined
      <4>5. QED BY <4>2, <4>3, <4>4
    <3>7. QED BY <3>4, <3>5, <3>6
  <2>5. ASSUME NEW n \in 0..(N - 1), n < N - 1, n \in P PROVE n + 1 \in P
    <3>1. n + 1 \in 1..(N - 1) /\ good(n + 1) BY <2>5
    <3> HIDE DEF good
    <3>2. good(n + 1 + 1) BY <2>4, <3>1
    <3>3. QED BY <3>1, <3>2
  <2>6. 0..(N - 1) \subseteq P
    <3>1. N - 1 \in Nat /\ 0 + 1 = 1 OBVIOUS
    <3> HIDE DEF good
    <3>2. 0 \in P BY <2>3, <3>1
    <3> HIDE DEF P
    <3>3. QED BY <2>5, <3>1, <3>2, IntervalInduction
  <2>7. good(N)
    <3> HIDE DEF good
    <3>1. N - 1 \in P /\ N - 1 + 1 = N BY <2>6
    <3>2. QED BY <3>1
  <2>8. QED BY <2>2, <2>7
<1>3. QED BY <1>1, <1>2

LEMMA RangeAppended ==
  ASSUME NEW S, NEW s \in Seq(S), NEW x
  PROVE  Range(Append(s, x)) = Range(s) \cup {x}
<1>1. PICK n \in Nat : n = Len(s) /\ DOMAIN s = 1..n OBVIOUS
<1>2. PICK t : t = Append(s, x) OBVIOUS
<1>3. DOMAIN t = 1..(n + 1) /\ t[n + 1] = x /\ \A i \in 1..n : t[i] = s[i] BY <1>1, <1>2
<1>4. 1..(n + 1) = (1..n) \cup {n + 1} OBVIOUS
<1>5. QED BY <1>1, <1>2, <1>3, <1>4 DEF Range

GroupsOfLive(r) ==
  /\ DOMAIN r = {"groups", "bySYN", "midstream"} /\ r.groups \in Seq(Seq(Live))

LEMMA ObservationAdded ==
  ASSUME NEW r, GroupsOfLive(r), NEW S, Apart(r.groups), Within(r.groups, S), NEW o \in Live, o \notin S
  PROVE  LET s == addObservation(r, o) IN
         GroupsOfLive(s) /\ Apart(s.groups) /\ Within(s.groups, S \cup {o})
<1>1. PICK gs : gs = r.groups OBVIOUS
<1>2. gs \in Seq(Seq(Live)) /\ DOMAIN r = {"groups", "bySYN", "midstream"} BY <1>1 DEF GroupsOfLive
<1>3. PICK s : s = addObservation(r, o) OBVIOUS
<1>4. DOMAIN s = {"groups", "bySYN", "midstream"} BY <1>2, <1>3 DEF addObservation
<1>5. \/ s.groups = gs \o <<<<o>>>>
      \/ \E i : s.groups = [gs EXCEPT ![i] = Append(@, o)]
  <2>1. \/ s.groups = Append(gs, <<o>>)
        \/ \E i : s.groups = [gs EXCEPT ![i] = Append(@, o)]
    BY <1>1, <1>2, <1>3 DEF addObservation
  <2>2. Append(gs, <<o>>) = gs \o <<<<o>>>> BY <1>2
  <2>3. QED BY <2>1, <2>2
<1>6. Apart(gs) /\ Within(gs, S) BY <1>1
<1>7. CASE s.groups = gs \o <<<<o>>>>
  <2>1. PICK t : t = <<<<o>>>> OBVIOUS
  <2>2. t \in Seq(Seq(Live)) /\ DOMAIN t = {1} /\ t[1] = <<o>> BY <2>1
  <2>3. Range(<<o>>) = {o} BY DEF Range
  <2>4. Apart(t) /\ Within(t, {o}) BY <2>2, <2>3 DEF Apart, Within
  <2>5. gs \o t \in Seq(Seq(Live)) BY <1>2, <2>2
  <2>6. Apart(gs \o t) /\ Within(gs \o t, S \cup {o}) BY <1>2, <1>6, <2>2, <2>4, JoinedApart
  <2>7. QED BY <1>3, <1>4, <1>7, <2>1, <2>5, <2>6 DEF GroupsOfLive
<1>8. ASSUME NEW i, s.groups = [gs EXCEPT ![i] = Append(@, o)]
      PROVE  GroupsOfLive(s) /\ Apart(s.groups) /\ Within(s.groups, S \cup {o})
  <2>1. CASE i \in DOMAIN gs
    <3>1. gs[i] \in Seq(Live) BY <1>2, <2>1
    <3>13. Append(gs[i], o) \in Seq(Live) BY <3>1
    <3>2. PICK x \in Seq(Live) : x = Append(gs[i], o) BY <3>13
    <3>3. PICK t : t = [gs EXCEPT ![i] = x] OBVIOUS
    <3>4. t \in Seq(Seq(Live)) BY <1>2, <2>1, <3>2, <3>3
    <3>5. DOMAIN t = DOMAIN gs /\ \A j \in DOMAIN gs : t[j] = IF j = i THEN x ELSE gs[j] BY <3>3
    <3>6. Range(x) = Range(gs[i]) \cup {o} BY <3>1, <3>2, RangeAppended
    <3>7. \A j \in DOMAIN gs : Range(gs[j]) \subseteq S BY <1>6 DEF Within
    <3>8. Within(t, S \cup {o}) BY <2>1, <3>5, <3>6, <3>7 DEF Within
    <3>9. ASSUME NEW j \in DOMAIN gs, NEW k \in DOMAIN gs, NEW p, p \in Range(t[j]), p \in Range(t[k])
          PROVE  j = k
      <4>1. CASE p = o
        <5>1. j = i /\ k = i BY <3>5, <3>7, <3>9, <4>1
        <5>2. QED BY <5>1
      <4>2. CASE p # o
        <5>1. p \in Range(gs[j]) /\ p \in Range(gs[k]) BY <3>5, <3>6, <3>9, <4>2
        <5>2. QED BY <1>6, <5>1 DEF Apart
      <4>3. QED BY <4>1, <4>2
    <3>10. Apart(t) BY <3>5, <3>9 DEF Apart
    <3>11. s.groups = t BY <1>8, <3>2, <3>3
    <3>12. QED BY <1>4, <3>4, <3>8, <3>10, <3>11 DEF GroupsOfLive
  <2>2. CASE i \notin DOMAIN gs
    <3>1. s.groups = gs BY <1>2, <1>8, <2>2
    <3>2. QED BY <1>2, <1>4, <1>6, <3>1 DEF GroupsOfLive, Within
  <2>3. QED BY <2>1, <2>2
<1>9. QED BY <1>3, <1>5, <1>7, <1>8

LEMMA Grouped ==
  ASSUME NEW key
  PROVE  /\ groupObservations(key) \in Seq(Seq(Live)) /\ Apart(groupObservations(key))
         /\ Within(groupObservations(key), {o \in Live : groupKey(o) = key})
<1>1. PICK N \in Nat : N = Cardinality(Obs) /\ Obs = 1..N
  BY HostViewAssumption, FS_CardinalityType DEF HostViewAssumption
<1>2. PICK f : /\ f[0] = NoGroups /\ \A n \in Obs : f[n] = regroup(f[n - 1], n, key)
               /\ groupObservations(key) = f[N].groups
  BY <1>1, GroupSteps
<1> DEFINE S(n) == {o \in Live : groupKey(o) = key /\ o <= n}
           good(n) == GroupsOfLive(f[n]) /\ Apart(f[n].groups) /\ Within(f[n].groups, S(n))
           P == {n \in 0..N : good(n)}
<1>3. good(0)
  <2>1. <<>> \in Seq(Seq(Live)) /\ DOMAIN <<>> = {} OBVIOUS
  <2>2. GroupsOfLive(NoGroups) BY <2>1 DEF GroupsOfLive, NoGroups
  <2>3. NoGroups.groups = <<>> BY DEF NoGroups
  <2> HIDE DEF S
  <2>4. Apart(<<>>) /\ Within(<<>>, S(0)) BY <2>1 DEF Apart, Within
  <2>5. QED BY <1>2, <2>2, <2>3, <2>4
<1>4. ASSUME NEW n \in 0..N, n < N, good(n) PROVE good(n + 1)
  <2>1. n + 1 \in 1..N /\ n + 1 - 1 = n BY <1>4
  <2>2. n + 1 \in Obs BY <1>1, <2>1
  <2>3. f[n + 1] = regroup(f[n], n + 1, key) BY <1>2, <2>1, <2>2
  <2>4. S(n) \subseteq S(n + 1)
    <3>1. \A o \in Live : o \in Nat BY <1>1 DEF Live
    <3>2. QED BY <3>1
  <2>5. CASE n + 1 \in Live /\ groupKey(n + 1) = key
    <3>1. n + 1 \notin S(n) /\ S(n) \cup {n + 1} \subseteq S(n + 1) BY <2>4, <2>5
    <3> HIDE DEF S
    <3>2. LET s == addObservation(f[n], n + 1) IN
          GroupsOfLive(s) /\ Apart(s.groups) /\ Within(s.groups, S(n) \cup {n + 1})
      BY <1>4, <2>5, <3>1, ObservationAdded
    <3>3. f[n + 1] = addObservation(f[n], n + 1) BY <2>3, <2>5 DEF regroup
    <3>4. Within(f[n + 1].groups, S(n + 1)) BY <3>1, <3>2, <3>3 DEF Within
    <3>5. QED BY <3>2, <3>3, <3>4
  <2>6. CASE ~(n + 1 \in Live /\ groupKey(n + 1) = key)
    <3>1. f[n + 1] = f[n] BY <2>3, <2>6 DEF regroup
    <3> HIDE DEF S
    <3>2. Within(f[n].groups, S(n + 1)) BY <1>4, <2>4 DEF Within
    <3>3. QED BY <1>4, <3>1, <3>2
  <2>7. QED BY <2>5, <2>6
<1>5. 0..N \subseteq P
  <2> HIDE DEF good
  <2>1. 0 \in P BY <1>3
  <2>2. ASSUME NEW n \in 0..N, n < N, n \in P PROVE n + 1 \in P BY <1>4, <2>2
  <2> HIDE DEF P
  <2>3. QED BY <2>1, <2>2, IntervalInduction
<1>6. good(N)
  <2> HIDE DEF good
  <2>1. QED BY <1>5
<1>7. S(N) \subseteq {o \in Live : groupKey(o) = key} OBVIOUS
<1>8. QED BY <1>2, <1>6, <1>7 DEF GroupsOfLive, Within

LEMMA LiveObs == Live \in SUBSET Obs BY DEF Live

LEMMA GroupingsApart ==
  ASSUME NEW groups \in Groupings
  PROVE  groups \in Seq(Seq(Live)) /\ Apart(groups)
<1>1. PICK K : K = {groupKey(o) : o \in Live} OBVIOUS
<1>2. IsFiniteSet(K)
  <2>1. IsFiniteSet(Live) BY LiveObs, HostViewAssumption, FS_Subset DEF HostViewAssumption
  <2>2. PICK f : f = [o \in Live |-> groupKey(o)] OBVIOUS
  <2>3. K = {f[o] : o \in Live} BY <1>1, <2>2
  <2>4. f \in Surjection(Live, K) BY <2>2, <2>3 DEF Surjection
  <2>5. QED BY <2>1, <2>4, FS_Surjection
<1>3. PICK keys \in SetToSeqs(K) :
        groups = FlattenSeq([i \in DOMAIN keys |-> groupObservations(keys[i])])
  BY <1>1 DEF Groupings
<1>4. PICK n \in Nat : /\ DOMAIN keys = 1..n
                       /\ \A i, j \in 1..n : keys[i] = keys[j] => i = j
  <2>1. Cardinality(K) \in Nat BY <1>2, FS_CardinalityType
  <2>2. /\ DOMAIN keys = 1..Cardinality(K)
        /\ \A i, j \in 1..Cardinality(K) : i # j => keys[i] # keys[j]
    BY <1>3 DEF SetToSeqs, IsInjective
  <2>3. QED BY <2>1, <2>2
<1>5. PICK seqs : seqs = [i \in 1..n |-> groupObservations(keys[i])] OBVIOUS
<1>6. seqs \in Seq(Seq(Seq(Live)))
  <2>1. \A i \in 1..n : seqs[i] \in Seq(Seq(Live)) BY <1>5, Grouped
  <2>2. seqs \in [1..n -> Seq(Seq(Live))] BY <1>5, <2>1
  <2>3. QED BY <2>2
<1>7. groups = FlattenSeq(seqs) BY <1>3, <1>4, <1>5
<1>8. PICK M : M = [i \in 1..n |-> {o \in Live : groupKey(o) = keys[i]}] OBVIOUS
<1>9. \A i \in 1..n : Apart(seqs[i]) /\ Within(seqs[i], M[i])
  <2> SUFFICES ASSUME NEW i \in 1..n PROVE Apart(seqs[i]) /\ Within(seqs[i], M[i]) OBVIOUS
  <2>1. PICK key : key = keys[i] OBVIOUS
  <2>2. seqs[i] = groupObservations(key) BY <1>5, <2>1
  <2>3. M[i] = {o \in Live : groupKey(o) = key} BY <1>8, <2>1
  <2>4. QED BY <2>2, <2>3, Grouped
<1>10. \A i, j \in 1..n : i # j => M[i] \cap M[j] = {} BY <1>4, <1>8
<1>11. DOMAIN seqs = 1..n BY <1>5
<1>12. FlattenSeq(seqs) \in Seq(Seq(Live)) /\ Apart(FlattenSeq(seqs))
  BY <1>6, <1>9, <1>10, <1>11, Flattened
<1>13. QED BY <1>7, <1>12
(***************************************************************************)
(* The view is a record of what updateAt passes from group to group; View   *)
(* is that of the variables.                                               *)
(***************************************************************************)
Parts == {"nextID", "flowIDs", "active", "displayed", "snap", "history", "historyNext", "expired",
          "log", "absorbed"}
View == [nextID |-> nextID, flowIDs |-> flowIDs, active |-> active, displayed |-> displayed,
         snap |-> snap, history |-> history, historyNext |-> historyNext, expired |-> expired,
         log |-> log, absorbed |-> {}]

SnapType(m) == DOMAIN m = Cell /\ \A c \in Cell : DOMAIN m[c] = {"bytes", "Closed", "Last", "End"}
Ended(m, c) == m[c].End # "ongoing"

(* Ids are given in order; an observation has the id of a connection shown. *)
Ids(r) ==
  /\ r.nextID \in Nat /\ r.displayed \in [ID -> Cell \cup {NoCell}]
  /\ \A i \in ID : r.displayed[i] # NoCell => i <= r.nextID
  /\ DOMAIN r.flowIDs = Obs
  /\ \A o \in Obs : r.flowIDs[o] # 0 => r.flowIDs[o] \in ID /\ r.displayed[r.flowIDs[o]] # NoCell

LEMMA CellsAreNumbers == Cell \in SUBSET Nat /\ NoCell \notin Cell
  BY HostViewAssumption DEF HostViewAssumption, NoCell

LEMMA FirstIDs ==
  ASSUME Ids(View), NEW group \in Seq(Live), firstID(group) # 0
  PROVE  /\ firstID(group) \in ID /\ displayed[firstID(group)] \in Cell
         /\ firstID(group) \in earlierIDs(group)
<1>1. PICK known : known = {i \in DOMAIN group : flowIDs[group[i]] # 0} OBVIOUS
<1>2. firstID(group) = IF known = {} THEN 0 ELSE flowIDs[group[Min(known)]] BY <1>1 DEF firstID
<1>3. known # {} BY <1>2
<1>4. known \in SUBSET Nat BY <1>1
<1>5. PICK i \in known : i = Min(known) BY <1>3, <1>4, LeastOf
<1>6. i \in DOMAIN group /\ group[i] \in Live /\ flowIDs[group[i]] # 0 BY <1>1
<1>7. firstID(group) = flowIDs[group[i]] BY <1>2, <1>3, <1>5
<1>8. group[i] \in Obs BY <1>6, LiveObs
<1>9. firstID(group) \in ID /\ displayed[firstID(group)] \in Cell
  BY <1>6, <1>7, <1>8 DEF Ids, View
<1>10. firstID(group) \in earlierIDs(group) BY <1>6, <1>7 DEF earlierIDs, Range
<1>11. QED BY <1>9, <1>10

LEMMA Merged ==
  ASSUME NEW group
  PROVE  /\ DOMAIN mergeObservedFlow(group) = {"bytes", "Closed", "Last", "End"}
         /\ (\A o \in Range(group) : ~obs[o].Failed) => mergeObservedFlow(group).End = "ongoing"
  BY DEF mergeObservedFlow

(***************************************************************************)
(* collect: each group has a snapshot of its own, which is no final one;    *)
(* whether a snapshot in use is final does not change.                     *)
(***************************************************************************)
Collected(c, n) ==
  /\ DOMAIN c = {"snap", "cells"} /\ SnapType(c.snap)
  /\ c.cells \in Seq(Cell) /\ Len(c.cells) = n
  /\ \A i, j \in 1..n : c.cells[i] = c.cells[j] => i = j
  /\ \A i \in ID, j \in 1..n : displayed[i] = c.cells[j] => ~Ended(snap, displayed[i])
  /\ \A i \in ID : displayed[i] # NoCell => c.snap[displayed[i]].End = snap[displayed[i]].End
Spare(c) == Cell \ (referenced \cup Range(c.cells)) # {}

LEMMA CellFor ==
  ASSUME Ids(View), NEW group \in Seq(Live), NEW c, NEW n \in Nat, Collected(c, n), Spare(c)
  PROVE  \E x \in Cell :
           /\ merge(c, group) = [snap |-> [c.snap EXCEPT ![x] = mergeObservedFlow(group)],
                                 cells |-> Append(c.cells, x)]
           /\ x \notin Range(c.cells)
           /\ \A i \in ID : displayed[i] = x => /\ ~Ended(snap, displayed[i])
                                                /\ mergeObservedFlow(group).End = "ongoing"
<1>1. PICK used : used = Range(c.cells) OBVIOUS
<1>2. CASE reuse(group, c.snap, used)
  <2>1. firstID(group) # 0 BY <1>2 DEF reuse
  <2>2. PICK x \in Cell : x = displayed[firstID(group)] BY <2>1, FirstIDs
  <2>3. firstID(group) \in ID BY <2>1, FirstIDs
  <2>4. x \notin used /\ c.snap[x].End = "ongoing" /\ mergeObservedFlow(group).End = "ongoing"
    BY <1>2, <2>2, Merged DEF reuse
  <2>5. snap[x].End = "ongoing" BY <2>2, <2>3, <2>4, CellsAreNumbers DEF Collected
  <2>6. merge(c, group) = [snap |-> [c.snap EXCEPT ![x] = mergeObservedFlow(group)],
                           cells |-> Append(c.cells, x)]
    BY <1>1, <1>2, <2>2 DEF merge
  <2>7. QED BY <1>1, <2>4, <2>5, <2>6 DEF Ended
<1>3. CASE ~reuse(group, c.snap, used)
  <2>1. PICK free : free = Cell \ (referenced \cup used) OBVIOUS
  <2>2. free # {} BY <1>1, <2>1 DEF Spare
  <2>3. free \in SUBSET Nat BY <2>1, CellsAreNumbers
  <2>4. PICK x \in free : x = Min(free) BY <2>2, <2>3, LeastOf
  <2>5. x \in Cell /\ x \notin used /\ x \notin referenced BY <2>1
  <2>6. \A i \in ID : displayed[i] # x BY <2>5 DEF referenced
  <2>7. merge(c, group) = [snap |-> [c.snap EXCEPT ![x] = mergeObservedFlow(group)],
                           cells |-> Append(c.cells, x)]
    BY <1>1, <1>3, <2>1, <2>4 DEF merge
  <2>8. QED BY <1>1, <2>5, <2>6, <2>7
<1>4. QED BY <1>2, <1>3

LEMMA MergeStep ==
  ASSUME Ids(View), NEW group \in Seq(Live), NEW c, NEW n \in Nat, Collected(c, n), Spare(c)
  PROVE  Collected(merge(c, group), n + 1)
<1>1. PICK x \in Cell :
        /\ merge(c, group) = [snap |-> [c.snap EXCEPT ![x] = mergeObservedFlow(group)],
                              cells |-> Append(c.cells, x)]
        /\ x \notin Range(c.cells)
        /\ \A i \in ID : displayed[i] = x => /\ ~Ended(snap, displayed[i])
                                             /\ mergeObservedFlow(group).End = "ongoing"
  BY CellFor
<1>2. PICK m : m = mergeObservedFlow(group) OBVIOUS
<1>3. DOMAIN m = {"bytes", "Closed", "Last", "End"} BY <1>2, Merged
<1>4. PICK d : d = merge(c, group) OBVIOUS
<1>5. DOMAIN d = {"snap", "cells"} /\ d.snap = [c.snap EXCEPT ![x] = m] /\ d.cells = Append(c.cells, x)
  BY <1>1, <1>2, <1>4
<1>6. c.cells \in Seq(Cell) /\ Len(c.cells) = n BY DEF Collected
<1>7. /\ d.cells \in Seq(Cell) /\ Len(d.cells) = n + 1 /\ d.cells[n + 1] = x
      /\ \A i \in 1..n : d.cells[i] = c.cells[i]
  BY <1>5, <1>6
<1>8. \A i \in 1..n : c.cells[i] # x BY <1>1, <1>6 DEF Range
<1>9. SnapType(d.snap)
  <2>1. DOMAIN d.snap = Cell /\ \A y \in Cell : d.snap[y] = IF y = x THEN m ELSE c.snap[y]
    BY <1>5 DEF Collected, SnapType
  <2>2. QED BY <1>3, <2>1 DEF Collected, SnapType
<1>10. ASSUME NEW i \in 1..(n + 1), NEW j \in 1..(n + 1), d.cells[i] = d.cells[j] PROVE i = j
  <2>1. i \in 1..n \/ i = n + 1 OBVIOUS
  <2>2. j \in 1..n \/ j = n + 1 OBVIOUS
  <2>3. QED BY <1>7, <1>8, <1>10, <2>1, <2>2 DEF Collected
<1>11. ASSUME NEW i \in ID, NEW j \in 1..(n + 1), displayed[i] = d.cells[j]
       PROVE  ~Ended(snap, displayed[i])
  <2>1. j \in 1..n \/ j = n + 1 OBVIOUS
  <2>2. QED BY <1>1, <1>7, <1>11, <2>1 DEF Collected
<1>12. ASSUME NEW i \in ID, displayed[i] # NoCell PROVE d.snap[displayed[i]].End = snap[displayed[i]].End
  <2>1. displayed[i] \in Cell BY <1>12 DEF Ids, View
  <2>2. c.snap[displayed[i]].End = snap[displayed[i]].End BY <1>12 DEF Collected
  <2>3. CASE displayed[i] = x
    <3>1. snap[displayed[i]].End = "ongoing" /\ m.End = "ongoing" BY <1>1, <1>2, <2>3 DEF Ended
    <3>2. d.snap[x] = m BY <1>5 DEF Collected, SnapType
    <3>3. QED BY <2>3, <3>1, <3>2
  <2>4. CASE displayed[i] # x
    <3>1. d.snap[displayed[i]] = c.snap[displayed[i]] BY <1>5, <2>1, <2>4 DEF Collected, SnapType
    <3>2. QED BY <2>2, <3>1
  <2>5. QED BY <2>3, <2>4
<1>13. QED BY <1>4, <1>5, <1>7, <1>9, <1>10, <1>11, <1>12 DEF Collected

LEMMA AllCollected ==
  ASSUME Ids(View), SnapType(snap), NEW groups \in Seq(Seq(Live)), Spare(collect(groups))
  PROVE  Collected(collect(groups), Len(groups))
<1>1. PICK N \in Nat : N = Len(groups) OBVIOUS
<1>2. PICK f : /\ f[0] = [snap |-> snap, cells |-> <<>>]
               /\ \A n \in 1..N : f[n] = merge(f[n - 1], groups[n])
               /\ collect(groups) = f[N]
  BY <1>1, CollectSteps
<1> DEFINE More(n) == \E S : f[n].cells \in Seq(S)
           P == {n \in 0..N : More(n) /\ (Spare(f[n]) => Collected(f[n], n))}
<1>3. 0 \in P
  <2>1. <<>> \in Seq({}) /\ <<>> \in Seq(Cell) /\ Len(<<>>) = 0 OBVIOUS
  <2>2. f[0].cells = <<>> /\ f[0].snap = snap /\ DOMAIN f[0] = {"snap", "cells"} BY <1>2
  <2>3. Collected(f[0], 0) BY <2>1, <2>2 DEF Collected
  <2>4. \E S : f[0].cells \in Seq(S) BY <2>1, <2>2
  <2>5. QED BY <2>3, <2>4
<1>4. ASSUME NEW n \in 0..N, n < N, n \in P PROVE n + 1 \in P
  <2>1. PICK S : f[n].cells \in Seq(S) BY <1>4
  <2>2. n + 1 \in 1..N /\ groups[n + 1] \in Seq(Live) BY <1>1, <1>4
  <2>3. f[n + 1] = merge(f[n], groups[n + 1]) BY <1>2, <2>2
  <2>4. PICK x : f[n + 1].cells = Append(f[n].cells, x) BY <2>3 DEF merge
  <2>5. f[n].cells \in Seq(S \cup {x}) BY <2>1
  <2>6. f[n + 1].cells \in Seq(S \cup {x}) BY <2>4, <2>5
  <2>7. Range(f[n].cells) \subseteq Range(f[n + 1].cells)
    <3>1. PICK s \in Seq(S \cup {x}) : s = f[n].cells BY <2>5
    <3>2. \A i \in DOMAIN s : i \in DOMAIN Append(s, x) /\ Append(s, x)[i] = s[i] OBVIOUS
    <3>3. QED BY <2>4, <3>1, <3>2 DEF Range
  <2>8. Spare(f[n + 1]) => Spare(f[n]) BY <2>7 DEF Spare
  <2>9. Spare(f[n + 1]) => Collected(f[n + 1], n + 1) BY <1>4, <2>2, <2>3, <2>8, MergeStep
  <2>10. QED BY <1>4, <2>6, <2>9
<1>5. 0..N \subseteq P
  <2> HIDE DEF P
  <2>1. QED BY <1>3, <1>4, IntervalInduction
<1>6. Spare(f[N]) => Collected(f[N], N) BY <1>5
<1>7. QED BY <1>1, <1>2, <1>6

(***************************************************************************)
(* The ring of final snapshots against the log of all that were recorded.  *)
(***************************************************************************)
LEMMA RemainderOf ==
  ASSUME NEW s \in Nat \ {0}, NEW x \in Int, NEW q \in Int, NEW r \in 0..(s - 1), x = (q * s) + r
  PROVE  x % s = r
  OBVIOUS

LEMMA NextPlace ==
  ASSUME NEW s \in Nat \ {0}, NEW n \in 0..(s - 1)
  PROVE  (n + 1) % s = IF n + 1 = s THEN 0 ELSE n + 1
<1>1. CASE n + 1 = s
  <2>1. n + 1 = (1 * s) + 0 BY <1>1
  <2>2. 0 \in 0..(s - 1) OBVIOUS
  <2>3. (n + 1) % s = 0 BY <2>1, <2>2, RemainderOf
  <2>4. QED BY <1>1, <2>3
<1>2. CASE n + 1 # s
  <2>1. n + 1 = (0 * s) + (n + 1) OBVIOUS
  <2>2. n + 1 \in 0..(s - 1) BY <1>2
  <2>3. (n + 1) % s = n + 1 BY <2>1, <2>2, RemainderOf
  <2>4. QED BY <1>2, <2>3
<1>3. QED BY <1>1, <1>2

(* Place p of a ring whose oldest entry is at next + 1, after l entries. *)
Recorded(l, next, p) ==
  IF l < HistorySize THEN p ELSE IF p <= next THEN l - next + p ELSE l - HistorySize - next + p
Ring(h, next, l) ==
  /\ h \in Seq([id : ID, cell : Cell]) /\ next \in 0..(HistorySize - 1)
  /\ Len(l) < HistorySize => next = 0
  /\ Len(h) = IF Len(l) < HistorySize THEN Len(l) ELSE HistorySize
  /\ \A p \in 1..Len(h) : h[p].id = l[Recorded(Len(l), next, p)]

LEMMA RingSize == HistorySize \in Nat \ {0} BY HostViewAssumption DEF HostViewAssumption

LEMMA RingGrows ==
  ASSUME NEW h, NEW next, NEW l \in Seq(ID), Ring(h, next, l), Len(h) < HistorySize,
         NEW id \in ID, NEW x \in Cell
  PROVE  Ring(Append(h, Entry(id, x)), next, Append(l, id))
<1>1. PICK H \in Nat \ {0} : H = HistorySize BY RingSize
<1>2. PICK L \in Nat : L = Len(l) OBVIOUS
<1>3. h \in Seq([id : ID, cell : Cell]) /\ L < H /\ next = 0 /\ Len(h) = L BY <1>1, <1>2 DEF Ring
<1>4. PICK m : m = Append(l, id) OBVIOUS
<1>5. Len(m) = L + 1 /\ m[L + 1] = id /\ \A p \in 1..L : m[p] = l[p] BY <1>2, <1>4
<1>6. Entry(id, x) \in [id : ID, cell : Cell] /\ Entry(id, x).id = id BY DEF Entry
<1>7. PICK g : g = Append(h, Entry(id, x)) OBVIOUS
<1>8. /\ g \in Seq([id : ID, cell : Cell]) /\ Len(g) = L + 1 /\ g[L + 1].id = id
      /\ \A p \in 1..L : g[p] = h[p]
  BY <1>3, <1>6, <1>7
<1>9. ASSUME NEW p \in 1..(L + 1) PROVE g[p].id = m[Recorded(L + 1, 0, p)]
  <2>1. Recorded(L + 1, 0, p) = p
    <3>1. L + 1 < H \/ L + 1 = H BY <1>3
    <3>2. QED BY <1>1, <3>1 DEF Recorded
  <2>2. CASE p = L + 1 BY <1>5, <1>8, <2>1, <2>2
  <2>3. CASE p \in 1..L
    <3>1. Recorded(L, 0, p) = p BY <1>1, <1>3 DEF Recorded
    <3>2. h[p].id = l[p] BY <1>2, <1>3, <2>3, <3>1 DEF Ring
    <3>3. QED BY <1>5, <1>8, <2>1, <2>3, <3>2
  <2>4. QED BY <2>2, <2>3
<1>10. Len(g) = IF L + 1 < H THEN L + 1 ELSE H BY <1>3, <1>8
<1>11. QED BY <1>1, <1>3, <1>4, <1>5, <1>7, <1>8, <1>9, <1>10 DEF Ring

LEMMA RingTurns ==
  ASSUME NEW h, NEW next, NEW l \in Seq(ID), Ring(h, next, l), ~(Len(h) < HistorySize),
         NEW id \in ID, NEW x \in Cell
  PROVE  Ring([h EXCEPT ![next + 1] = Entry(id, x)], (next + 1) % HistorySize, Append(l, id))
<1>1. PICK H \in Nat \ {0} : H = HistorySize BY RingSize
<1>2. PICK L \in Nat : L = Len(l) OBVIOUS
<1>3. h \in Seq([id : ID, cell : Cell]) /\ L >= H /\ next \in 0..(H - 1) /\ Len(h) = H
  BY <1>1, <1>2 DEF Ring
<1>4. PICK m : m = Append(l, id) OBVIOUS
<1>5. Len(m) = L + 1 /\ m[L + 1] = id /\ \A p \in 1..L : m[p] = l[p] BY <1>2, <1>4
<1>6. PICK e \in [id : ID, cell : Cell] : e = Entry(id, x) /\ e.id = id
  <2>1. Entry(id, x) \in [id : ID, cell : Cell] /\ Entry(id, x).id = id BY DEF Entry
  <2>2. QED BY <2>1
<1>7. PICK g : g = [h EXCEPT ![next + 1] = e] OBVIOUS
<1>8. /\ g \in Seq([id : ID, cell : Cell]) /\ Len(g) = H /\ g[next + 1] = e
      /\ \A p \in 1..H : p # next + 1 => g[p] = h[p]
  BY <1>3, <1>7
<1>9. PICK to : to = (next + 1) % H OBVIOUS
<1>13. to \in 0..(H - 1) /\ to = IF next + 1 = H THEN 0 ELSE next + 1 BY <1>3, <1>9, NextPlace
<1>10. ASSUME NEW p \in 1..H PROVE g[p].id = m[Recorded(L + 1, to, p)]
  <2>1. Recorded(L + 1, to, p) = IF p <= to THEN L + 1 - to + p ELSE L + 1 - H - to + p
    BY <1>1, <1>3, <1>13 DEF Recorded
  <2>2. CASE p = next + 1
    <3>1. Recorded(L + 1, to, p) = L + 1 BY <1>3, <1>13, <2>1, <2>2
    <3>2. QED BY <1>5, <1>6, <1>8, <2>2, <3>1
  <2>3. CASE p # next + 1
    <3>1. Recorded(L, next, p) = IF p <= next THEN L - next + p ELSE L - H - next + p
      BY <1>1, <1>3 DEF Recorded
    <3>2. Recorded(L + 1, to, p) = Recorded(L, next, p)
      <4>1. CASE next + 1 = H BY <1>3, <1>13, <2>1, <2>3, <3>1, <4>1
      <4>2. CASE next + 1 # H BY <1>3, <1>13, <2>1, <2>3, <3>1, <4>2
      <4>3. QED BY <4>1, <4>2
    <3>3. Recorded(L, next, p) \in 1..L BY <1>3, <2>3, <3>1
    <3>4. h[p].id = l[Recorded(L, next, p)] BY <1>2, <1>3 DEF Ring
    <3>5. QED BY <1>5, <1>8, <2>3, <3>2, <3>3, <3>4
  <2>4. QED BY <2>2, <2>3
<1>11. ~(L + 1 < H) BY <1>3
<1>12. QED BY <1>1, <1>4, <1>5, <1>6, <1>7, <1>8, <1>9, <1>13, <1>10, <1>11 DEF Ring

LEMMA RingIsLatest ==
  ASSUME NEW h, NEW next, NEW l \in Seq(ID), Ring(h, next, l), NEW kept, kept = Min({HistorySize, Len(l)})
  PROVE  /\ Len(h) = kept
         /\ {e.id : e \in Range(h)} = Range(SubSeq(l, Len(l) - kept + 1, Len(l)))
<1>1. PICK H \in Nat \ {0} : H = HistorySize BY RingSize
<1>2. PICK L \in Nat : L = Len(l) OBVIOUS
<1>3. kept = IF L < H THEN L ELSE H
  <2>1. {H, L} \in SUBSET Nat OBVIOUS
  <2>2. PICK k \in {H, L} : k = kept /\ \A x \in {H, L} : k <= x
    <3>1. \E k \in {H, L} : \A x \in {H, L} : k <= x BY <2>1, Least
    <3>2. QED BY <1>1, <1>2, <3>1 DEF Min
  <2>3. QED BY <2>2
<1>7. kept \in Nat /\ kept <= L BY <1>3
<1>4. Len(h) = kept /\ h \in Seq([id : ID, cell : Cell]) BY <1>1, <1>2, <1>3 DEF Ring
<1>5. PICK s : s = SubSeq(l, L - kept + 1, L) OBVIOUS
<1>6. DOMAIN s = 1..kept /\ \A k \in 1..kept : s[k] = l[L - kept + k]
  <2>1. \A k \in (L - kept + 1)..L : l[k] \in ID BY <1>2, <1>7
  <2>2. PICK m \in Int : m = L - kept + 1 BY <1>7
  <2>3. L - m + 1 = kept /\ (m <= L <=> kept # 0) BY <1>7, <2>2
  <2>4. \A k \in m..L : l[k] \in ID BY <2>1, <2>2
  <2>5. /\ s \in Seq(ID) /\ Len(s) = IF m <= L THEN L - m + 1 ELSE 0
        /\ \A k \in 1..(L - m + 1) : s[k] = l[m + k - 1]
    <3>1. s = SubSeq(l, m, L) BY <1>5, <2>2
    <3>2. L \in Int OBVIOUS
    <3>3. QED BY <2>4, <3>1, <3>2, SubSeqProperties
  <2>6. DOMAIN s = 1..kept BY <1>7, <2>3, <2>5
  <2>7. ASSUME NEW k \in 1..kept PROVE s[k] = l[L - kept + k]
    <3>1. m + k - 1 = L - kept + k BY <1>7, <2>2
    <3>2. s[k] = l[m + k - 1] BY <2>3, <2>5
    <3>3. QED BY <3>1, <3>2
  <2>8. QED BY <2>6, <2>7
<1>8. next \in 0..(H - 1) /\ (L < H => next = 0) BY <1>1, <1>2 DEF Ring
<1>9. ASSUME NEW p \in 1..kept PROVE \E k \in 1..kept : h[p].id = s[k]
  <2>1. Recorded(L, next, p) - (L - kept) \in 1..kept BY <1>1, <1>3, <1>8 DEF Recorded
  <2>2. PICK k \in 1..kept : L - kept + k = Recorded(L, next, p)
    <3>1. Recorded(L, next, p) \in Int BY <1>1, <1>8 DEF Recorded
    <3>2. QED BY <1>7, <2>1, <3>1
  <2>3. h[p].id = l[Recorded(L, next, p)] BY <1>2, <1>4 DEF Ring
  <2>4. QED BY <1>6, <2>2, <2>3
<1>10. ASSUME NEW k \in 1..kept PROVE \E p \in 1..kept : h[p].id = s[k]
  <2>1. PICK p \in 1..kept : Recorded(L, next, p) = L - kept + k
    <3>1. CASE L < H BY <1>1, <1>3, <3>1 DEF Recorded
    <3>2. CASE ~(L < H) /\ k + next <= H
      <4>1. k + next \in 1..kept /\ ~(k + next <= next) BY <1>3, <1>8, <3>2
      <4>2. Recorded(L, next, k + next) = L - kept + k BY <1>1, <1>3, <1>8, <3>2, <4>1 DEF Recorded
      <4>3. QED BY <4>1, <4>2
    <3>3. CASE ~(L < H) /\ ~(k + next <= H)
      <4>1. k + next - H \in 1..kept /\ k + next - H <= next BY <1>3, <1>8, <3>3
      <4>2. Recorded(L, next, k + next - H) = L - kept + k BY <1>1, <1>3, <1>8, <3>3, <4>1 DEF Recorded
      <4>3. QED BY <4>1, <4>2
    <3>4. QED BY <3>1, <3>2, <3>3
  <2>2. h[p].id = l[Recorded(L, next, p)] BY <1>2, <1>4 DEF Ring
  <2>3. QED BY <1>6, <2>1, <2>2
<1>11. Range(h) = {h[p] : p \in 1..kept} 
  <2>1. DOMAIN h = 1..kept BY <1>4
  <2>2. QED BY <2>1 DEF Range
<1>12. PICK R : R = Range(h) OBVIOUS
<1>13. PICK A, B : A = {e.id : e \in R} /\ B = Range(s) OBVIOUS
<1>14. ASSUME NEW i \in A PROVE i \in B
  <2>1. PICK e \in R : i = e.id BY <1>13
  <2>2. PICK p \in 1..kept : e = h[p] BY <1>11, <1>12, <2>1
  <2>3. PICK k \in 1..kept : h[p].id = s[k] BY <1>9
  <2>4. QED BY <1>6, <1>13, <2>1, <2>2, <2>3 DEF Range
<1>15. ASSUME NEW i \in B PROVE i \in A
  <2>1. PICK k \in 1..kept : i = s[k] BY <1>6, <1>13 DEF Range
  <2>2. PICK p \in 1..kept : h[p].id = s[k] BY <1>10
  <2>3. h[p] \in R BY <1>11, <1>12
  <2>4. QED BY <1>13, <2>1, <2>2, <2>3
<1>16. A = B BY <1>14, <1>15
<1>17. QED BY <1>2, <1>4, <1>5, <1>12, <1>13, <1>16

(***************************************************************************)
(* What holds of the view r while updateAt builds it from that of the       *)
(* variables: the log and its ring, and that a recorded connection has a     *)
(* final snapshot.  used are the cells of the groups that have their place. *)
(***************************************************************************)
Logged(r) ==
  /\ r.log \in Seq(ID) /\ IsInjective(r.log) /\ \A k \in DOMAIN r.log : r.log[k] <= r.nextID
  /\ Ring(r.history, r.historyNext, r.log)
Final(r) ==
  \A i \in Range(r.log) :
    /\ r.displayed[i] # NoCell => Ended(r.snap, r.displayed[i])
    /\ displayed[i] # NoCell => Ended(r.snap, displayed[i])
(* What was over is over still, and for the same reason. *)
EndsKept(r, used) ==
  \A i \in ID :
    displayed[i] # NoCell /\ Ended(snap, displayed[i]) =>
      /\ r.snap[displayed[i]].End = snap[displayed[i]].End
      /\ r.displayed[i] # NoCell =>
           r.displayed[i] \in used /\ r.snap[r.displayed[i]].End = snap[displayed[i]].End
(* Only what was shown and what is new is shown, and what is new is. *)
Newcomers(r) ==
  /\ nextID <= r.nextID
  /\ \A i \in ID : r.displayed[i] # NoCell => displayed[i] # NoCell \/ i > nextID
  /\ \A i \in ID : nextID < i /\ i <= r.nextID => r.displayed[i] # NoCell
Good(r, used) ==
  Ids(r) /\ SnapType(r.snap) /\ Logged(r) /\ Final(r) /\ EndsKept(r, used) /\ Newcomers(r)

Ending(r, x, e) == [r EXCEPT !.snap[x].End = e]

LEMMA EndGiven ==
  ASSUME Ids(View), NEW r, DOMAIN r = Parts, NEW used, Good(r, used),
         NEW x \in Cell, ~Ended(r.snap, x), NEW e, e # "ongoing",
         NEW s, s = Ending(r, x, e)
  PROVE  /\ DOMAIN s = Parts /\ Good(s, used) /\ Ended(s.snap, x)
         /\ \A field \in Parts \ {"snap"} : s[field] = r[field]
<1>1. /\ DOMAIN s = Parts /\ \A field \in Parts \ {"snap"} : s[field] = r[field]
      /\ s.snap = [r.snap EXCEPT ![x].End = e]
  BY DEF Ending, Parts
<1>2. /\ s.nextID = r.nextID /\ s.flowIDs = r.flowIDs /\ s.displayed = r.displayed
      /\ s.history = r.history /\ s.historyNext = r.historyNext /\ s.log = r.log
  BY <1>1 DEF Parts
<1>3. SnapType(r.snap) BY DEF Good
<1>4. /\ DOMAIN s.snap = Cell
      /\ \A c \in Cell : s.snap[c] = IF c = x THEN [r.snap[x] EXCEPT !.End = e] ELSE r.snap[c]
  BY <1>1, <1>3 DEF SnapType
<1>5. /\ \A c \in Cell : DOMAIN s.snap[c] = {"bytes", "Closed", "Last", "End"}
      /\ \A c \in Cell : s.snap[c].End = IF c = x THEN e ELSE r.snap[c].End
  BY <1>3, <1>4 DEF SnapType
<1>6. SnapType(s.snap) BY <1>4, <1>5 DEF SnapType
<1>7. \A c \in Cell : /\ Ended(r.snap, c) => s.snap[c].End = r.snap[c].End
                      /\ Ended(r.snap, c) => Ended(s.snap, c)
  BY <1>5 DEF Ended
<1>8. Ids(s) BY <1>2 DEF Good, Ids
<1>9. Logged(s) BY <1>2 DEF Good, Logged
<1>10. \A i \in ID : /\ displayed[i] # NoCell => displayed[i] \in Cell
                     /\ r.displayed[i] # NoCell => r.displayed[i] \in Cell
  BY DEF Good, Ids, View
<1>11. Range(r.log) \subseteq ID BY DEF Good, Logged, Range
<1>12. Final(s) BY <1>2, <1>7, <1>10, <1>11 DEF Good, Final
<1>13. EndsKept(s, used)
  <2> SUFFICES ASSUME NEW i \in ID, displayed[i] # NoCell, Ended(snap, displayed[i])
               PROVE  /\ s.snap[displayed[i]].End = snap[displayed[i]].End
                      /\ s.displayed[i] # NoCell =>
                           /\ s.displayed[i] \in used
                           /\ s.snap[s.displayed[i]].End = snap[displayed[i]].End
    BY DEF EndsKept
  <2>1. r.snap[displayed[i]].End = snap[displayed[i]].End BY DEF Good, EndsKept
  <2>2. s.snap[displayed[i]].End = snap[displayed[i]].End BY <1>7, <1>10, <2>1 DEF Ended
  <2>3. CASE r.displayed[i] # NoCell
    <3>1. r.displayed[i] \in used /\ r.snap[r.displayed[i]].End = snap[displayed[i]].End
      BY <2>3 DEF Good, EndsKept
    <3>2. s.snap[r.displayed[i]].End = snap[displayed[i]].End BY <1>7, <1>10, <2>3, <3>1 DEF Ended
    <3>3. QED BY <1>2, <2>2, <3>1, <3>2
  <2>4. QED BY <1>2, <2>2, <2>3
<1>14. Newcomers(s) BY <1>2 DEF Good, Newcomers
<1>15. Ended(s.snap, x) BY <1>5 DEF Ended
<1>16. QED BY <1>1, <1>6, <1>8, <1>9, <1>12, <1>13, <1>14, <1>15 DEF Good

LEMMA Remembers ==
  ASSUME NEW r, DOMAIN r = Parts, NEW used, Good(r, used),
         NEW id \in ID, id <= r.nextID, id \notin Range(r.log), NEW x \in Cell,
         r.displayed[id] # NoCell => Ended(r.snap, r.displayed[id]),
         displayed[id] # NoCell => Ended(r.snap, displayed[id]),
         NEW s, s = remember(r, id, x)
  PROVE  /\ DOMAIN s = Parts /\ Good(s, used) /\ id \in Range(s.log)
         /\ \A field \in Parts \ {"history", "historyNext", "log"} : s[field] = r[field]
<1>1. /\ DOMAIN s = Parts /\ s.log = Append(r.log, id)
      /\ \A field \in Parts \ {"history", "historyNext", "log"} : s[field] = r[field]
  BY DEF remember, Parts
<1>2. /\ s.nextID = r.nextID /\ s.flowIDs = r.flowIDs /\ s.displayed = r.displayed /\ s.snap = r.snap
  BY <1>1 DEF Parts
<1>3. r.log \in Seq(ID) /\ Ring(r.history, r.historyNext, r.log) BY DEF Good, Logged
<1>4. Ring(s.history, s.historyNext, s.log)
  <2>1. CASE Len(r.history) < HistorySize
    <3>1. s.history = Append(r.history, Entry(id, x)) /\ s.historyNext = r.historyNext
      BY <2>1 DEF remember, Parts
    <3>2. QED BY <1>1, <1>3, <2>1, <3>1, RingGrows
  <2>2. CASE ~(Len(r.history) < HistorySize)
    <3>1. /\ s.history = [r.history EXCEPT ![r.historyNext + 1] = Entry(id, x)]
          /\ s.historyNext = (r.historyNext + 1) % HistorySize
      BY <2>2 DEF remember, Parts
    <3>2. QED BY <1>1, <1>3, <2>2, <3>1, RingTurns
  <2>3. QED BY <2>1, <2>2
<1>5. PICK n \in Nat : n = Len(r.log) BY <1>3
<1>6. /\ DOMAIN r.log = 1..n /\ DOMAIN s.log = 1..(n + 1) /\ s.log[n + 1] = id /\ s.log \in Seq(ID)
      /\ \A k \in 1..n : s.log[k] = r.log[k]
  BY <1>1, <1>3, <1>5
<1>7. \A k \in 1..n : r.log[k] # id BY <1>6 DEF Range
<1>8. ASSUME NEW j \in 1..(n + 1), NEW k \in 1..(n + 1), s.log[j] = s.log[k] PROVE j = k
  <2>1. \A a, b \in 1..n : r.log[a] = r.log[b] => a = b BY <1>6 DEF Good, Logged, IsInjective
  <2>2. (j \in 1..n \/ j = n + 1) /\ (k \in 1..n \/ k = n + 1) OBVIOUS
  <2>3. QED BY <1>6, <1>7, <1>8, <2>1, <2>2
<1>9. IsInjective(s.log) BY <1>6, <1>8 DEF IsInjective
<1>10. ASSUME NEW k \in 1..(n + 1) PROVE s.log[k] <= s.nextID
  <2>1. k \in 1..n \/ k = n + 1 OBVIOUS
  <2>2. QED BY <1>2, <1>6, <2>1 DEF Good, Logged
<1>11. Logged(s) BY <1>4, <1>6, <1>9, <1>10 DEF Logged
<1>12. \A i \in Range(s.log) : i \in Range(r.log) \/ i = id
  <2> SUFFICES ASSUME NEW k \in 1..(n + 1) PROVE s.log[k] \in Range(r.log) \/ s.log[k] = id
    BY <1>6 DEF Range
  <2>1. k \in 1..n \/ k = n + 1 OBVIOUS
  <2>2. QED BY <1>6, <2>1 DEF Range
<1>13. Final(s) BY <1>2, <1>12 DEF Good, Final
<1>14. id \in Range(s.log)
  <2>1. n + 1 \in DOMAIN s.log BY <1>6
  <2>2. QED BY <1>6, <2>1 DEF Range
<1>15. Ids(s) /\ SnapType(s.snap) /\ EndsKept(s, used) /\ Newcomers(s)
  BY <1>2 DEF Good, Ids, EndsKept, Newcomers
<1>16. QED BY <1>1, <1>11, <1>13, <1>14, <1>15 DEF Good

(***************************************************************************)
(* show, up to endIf: a group takes its place.                             *)
(***************************************************************************)
NewHere(r, group) == firstID(group) = 0 \/ r.displayed[firstID(group)] # NoCell
IdOf(r, group) == IF NewHere(r, group) THEN r.nextID + 1 ELSE firstID(group)
WasOf(r, group) == IF NewHere(r, group) THEN NoCell ELSE displayed[firstID(group)]
WasOver(r, group) == WasOf(r, group) # NoCell /\ r.snap[WasOf(r, group)].End # "ongoing"
ShownAt(r, group, cell) ==
  IF WasOf(r, group) = NoCell \/ WasOver(r, group) THEN cell ELSE WasOf(r, group)
MemoryOf(r, group, cell) ==
  IF WasOf(r, group) = NoCell THEN r.snap
  ELSE IF WasOver(r, group) THEN [r.snap EXCEPT ![cell].End = r.snap[WasOf(r, group)].End]
  ELSE [r.snap EXCEPT ![WasOf(r, group)] = r.snap[cell]]
Placed(r, group, cell) ==
  LET id == IdOf(r, group) IN
  [r EXCEPT !.nextID = IF NewHere(r, group) THEN id ELSE @,
            !.flowIDs = [o \in Obs |-> IF o \in Range(group) THEN id ELSE @[o]],
            !.active[id] = r.snap[cell].bytes,
            !.displayed[id] = ShownAt(r, group, cell),
            !.snap = MemoryOf(r, group, cell),
            !.absorbed = @ \cup earlierIDs(group)]

LEMMA ShowPlaces ==
  ASSUME NEW r, NEW group, NEW cell
  PROVE  show(r, group, cell)
           = endIf(Placed(r, group, cell), IdOf(r, group), ShownAt(r, group, cell), WasOver(r, group))
  BY DEF show, Placed, IdOf, ShownAt, WasOver, WasOf, NewHere, MemoryOf

LEMMA PlacedParts ==
  ASSUME NEW r, DOMAIN r = Parts, NEW group, NEW cell, NEW p, p = Placed(r, group, cell),
         NEW id, id = IdOf(r, group), NEW shown, shown = ShownAt(r, group, cell)
  PROVE  /\ DOMAIN p = Parts
         /\ p.nextID = IF NewHere(r, group) THEN id ELSE r.nextID
         /\ p.flowIDs = [o \in Obs |-> IF o \in Range(group) THEN id ELSE r.flowIDs[o]]
         /\ p.displayed = [r.displayed EXCEPT ![id] = shown]
         /\ p.snap = MemoryOf(r, group, cell) /\ p.history = r.history
         /\ p.historyNext = r.historyNext /\ p.log = r.log
  BY DEF Placed, Parts

LEMMA EndIfKeeps ==
  ASSUME NEW r, DOMAIN r = Parts, NEW id, NEW cell, NEW over_
  PROVE  /\ DOMAIN endIf(r, id, cell, over_) = Parts
         /\ \A field \in {"nextID", "flowIDs", "active", "displayed", "expired", "absorbed"} :
              endIf(r, id, cell, over_)[field] = r[field]
<1>1. ASSUME NEW q, DOMAIN q = Parts
      PROVE  /\ DOMAIN remember(q, id, cell) = Parts
             /\ \A field \in Parts \ {"history", "historyNext", "log"} :
                  remember(q, id, cell)[field] = q[field]
  BY <1>1 DEF remember, Parts
<1>2. PICK q : q = [r EXCEPT !.snap[cell].End = endReason(r.snap[cell])] OBVIOUS
<1>3. DOMAIN q = Parts /\ \A field \in Parts \ {"snap"} : q[field] = r[field] BY <1>2 DEF Parts
<1>4. \/ endIf(r, id, cell, over_) = remember(r, id, cell)
      \/ endIf(r, id, cell, over_) = remember(q, id, cell)
      \/ endIf(r, id, cell, over_) = r
  BY <1>2 DEF endIf
<1>5. DOMAIN remember(r, id, cell) = Parts /\ DOMAIN remember(q, id, cell) = Parts BY <1>1, <1>3
<1>6. {"nextID", "flowIDs", "active", "displayed", "expired", "absorbed"}
        \subseteq Parts \ {"history", "historyNext", "log", "snap"}
  BY DEF Parts
<1>7. ASSUME NEW field \in {"nextID", "flowIDs", "active", "displayed", "expired", "absorbed"}
      PROVE  remember(r, id, cell)[field] = r[field] /\ remember(q, id, cell)[field] = r[field]
  BY <1>1, <1>3, <1>6
<1>8. QED BY <1>4, <1>5, <1>7

LEMMA ShowCounts ==
  ASSUME NEW r, DOMAIN r = Parts, r.nextID \in Nat, NEW group, NEW cell, NEW s, s = show(r, group, cell)
  PROVE  DOMAIN s = Parts /\ s.nextID \in Nat /\ r.nextID <= s.nextID
<1>1. PICK p : p = Placed(r, group, cell) OBVIOUS
<1>2. /\ DOMAIN p = Parts /\ p.nextID = IF NewHere(r, group) THEN IdOf(r, group) ELSE r.nextID
  BY <1>1 DEF Placed, Parts
<1>3. s = endIf(p, IdOf(r, group), ShownAt(r, group, cell), WasOver(r, group)) BY <1>1, ShowPlaces
<1>4. DOMAIN s = Parts /\ s.nextID = p.nextID BY <1>2, <1>3, EndIfKeeps
<1>5. p.nextID \in Nat /\ r.nextID <= p.nextID BY <1>2 DEF IdOf
<1>6. QED BY <1>4, <1>5

LEMMA PlaceTaken ==
  ASSUME Ids(View), NEW group \in Seq(Live), NEW r, DOMAIN r = Parts, NEW used, Good(r, used),
         NEW cell \in Cell, NEW id, id = IdOf(r, group), id \in ID
  PROVE  /\ r.displayed[id] = NoCell /\ WasOf(r, group) = displayed[id] /\ r.nextID \in Nat
         /\ displayed[id] \in Cell \cup {NoCell} /\ ShownAt(r, group, cell) \in Cell
         /\ id <= IF NewHere(r, group) THEN id ELSE r.nextID
         /\ NewHere(r, group) => id = r.nextID + 1 /\ displayed[id] = NoCell /\ id > nextID
         /\ ~NewHere(r, group) => displayed[id] # NoCell
<1>1. /\ r.nextID \in Nat /\ nextID \in Nat /\ nextID <= r.nextID
      /\ \A i \in ID : /\ r.displayed[i] # NoCell => i <= r.nextID
                       /\ displayed[i] # NoCell => i <= nextID
                       /\ displayed[i] \in Cell \cup {NoCell}
  BY DEF Good, Ids, Newcomers, View
<1>2. id \in Nat BY DEF ID
<1>3. CASE NewHere(r, group)
  <2>1. id = r.nextID + 1 BY <1>3 DEF IdOf
  <2>2. r.displayed[id] = NoCell /\ displayed[id] = NoCell /\ id > nextID BY <1>1, <1>2, <2>1
  <2>3. WasOf(r, group) = NoCell BY <1>3 DEF WasOf
  <2>4. ShownAt(r, group, cell) = cell BY <2>3 DEF ShownAt
  <2>5. QED BY <1>1, <1>2, <1>3, <2>1, <2>2, <2>3, <2>4
<1>4. CASE ~NewHere(r, group)
  <2>1. id = firstID(group) /\ firstID(group) # 0 /\ r.displayed[id] = NoCell
    BY <1>4 DEF IdOf, NewHere
  <2>2. displayed[id] \in Cell BY <2>1, FirstIDs
  <2>3. WasOf(r, group) = displayed[id] BY <1>4, <2>1 DEF WasOf
  <2>4. ShownAt(r, group, cell) \in Cell BY <2>2, <2>3 DEF ShownAt
  <2>5. displayed[id] # NoCell BY <2>2, CellsAreNumbers
  <2>6. id <= r.nextID BY <1>1, <1>2, <2>5
  <2>7. QED BY <1>1, <1>4, <2>1, <2>2, <2>3, <2>4, <2>5, <2>6
<1>5. QED BY <1>3, <1>4

LEMMA MemoryKeepsEnds ==
  ASSUME NEW r, SnapType(r.snap), NEW group, NEW cell \in Cell, WasOf(r, group) \in Cell \cup {NoCell},
         NEW m, m = MemoryOf(r, group, cell)
  PROVE  /\ SnapType(m)
         /\ \A c \in Cell : Ended(r.snap, c) => Ended(m, c) /\ (c # cell => m[c].End = r.snap[c].End)
         /\ WasOver(r, group) => m[cell].End = r.snap[WasOf(r, group)].End
<1>1. CASE WasOf(r, group) = NoCell
  <2>1. m = r.snap BY <1>1 DEF MemoryOf
  <2>2. ~WasOver(r, group) BY <1>1 DEF WasOver
  <2>3. QED BY <2>1, <2>2
<1>2. CASE WasOf(r, group) # NoCell /\ WasOver(r, group)
  <2>1. PICK e : e = r.snap[WasOf(r, group)].End /\ e # "ongoing" BY <1>2 DEF WasOver
  <2>2. m = [r.snap EXCEPT ![cell].End = e] BY <1>2, <2>1 DEF MemoryOf
  <2>3. /\ DOMAIN m = Cell
        /\ \A c \in Cell : m[c] = IF c = cell THEN [r.snap[cell] EXCEPT !.End = e] ELSE r.snap[c]
    BY <2>2 DEF SnapType
  <2>4. m[cell].End = e BY <2>3 DEF SnapType
  <2>5. SnapType(m) BY <2>3 DEF SnapType
  <2>6. QED BY <2>1, <2>3, <2>4, <2>5 DEF Ended
<1>3. CASE WasOf(r, group) # NoCell /\ ~WasOver(r, group)
  <2>1. PICK was \in Cell : was = WasOf(r, group) BY <1>3
  <2>2. r.snap[was].End = "ongoing" BY <1>3, <2>1 DEF WasOver
  <2>3. m = [r.snap EXCEPT ![was] = r.snap[cell]] BY <1>3, <2>1 DEF MemoryOf
  <2>4. DOMAIN m = Cell /\ \A c \in Cell : m[c] = IF c = was THEN r.snap[cell] ELSE r.snap[c]
    BY <2>3 DEF SnapType
  <2>5. SnapType(m) BY <2>4 DEF SnapType
  <2>6. QED BY <1>3, <2>2, <2>4, <2>5 DEF Ended
<1>4. QED BY <1>1, <1>2, <1>3

LEMMA PlacedGood ==
  ASSUME Ids(View), NEW group \in Seq(Live), NEW r, DOMAIN r = Parts, NEW used, Good(r, used),
         NEW cell \in Cell, cell \notin used,
         \A i \in ID : displayed[i] = cell => ~Ended(snap, displayed[i]),
         NEW id, id = IdOf(r, group), id \in ID, NEW p, p = Placed(r, group, cell)
  PROVE  /\ DOMAIN p = Parts /\ Good(p, used \cup {cell}) /\ id <= p.nextID
         /\ p.displayed[id] = ShownAt(r, group, cell)
         /\ WasOver(r, group) => Ended(p.snap, ShownAt(r, group, cell))
         /\ ~WasOver(r, group) =>
              /\ id \notin Range(p.log)
              /\ displayed[id] # NoCell => displayed[id] = ShownAt(r, group, cell)
<1>1. PICK was, shown : was = WasOf(r, group) /\ shown = ShownAt(r, group, cell) OBVIOUS
<1>2. /\ DOMAIN p = Parts
      /\ p.nextID = IF NewHere(r, group) THEN id ELSE r.nextID
      /\ p.flowIDs = [o \in Obs |-> IF o \in Range(group) THEN id ELSE r.flowIDs[o]]
      /\ p.displayed = [r.displayed EXCEPT ![id] = shown]
      /\ p.snap = MemoryOf(r, group, cell) /\ p.history = r.history
      /\ p.historyNext = r.historyNext /\ p.log = r.log
  BY <1>1, PlacedParts
<1>3. /\ r.displayed[id] = NoCell /\ was = displayed[id] /\ r.nextID \in Nat
      /\ displayed[id] \in Cell \cup {NoCell} /\ shown \in Cell
      /\ id <= IF NewHere(r, group) THEN id ELSE r.nextID
      /\ NewHere(r, group) => id = r.nextID + 1 /\ displayed[id] = NoCell /\ id > nextID
      /\ ~NewHere(r, group) => displayed[id] # NoCell
  BY <1>1, PlaceTaken
<1>4. SnapType(r.snap) BY DEF Good
<1>5. /\ SnapType(p.snap)
      /\ \A c \in Cell : Ended(r.snap, c) =>
           Ended(p.snap, c) /\ (c # cell => p.snap[c].End = r.snap[c].End)
      /\ WasOver(r, group) => p.snap[cell].End = r.snap[was].End
  <2>1. PICK m : m = MemoryOf(r, group, cell) OBVIOUS
  <2>2. WasOf(r, group) \in Cell \cup {NoCell} BY <1>1, <1>3
  <2>3. /\ SnapType(m)
        /\ \A c \in Cell : Ended(r.snap, c) => Ended(m, c) /\ (c # cell => m[c].End = r.snap[c].End)
        /\ WasOver(r, group) => m[cell].End = r.snap[WasOf(r, group)].End
    BY <1>4, <2>1, <2>2, MemoryKeepsEnds
  <2>4. p.snap = m BY <1>2, <2>1
  <2>5. QED BY <1>1, <2>3, <2>4
<1>6. /\ WasOver(r, group) <=> was # NoCell /\ Ended(r.snap, was)
      /\ shown = IF was = NoCell \/ WasOver(r, group) THEN cell ELSE was
  BY <1>1 DEF WasOver, ShownAt, Ended
<1>7. NoCell \notin Cell BY CellsAreNumbers
<1>8. /\ r.displayed \in [ID -> Cell \cup {NoCell}]
      /\ \A i \in ID : displayed[i] \in Cell \cup {NoCell}
  BY DEF Good, Ids, View
<1>9. \A i \in ID : p.displayed[i] = IF i = id THEN shown ELSE r.displayed[i] BY <1>2, <1>8
<1>10. p.nextID \in Nat /\ id <= p.nextID /\ r.nextID <= p.nextID
  <2>1. id \in Nat BY DEF ID
  <2>2. CASE NewHere(r, group) BY <1>2, <1>3, <2>1, <2>2
  <2>3. CASE ~NewHere(r, group) BY <1>2, <1>3, <2>1, <2>3
  <2>4. QED BY <2>2, <2>3
<1>11. Ids(p)
  <2>1. p.displayed \in [ID -> Cell \cup {NoCell}] BY <1>2, <1>3, <1>8
  <2>2. ASSUME NEW i \in ID, p.displayed[i] # NoCell PROVE i <= p.nextID
    <3>1. CASE i = id BY <1>10, <3>1
    <3>2. CASE i # id
      <4>1. i <= r.nextID BY <1>9, <2>2, <3>2 DEF Good, Ids
      <4>2. QED BY <1>3, <1>10, <4>1 DEF ID
    <3>3. QED BY <3>1, <3>2
  <2>3. ASSUME NEW o \in Obs, p.flowIDs[o] # 0
        PROVE  p.flowIDs[o] \in ID /\ p.displayed[p.flowIDs[o]] # NoCell
    <3>1. p.displayed[id] # NoCell BY <1>3, <1>7, <1>9
    <3>2. CASE o \in Range(group) BY <1>2, <3>1, <3>2
    <3>3. CASE o \notin Range(group)
      <4>1. p.flowIDs[o] = r.flowIDs[o] BY <1>2, <3>3
      <4>2. r.flowIDs[o] \in ID /\ r.displayed[r.flowIDs[o]] # NoCell BY <2>3, <4>1 DEF Good, Ids
      <4>3. QED BY <1>9, <3>1, <4>1, <4>2
    <3>4. QED BY <3>2, <3>3
  <2>4. DOMAIN p.flowIDs = Obs BY <1>2
  <2>5. QED BY <1>10, <2>1, <2>2, <2>3, <2>4 DEF Ids
<1>12. r.log \in Seq(ID) /\ \A k \in DOMAIN r.log : r.log[k] \in ID /\ r.log[k] <= r.nextID
  BY DEF Good, Logged
<1>13. Logged(p)
  <2>1. ASSUME NEW k \in DOMAIN r.log PROVE r.log[k] <= p.nextID
    <3>1. r.log[k] \in Int BY <1>12 DEF ID
    <3>2. QED BY <1>3, <1>10, <1>12, <3>1
  <2>2. QED BY <1>2, <2>1 DEF Good, Logged
<1>14. ~WasOver(r, group) => id \notin Range(r.log)
  <2> SUFFICES ASSUME ~WasOver(r, group), id \in Range(r.log) PROVE FALSE OBVIOUS
  <2>1. PICK k \in DOMAIN r.log : r.log[k] = id BY DEF Range
  <2>2. id <= r.nextID BY <1>12, <2>1
  <2>3. ~NewHere(r, group) BY <1>3, <2>2
  <2>4. Ended(r.snap, displayed[id]) BY <1>3, <2>3 DEF Good, Final
  <2>5. QED BY <1>3, <1>6, <2>3, <2>4
<1>15. Final(p)
  <2> SUFFICES ASSUME NEW i \in Range(r.log)
               PROVE  /\ p.displayed[i] # NoCell => Ended(p.snap, p.displayed[i])
                      /\ displayed[i] # NoCell => Ended(p.snap, displayed[i])
    BY <1>2 DEF Final
  <2>1. i \in ID BY <1>12 DEF Range
  <2>2. /\ r.displayed[i] # NoCell => Ended(r.snap, r.displayed[i])
        /\ displayed[i] # NoCell => Ended(r.snap, displayed[i])
    BY DEF Good, Final
  <2>3. displayed[i] # NoCell => Ended(p.snap, displayed[i]) BY <1>5, <1>8, <2>1, <2>2
  <2>4. CASE i = id
    <3>1. WasOver(r, group) BY <1>14, <2>4
    <3>2. p.displayed[i] = cell /\ p.snap[cell].End = r.snap[was].End
      BY <1>5, <1>6, <1>9, <2>1, <2>4, <3>1
    <3>3. QED BY <1>6, <2>3, <3>1, <3>2 DEF Ended
  <2>5. CASE i # id
    <3>1. p.displayed[i] = r.displayed[i] BY <1>9, <2>1, <2>5
    <3>2. QED BY <1>5, <1>8, <2>1, <2>2, <2>3, <3>1
  <2>6. QED BY <2>4, <2>5
<1>16. EndsKept(p, used \cup {cell})
  <2> SUFFICES ASSUME NEW i \in ID, displayed[i] # NoCell, Ended(snap, displayed[i])
               PROVE  /\ p.snap[displayed[i]].End = snap[displayed[i]].End
                      /\ p.displayed[i] # NoCell =>
                           /\ p.displayed[i] \in used \cup {cell}
                           /\ p.snap[p.displayed[i]].End = snap[displayed[i]].End
    BY DEF EndsKept
  <2>1. r.snap[displayed[i]].End = snap[displayed[i]].End BY DEF Good, EndsKept
  <2>2. Ended(r.snap, displayed[i]) BY <2>1 DEF Ended
  <2>3. displayed[i] # cell /\ displayed[i] \in Cell BY <1>8
  <2>4. p.snap[displayed[i]].End = snap[displayed[i]].End BY <1>5, <2>1, <2>2, <2>3
  <2>5. CASE i = id
    <3>1. WasOver(r, group) BY <1>3, <1>6, <2>2, <2>5
    <3>2. p.displayed[i] = cell /\ p.snap[cell].End = r.snap[was].End
      BY <1>5, <1>6, <1>9, <2>5, <3>1
    <3>3. QED BY <1>3, <2>1, <2>4, <2>5, <3>2
  <2>6. CASE i # id /\ r.displayed[i] # NoCell
    <3>1. p.displayed[i] = r.displayed[i] BY <1>9, <2>6
    <3>2. r.displayed[i] \in used /\ r.snap[r.displayed[i]].End = snap[displayed[i]].End
      BY <2>6 DEF Good, EndsKept
    <3>3. Ended(r.snap, r.displayed[i]) /\ r.displayed[i] \in Cell BY <1>8, <2>6, <3>2 DEF Ended
    <3>4. r.displayed[i] # cell BY <3>2
    <3>5. p.snap[r.displayed[i]].End = snap[displayed[i]].End BY <1>5, <3>2, <3>3, <3>4
    <3>6. QED BY <2>4, <3>1, <3>2, <3>5
  <2>7. CASE i # id /\ r.displayed[i] = NoCell BY <1>9, <2>4, <2>7
  <2>8. QED BY <2>5, <2>6, <2>7
<1>17. Newcomers(p)
  <2>1. nextID \in Nat /\ nextID <= r.nextID BY DEF Good, Newcomers, Ids, View
  <2>2. nextID <= p.nextID BY <1>3, <1>10, <2>1
  <2>3. ASSUME NEW i \in ID, p.displayed[i] # NoCell PROVE displayed[i] # NoCell \/ i > nextID
    <3>1. CASE i = id BY <1>3, <3>1
    <3>2. CASE i # id BY <1>9, <2>3, <3>2 DEF Good, Newcomers
    <3>3. QED BY <3>1, <3>2
  <2>4. ASSUME NEW i \in ID, nextID < i, i <= p.nextID PROVE p.displayed[i] # NoCell
    <3>1. CASE i = id BY <1>3, <1>7, <1>9, <3>1
    <3>2. CASE i # id
      <4>1. i <= r.nextID
        <5>1. CASE NewHere(r, group) BY <1>2, <1>3, <2>4, <3>2, <5>1 DEF ID
        <5>2. CASE ~NewHere(r, group) BY <1>2, <2>4, <5>2
        <5>3. QED BY <5>1, <5>2
      <4>2. QED BY <1>9, <2>4, <3>2, <4>1 DEF Good, Newcomers
    <3>3. QED BY <3>1, <3>2
  <2>5. QED BY <2>2, <2>3, <2>4 DEF Newcomers
<1>18. WasOver(r, group) => Ended(p.snap, shown) BY <1>5, <1>6 DEF Ended
<1>19. Good(p, used \cup {cell}) BY <1>5, <1>11, <1>13, <1>15, <1>16, <1>17 DEF Good
<1>20. ~WasOver(r, group) /\ displayed[id] # NoCell => displayed[id] = shown BY <1>3, <1>6
<1>21. QED BY <1>1, <1>2, <1>9, <1>10, <1>14, <1>18, <1>19, <1>20

LEMMA EndReasonIsEnd == ASSUME NEW f PROVE endReason(f) # "ongoing" BY DEF endReason

LEMMA IdGiven ==
  ASSUME Ids(View), NEW group \in Seq(Live), NEW r, NEW used, Good(r, used),
         NEW id, id = IdOf(r, group), (IF NewHere(r, group) THEN id ELSE r.nextID) <= MaxId
  PROVE  id \in ID
<1>1. CASE NewHere(r, group)
  <2>1. id = r.nextID + 1 /\ id <= MaxId BY <1>1 DEF IdOf
  <2>2. r.nextID \in Nat BY DEF Good, Ids
  <2>3. MaxId \in Nat BY HostViewAssumption DEF HostViewAssumption
  <2>4. QED BY <2>1, <2>2, <2>3 DEF ID
<1>2. CASE ~NewHere(r, group)
  <2>1. id = firstID(group) /\ firstID(group) # 0 BY <1>2 DEF IdOf, NewHere
  <2>2. QED BY <2>1, FirstIDs
<1>3. QED BY <1>1, <1>2

LEMMA ShowStep ==
  ASSUME Ids(View), NEW group \in Seq(Live), NEW r, DOMAIN r = Parts, NEW used, Good(r, used),
         NEW cell \in Cell, cell \notin used,
         \A i \in ID : displayed[i] = cell => ~Ended(snap, displayed[i]),
         NEW s, s = show(r, group, cell), s.nextID <= MaxId
  PROVE  Good(s, used \cup {cell})
<1>1. PICK id, shown, p : /\ id = IdOf(r, group) /\ shown = ShownAt(r, group, cell)
                          /\ p = Placed(r, group, cell)
  OBVIOUS
<1>2. s = endIf(p, id, shown, WasOver(r, group)) BY <1>1, ShowPlaces
<1>3. DOMAIN p = Parts /\ p.nextID = IF NewHere(r, group) THEN id ELSE r.nextID BY <1>1 DEF Placed, Parts
<1>4. s.nextID = p.nextID BY <1>2, <1>3, EndIfKeeps
<1>5. id \in ID BY <1>1, <1>3, <1>4, IdGiven
<1>6. /\ Good(p, used \cup {cell}) /\ id <= p.nextID /\ p.displayed[id] = shown
      /\ WasOver(r, group) => Ended(p.snap, shown)
      /\ ~WasOver(r, group) => /\ id \notin Range(p.log)
                               /\ displayed[id] # NoCell => displayed[id] = shown
  BY <1>1, <1>5, PlacedGood
<1>7. shown \in Cell BY <1>1, <1>5, PlaceTaken
<1>8. CASE Ended(p.snap, shown) /\ ~WasOver(r, group)
  <2>1. s = remember(p, id, shown) BY <1>2, <1>8 DEF endIf, Ended
  <2>2. QED BY <1>3, <1>5, <1>6, <1>7, <1>8, <2>1, Remembers
<1>9. CASE ~Ended(p.snap, shown)
  <2>1. PICK e : e = endReason(p.snap[shown]) /\ e # "ongoing" BY EndReasonIsEnd
  <2>2. PICK q : q = Ending(p, shown, e) OBVIOUS
  <2>3. s = remember(q, id, shown) \/ s = p BY <1>2, <1>9, <2>1, <2>2 DEF endIf, Ended, Ending
  <2>4. /\ DOMAIN q = Parts /\ Good(q, used \cup {cell}) /\ Ended(q.snap, shown)
        /\ \A field \in Parts \ {"snap"} : q[field] = p[field]
    BY <1>3, <1>6, <1>7, <1>9, <2>1, <2>2, EndGiven
  <2>5. q.nextID = p.nextID /\ q.log = p.log /\ q.displayed = p.displayed BY <2>4 DEF Parts
  <2>6. CASE s = remember(q, id, shown)
    <3>1. ~WasOver(r, group) BY <1>6, <1>9
    <3>2. id <= q.nextID /\ id \notin Range(q.log) BY <1>6, <2>5, <3>1
    <3>3. /\ q.displayed[id] # NoCell => Ended(q.snap, q.displayed[id])
          /\ displayed[id] # NoCell => Ended(q.snap, displayed[id])
      BY <1>6, <2>4, <2>5, <3>1
    <3>4. QED BY <1>5, <1>7, <2>4, <2>6, <3>2, <3>3, Remembers
  <2>7. QED BY <1>6, <2>3, <2>6
<1>10. CASE Ended(p.snap, shown) /\ WasOver(r, group)
  <2>1. s = p BY <1>2, <1>10 DEF endIf, Ended
  <2>2. QED BY <1>6, <2>1
<1>11. QED BY <1>8, <1>9, <1>10

(***************************************************************************)
(* Which id the observations of a group get: the first that one of them had  *)
(* (firstID), or one that is new, when an earlier group took that one.       *)
(***************************************************************************)
Numbered(r, groups, n) ==
  /\ \A k \in 1..n : \E id :
       /\ \A o \in Range(groups[k]) : r.flowIDs[o] = id
       /\ \/ firstID(groups[k]) = 0 \/ id = firstID(groups[k])
          \/ id > nextID /\ r.displayed[firstID(groups[k])] # NoCell
  /\ \A i \in ID : r.displayed[i] # NoCell /\ i <= nextID =>
       \E k \in 1..n : firstID(groups[k]) = i /\ \A o \in Range(groups[k]) : r.flowIDs[o] = i
  /\ \A o \in Obs : r.flowIDs[o] # 0 => \E k \in 1..n : o \in Range(groups[k])

LEMMA NumberedStep ==
  ASSUME Ids(View), NEW groups \in Seq(Seq(Live)), Apart(groups), NEW n \in Nat, n + 1 <= Len(groups),
         NEW r, DOMAIN r = Parts, NEW used, Good(r, used), Numbered(r, groups, n), NEW cell \in Cell,
         NEW s, s = show(r, groups[n + 1], cell), s.nextID <= MaxId
  PROVE  Numbered(s, groups, n + 1)
<1>1. PICK group \in Seq(Live) : group = groups[n + 1] OBVIOUS
<1>2. PICK id, shown, p : /\ id = IdOf(r, group) /\ shown = ShownAt(r, group, cell)
                          /\ p = Placed(r, group, cell)
  OBVIOUS
<1>3. /\ DOMAIN p = Parts /\ p.nextID = IF NewHere(r, group) THEN id ELSE r.nextID
      /\ p.flowIDs = [o \in Obs |-> IF o \in Range(group) THEN id ELSE r.flowIDs[o]]
      /\ p.displayed = [r.displayed EXCEPT ![id] = shown]
  BY <1>2 DEF Placed, Parts
<1>4. s = endIf(p, id, shown, WasOver(r, group)) BY <1>1, <1>2, ShowPlaces
<1>5. s.nextID = p.nextID /\ s.flowIDs = p.flowIDs /\ s.displayed = p.displayed
  BY <1>3, <1>4, EndIfKeeps
<1>6. id \in ID BY <1>1, <1>2, <1>3, <1>5, IdGiven
<1>7. /\ shown \in Cell
      /\ NewHere(r, group) => id > nextID /\ displayed[id] = NoCell
  BY <1>1, <1>2, <1>6, PlaceTaken
<1>8. shown # NoCell /\ r.displayed \in [ID -> Cell \cup {NoCell}]
  BY <1>7, CellsAreNumbers DEF Good, Ids
<1>9. \A i \in ID : s.displayed[i] = IF i = id THEN shown ELSE r.displayed[i] BY <1>3, <1>5, <1>8
<1>10. \A k \in 1..n : k \in DOMAIN groups /\ k # n + 1 /\ n + 1 \in DOMAIN groups OBVIOUS
<1>11. \A k \in 1..(n + 1) : Range(groups[k]) \subseteq Obs
  <2> SUFFICES ASSUME NEW k \in 1..(n + 1) PROVE Range(groups[k]) \subseteq Obs OBVIOUS
  <2>1. groups[k] \in Seq(Live) OBVIOUS
  <2>2. QED BY <2>1, LiveObs DEF Range
<1>12. \A k \in 1..n : \A o \in Range(groups[k]) : s.flowIDs[o] = r.flowIDs[o]
  <2> SUFFICES ASSUME NEW k \in 1..n, NEW o \in Range(groups[k]) PROVE s.flowIDs[o] = r.flowIDs[o] OBVIOUS
  <2>1. o \notin Range(group) BY <1>1, <1>10 DEF Apart
  <2>2. o \in Obs BY <1>11
  <2>3. QED BY <1>3, <1>5, <2>1, <2>2
<1>13. \A o \in Range(group) : s.flowIDs[o] = id
  <2>1. Range(group) \subseteq Obs BY <1>1, <1>11
  <2>2. QED BY <1>3, <1>5, <2>1
<1>14. ASSUME NEW k \in 1..(n + 1)
       PROVE  \E x : /\ \A o \in Range(groups[k]) : s.flowIDs[o] = x
                     /\ \/ firstID(groups[k]) = 0 \/ x = firstID(groups[k])
                        \/ x > nextID /\ s.displayed[firstID(groups[k])] # NoCell
  <2>1. CASE k = n + 1
    <3>1. CASE NewHere(r, group) /\ firstID(group) # 0
      <4>1. r.displayed[firstID(group)] # NoCell BY <3>1 DEF NewHere
      <4>2. firstID(group) \in ID BY <3>1, FirstIDs
      <4>3. s.displayed[firstID(group)] # NoCell BY <1>8, <1>9, <4>1, <4>2
      <4>4. QED BY <1>1, <1>7, <1>13, <2>1, <3>1, <4>3
    <3>2. CASE firstID(group) = 0 BY <1>1, <1>13, <2>1, <3>2
    <3>3. CASE ~NewHere(r, group)
      <4>1. id = firstID(group) BY <1>2, <3>3 DEF IdOf
      <4>2. QED BY <1>1, <1>13, <2>1, <4>1
    <3>4. QED BY <3>1, <3>2, <3>3
  <2>2. CASE k \in 1..n
    <3>1. PICK x : /\ \A o \in Range(groups[k]) : r.flowIDs[o] = x
                   /\ \/ firstID(groups[k]) = 0 \/ x = firstID(groups[k])
                      \/ x > nextID /\ r.displayed[firstID(groups[k])] # NoCell
      BY <2>2 DEF Numbered
    <3>2. \A o \in Range(groups[k]) : s.flowIDs[o] = x BY <1>12, <2>2, <3>1
    <3>3. firstID(groups[k]) # 0 => firstID(groups[k]) \in ID BY FirstIDs
    <3>4. firstID(groups[k]) # 0 /\ r.displayed[firstID(groups[k])] # NoCell =>
            s.displayed[firstID(groups[k])] # NoCell
      BY <1>8, <1>9, <3>3
    <3>5. QED BY <3>1, <3>2, <3>4
  <2>3. QED BY <2>1, <2>2
<1>15. ASSUME NEW i \in ID, s.displayed[i] # NoCell, i <= nextID
       PROVE  \E k \in 1..(n + 1) :
                firstID(groups[k]) = i /\ \A o \in Range(groups[k]) : s.flowIDs[o] = i
  <2>1. CASE i = id
    <3>1. ~NewHere(r, group)
      <4>1. nextID \in Nat /\ i \in Nat BY DEF Ids, View, ID
      <4>2. QED BY <1>7, <1>15, <2>1, <4>1
    <3>2. id = firstID(group) BY <1>2, <3>1 DEF IdOf
    <3>3. n + 1 \in 1..(n + 1) OBVIOUS
    <3>4. QED BY <1>1, <1>13, <2>1, <3>2, <3>3
  <2>2. CASE i # id
    <3>1. r.displayed[i] # NoCell BY <1>9, <1>15, <2>2
    <3>2. PICK k \in 1..n : firstID(groups[k]) = i /\ \A o \in Range(groups[k]) : r.flowIDs[o] = i
      BY <1>15, <3>1 DEF Numbered
    <3>3. \A o \in Range(groups[k]) : s.flowIDs[o] = r.flowIDs[o] BY <1>12
    <3>4. k \in 1..(n + 1) OBVIOUS
    <3>5. QED BY <3>2, <3>3, <3>4
  <2>3. QED BY <2>1, <2>2
<1>16. ASSUME NEW o \in Obs, s.flowIDs[o] # 0 PROVE \E k \in 1..(n + 1) : o \in Range(groups[k])
  <2>1. CASE o \in Range(group)
    <3>1. n + 1 \in 1..(n + 1) OBVIOUS
    <3>2. QED BY <1>1, <2>1, <3>1
  <2>2. CASE o \notin Range(group)
    <3>1. r.flowIDs[o] # 0 BY <1>3, <1>5, <1>16, <2>2
    <3>2. PICK k \in 1..n : o \in Range(groups[k]) BY <3>1 DEF Numbered
    <3>3. QED BY <3>2
  <2>3. QED BY <2>1, <2>2
<1>17. QED BY <1>14, <1>15, <1>16 DEF Numbered

LEMMA NothingShownYet ==
  ASSUME Ids(View), Logged(View), Final(View), NEW c, NEW n, Collected(c, n)
  PROVE  DOMAIN NothingShown(c) = Parts /\ Good(NothingShown(c), {})
<1>1. PICK r : r = NothingShown(c) OBVIOUS
<1>2. /\ DOMAIN r = Parts /\ r.nextID = nextID /\ r.flowIDs = [o \in Obs |-> 0]
      /\ r.displayed = [i \in ID |-> NoCell] /\ r.snap = c.snap
      /\ r.history = history /\ r.historyNext = historyNext /\ r.log = log
  BY <1>1 DEF NothingShown, Parts
<1>3. nextID \in Nat /\ \A i \in ID : displayed[i] \in Cell \cup {NoCell} BY DEF Ids, View
<1>4. Ids(r) BY <1>2, <1>3 DEF Ids
<1>5. SnapType(r.snap) BY <1>2 DEF Collected
<1>6. Logged(r)
  <2>1. /\ View.log = log /\ View.nextID = nextID /\ View.history = history
        /\ View.historyNext = historyNext
    BY DEF View
  <2>2. QED BY <1>2, <2>1 DEF Logged
<1>7. \A i \in ID : displayed[i] # NoCell => r.snap[displayed[i]].End = snap[displayed[i]].End
  BY <1>2 DEF Collected
<1>8. Range(log) \subseteq ID BY DEF Logged, View, Range
<1>9. Final(r)
  <2>1. \A i \in Range(log) : displayed[i] # NoCell => Ended(snap, displayed[i]) BY DEF Final, View
  <2>2. QED BY <1>2, <1>7, <1>8, <2>1 DEF Final, Ended
<1>10. EndsKept(r, {}) BY <1>2, <1>7 DEF EndsKept
<1>11. Newcomers(r) BY <1>2, <1>3 DEF Newcomers, ID
<1>12. QED BY <1>1, <1>2, <1>4, <1>5, <1>6, <1>9, <1>10, <1>11 DEF Good

UsedBy(c, n) == {c.cells[k] : k \in 1..n}

Showing(c, groups, v, f) ==
  /\ f[0] = NothingShown(c) /\ v = f[Len(groups)]
  /\ \A n \in 1..Len(groups) : /\ f[n] = show(f[n - 1], groups[n], c.cells[n])
                               /\ f[n - 1].nextID <= f[n].nextID
  /\ \A n \in 0..Len(groups) :
       /\ DOMAIN f[n] = Parts /\ f[n].nextID \in Nat
       /\ f[n].nextID <= MaxId => Good(f[n], UsedBy(c, n)) /\ Numbered(f[n], groups, n)

LEMMA ShownInTurn ==
  ASSUME Ids(View), SnapType(snap), Logged(View), Final(View), NEW groups \in Seq(Seq(Live)),
         Apart(groups), NEW c, c = collect(groups), Spare(c), NEW v, v = update(groups)
  PROVE  \E f : Showing(c, groups, v, f)
<1>1. PICK N \in Nat : N = Len(groups) OBVIOUS
<1>2. PICK f : /\ f[0] = NothingShown(c)
               /\ \A n \in 1..N : f[n] = show(f[n - 1], groups[n], c.cells[n])
               /\ v = f[N]
  BY <1>1, UpdateSteps
<1>3. Collected(c, N) BY <1>1, AllCollected
<1> DEFINE P == {n \in 0..N : /\ DOMAIN f[n] = Parts /\ f[n].nextID \in Nat
                              /\ f[n].nextID <= MaxId => Good(f[n], UsedBy(c, n)) /\ Numbered(f[n], groups, n)}
<1>4. 0 \in P
  <2>1. UsedBy(c, 0) = {} BY DEF UsedBy
  <2>2. DOMAIN f[0] = Parts /\ Good(f[0], {}) BY <1>2, <1>3, NothingShownYet
  <2>3. f[0].nextID \in Nat BY <2>2 DEF Good, Ids
  <2>4. Good(f[0], UsedBy(c, 0)) BY <2>1, <2>2
  <2>5. Numbered(f[0], groups, 0)
    <3>1. f[0].flowIDs = [o \in Obs |-> 0] /\ f[0].displayed = [i \in ID |-> NoCell]
      BY <1>2 DEF NothingShown
    <3>2. QED BY <3>1 DEF Numbered
  <2>6. QED BY <2>2, <2>3, <2>4, <2>5
<1>5. ASSUME NEW n \in 0..N, n < N, n \in P PROVE n + 1 \in P
  <2>1. n + 1 \in 1..N /\ groups[n + 1] \in Seq(Live) BY <1>1, <1>5
  <2>2. PICK cell \in Cell : cell = c.cells[n + 1] BY <1>3, <2>1 DEF Collected
  <2>3. f[n + 1] = show(f[n], groups[n + 1], cell) BY <1>2, <2>1, <2>2
  <2>4. DOMAIN f[n] = Parts /\ f[n].nextID \in Nat BY <1>5
  <2>5. DOMAIN f[n + 1] = Parts /\ f[n + 1].nextID \in Nat /\ f[n].nextID <= f[n + 1].nextID
    BY <2>3, <2>4, ShowCounts
  <2>6. ASSUME f[n + 1].nextID <= MaxId PROVE Good(f[n + 1], UsedBy(c, n + 1)) /\ Numbered(f[n + 1], groups, n + 1)
    <3>1. f[n].nextID <= MaxId
      <4>1. MaxId \in Nat BY HostViewAssumption DEF HostViewAssumption
      <4>2. QED BY <2>4, <2>5, <2>6, <4>1
    <3>2. Good(f[n], UsedBy(c, n)) /\ Numbered(f[n], groups, n) BY <1>5, <3>1
    <3>3. cell \notin UsedBy(c, n)
      <4>1. \A k \in 1..n : k \in 1..N /\ k # n + 1 BY <1>5
      <4>2. QED BY <1>3, <2>1, <2>2, <4>1 DEF Collected, UsedBy
    <3>4. \A i \in ID : displayed[i] = cell => ~Ended(snap, displayed[i])
      BY <1>3, <2>1, <2>2 DEF Collected
    <3>5. UsedBy(c, n + 1) = UsedBy(c, n) \cup {cell}
      <4>1. 1..(n + 1) = (1..n) \cup {n + 1} BY <1>5
      <4>2. QED BY <2>2, <4>1 DEF UsedBy
    <3>6. Good(f[n + 1], UsedBy(c, n) \cup {cell}) BY <2>1, <2>3, <2>4, <2>6, <3>2, <3>3, <3>4, ShowStep
    <3>7. Numbered(f[n + 1], groups, n + 1)
      <4>1. n \in Nat /\ n + 1 <= Len(groups) BY <1>1, <2>1
      <4>2. QED BY <2>3, <2>4, <2>6, <3>2, <4>1, NumberedStep
    <3>8. QED BY <3>5, <3>6, <3>7
  <2>7. QED BY <1>5, <2>5, <2>6
<1>6. 0..N \subseteq P
  <2> HIDE DEF P
  <2>1. QED BY <1>4, <1>5, IntervalInduction
<1>7. ASSUME NEW n \in 1..N PROVE f[n - 1].nextID <= f[n].nextID
  <2>1. n - 1 \in P /\ f[n] = show(f[n - 1], groups[n], c.cells[n]) BY <1>2, <1>6
  <2>2. QED BY <2>1, ShowCounts
<1>8. Showing(c, groups, v, f) BY <1>1, <1>2, <1>6, <1>7 DEF Showing
<1>9. QED BY <1>8

LEMMA AllShown ==
  ASSUME Ids(View), SnapType(snap), Logged(View), Final(View), NEW groups \in Seq(Seq(Live)),
         Apart(groups), NEW c, c = collect(groups), Spare(c), NEW v, v = update(groups)
  PROVE  /\ DOMAIN v = Parts /\ v.nextID \in Nat
         /\ v.nextID <= MaxId => Good(v, Range(c.cells)) /\ Numbered(v, groups, Len(groups))
<1>1. PICK N \in Nat : N = Len(groups) OBVIOUS
<1>2. DOMAIN v = Parts /\ v.nextID \in Nat /\ (v.nextID <= MaxId => Good(v, UsedBy(c, N)) /\ Numbered(v, groups, N))
  <2>1. PICK f : Showing(c, groups, v, f) BY ShownInTurn
  <2>2. N \in 0..N OBVIOUS
  <2>3. QED BY <1>1, <2>1, <2>2 DEF Showing
<1>3. Collected(c, N) BY <1>1, AllCollected
<1>4. Range(c.cells) = UsedBy(c, N)
  <2>1. DOMAIN c.cells = 1..N BY <1>3 DEF Collected
  <2>2. QED BY <2>1 DEF Range, UsedBy
<1>5. QED BY <1>1, <1>2, <1>4

(***************************************************************************)
(* depart, for every id that no group took.                                *)
(***************************************************************************)
LEMMA DepartCounts ==
  ASSUME NEW r, DOMAIN r = Parts, NEW id, NEW s, s = depart(r, id)
  PROVE  DOMAIN s = Parts /\ s.nextID = r.nextID
<1>1. PICK counted : counted = [r EXCEPT !.expired = @ + active[id]] OBVIOUS
<1>2. DOMAIN counted = Parts /\ counted.nextID = r.nextID BY <1>1 DEF Parts
<1>3. PICK q : q = [counted EXCEPT !.snap[displayed[id]].End = endReason(r.snap[displayed[id]])] OBVIOUS
<1>4. DOMAIN q = Parts /\ q.nextID = r.nextID BY <1>2, <1>3 DEF Parts
<1>5. s = counted \/ s = remember(q, id, displayed[id]) BY <1>1, <1>3 DEF depart
<1>6. DOMAIN remember(q, id, displayed[id]) = Parts /\ remember(q, id, displayed[id]).nextID = r.nextID
  BY <1>4 DEF remember, Parts
<1>7. QED BY <1>2, <1>5, <1>6

LEMMA DepartStep ==
  ASSUME Ids(View), NEW r, DOMAIN r = Parts, NEW used, Good(r, used),
         NEW id \in ID, displayed[id] # NoCell, r.displayed[id] = NoCell, NEW s, s = depart(r, id)
  PROVE  Good(s, used) /\ s.displayed = r.displayed /\ s.flowIDs = r.flowIDs
<1>1. PICK counted : counted = [r EXCEPT !.expired = @ + active[id]] OBVIOUS
<1>2. /\ DOMAIN counted = Parts /\ counted.nextID = r.nextID /\ counted.flowIDs = r.flowIDs
      /\ counted.displayed = r.displayed /\ counted.snap = r.snap /\ counted.history = r.history
      /\ counted.historyNext = r.historyNext /\ counted.log = r.log
  BY <1>1 DEF Parts
<1>3. Good(counted, used) BY <1>2 DEF Good, Ids, Logged, Final, EndsKept, Newcomers
<1>4. PICK x \in Cell : x = displayed[id] BY DEF Ids, View
<1>5. CASE Ended(r.snap, x)
  <2>1. s = counted BY <1>1, <1>4, <1>5 DEF depart, Ended
  <2>2. QED BY <1>2, <1>3, <2>1
<1>6. CASE ~Ended(r.snap, x)
  <2>1. PICK e : e = endReason(r.snap[x]) /\ e # "ongoing" BY EndReasonIsEnd
  <2>2. PICK q : q = Ending(counted, x, e) OBVIOUS
  <2>3. s = remember(q, id, x) BY <1>1, <1>4, <1>6, <2>1, <2>2 DEF depart, Ended, Ending
  <2>4. ~Ended(counted.snap, x) BY <1>2, <1>6
  <2>5. /\ DOMAIN q = Parts /\ Good(q, used) /\ Ended(q.snap, x)
        /\ \A field \in Parts \ {"snap"} : q[field] = counted[field]
    BY <1>2, <1>3, <2>1, <2>2, <2>4, EndGiven
  <2>6. /\ q.nextID = r.nextID /\ q.log = r.log /\ q.displayed = r.displayed
        /\ q.flowIDs = r.flowIDs
    BY <1>2, <2>5 DEF Parts
  <2>7. id \notin Range(q.log)
    <3> SUFFICES ASSUME id \in Range(r.log) PROVE FALSE BY <2>6
    <3>1. Ended(r.snap, displayed[id]) BY DEF Good, Final
    <3>2. QED BY <1>4, <1>6, <3>1
  <2>8. id <= q.nextID
    <3>1. id <= nextID /\ nextID \in Nat /\ nextID <= r.nextID /\ r.nextID \in Nat
      BY DEF Ids, View, Good, Newcomers
    <3>2. QED BY <2>6, <3>1 DEF ID
  <2>9. /\ Good(s, used)
        /\ \A field \in Parts \ {"history", "historyNext", "log"} : s[field] = q[field]
    BY <1>4, <2>3, <2>5, <2>6, <2>7, <2>8, Remembers
  <2>10. s.displayed = q.displayed /\ s.flowIDs = q.flowIDs BY <2>9 DEF Parts
  <2>11. QED BY <2>6, <2>9, <2>10
<1>7. QED BY <1>5, <1>6

LEMMA LeavingInOrder ==
  ASSUME NEW v, NEW order \in SetToSeqs(gone(v))
  PROVE  /\ Len(order) \in Nat /\ DOMAIN order = 1..Len(order)
         /\ \A n \in DOMAIN order : order[n] \in gone(v)
<1>1. IsFiniteSet(gone(v))
  <2>1. gone(v) \subseteq 1..MaxId BY DEF gone, ID
  <2>2. MaxId \in Nat BY HostViewAssumption DEF HostViewAssumption
  <2>3. IsFiniteSet(1..MaxId) BY <2>2, FS_Interval
  <2>4. QED BY <2>1, <2>3, FS_Subset
<1>2. PICK n \in Nat : n = Cardinality(gone(v)) BY <1>1, FS_CardinalityType
<1>3. order \in [1..n -> gone(v)] BY <1>2 DEF SetToSeqs
<1>4. QED BY <1>3

Departing(v, order, r, used, f) ==
  /\ f[0] = v /\ r = f[Len(order)]
  /\ \A n \in 1..Len(order) : f[n] = depart(f[n - 1], order[n])
  /\ \A n \in 0..Len(order) : /\ DOMAIN f[n] = Parts /\ Good(f[n], used)
                              /\ f[n].displayed = v.displayed /\ f[n].flowIDs = v.flowIDs

LEMMA DepartedInTurn ==
  ASSUME Ids(View), NEW used, NEW v, DOMAIN v = Parts, v.nextID <= MaxId => Good(v, used),
         NEW order \in SetToSeqs(gone(v)), NEW r, r = departAll(v, order), r.nextID <= MaxId
  PROVE  /\ v.nextID <= MaxId
         /\ \E f : Departing(v, order, r, used, f)
<1>1. PICK N \in Nat : N = Len(order) /\ \A n \in 1..N : order[n] \in gone(v) BY LeavingInOrder
<1>2. PICK f : f[0] = v /\ (\A n \in 1..N : f[n] = depart(f[n - 1], order[n])) /\ r = f[N]
  BY <1>1, DepartSteps
<1> DEFINE P == {n \in 0..N : DOMAIN f[n] = Parts /\ f[n].nextID = v.nextID}
           Q == {n \in 0..N : /\ Good(f[n], used) /\ f[n].displayed = v.displayed
                              /\ f[n].flowIDs = v.flowIDs}
<1>3. ASSUME NEW n \in 0..N, n < N, n \in P PROVE n + 1 \in P
  <2>1. f[n + 1] = depart(f[n], order[n + 1]) BY <1>2, <1>3
  <2>2. QED BY <1>3, <2>1, DepartCounts
<1>4. 0..N \subseteq P
  <2>1. 0 \in P BY <1>2
  <2> HIDE DEF P
  <2>2. QED BY <1>3, <2>1, IntervalInduction
<1>5. v.nextID <= MaxId /\ Good(v, used) BY <1>2, <1>4
<1>6. ASSUME NEW n \in 0..N, n < N, n \in Q PROVE n + 1 \in Q
  <2>1. f[n + 1] = depart(f[n], order[n + 1]) BY <1>2, <1>6
  <2>2. DOMAIN f[n] = Parts BY <1>4
  <2>3. Good(f[n], used) /\ f[n].displayed = v.displayed /\ f[n].flowIDs = v.flowIDs BY <1>6
  <2>4. order[n + 1] \in gone(v) BY <1>1, <1>6
  <2>5. PICK id \in ID : id = order[n + 1] /\ displayed[id] # NoCell /\ v.displayed[id] = NoCell
    BY <2>4 DEF gone
  <2>6. /\ Good(f[n + 1], used) /\ f[n + 1].displayed = f[n].displayed
        /\ f[n + 1].flowIDs = f[n].flowIDs
    BY <2>1, <2>2, <2>3, <2>5, DepartStep
  <2>7. QED BY <1>6, <2>3, <2>6
<1>7. 0..N \subseteq Q
  <2>1. 0 \in Q BY <1>2, <1>5
  <2> HIDE DEF Q
  <2>2. QED BY <1>6, <2>1, IntervalInduction
<1>8. Departing(v, order, r, used, f) BY <1>1, <1>2, <1>4, <1>7 DEF Departing
<1>9. QED BY <1>5, <1>8

LEMMA AllDeparted ==
  ASSUME Ids(View), NEW used, NEW v, DOMAIN v = Parts, v.nextID <= MaxId => Good(v, used),
         NEW order \in SetToSeqs(gone(v)), NEW r, r = departAll(v, order), r.nextID <= MaxId
  PROVE  Good(r, used) /\ r.displayed = v.displayed /\ r.flowIDs = v.flowIDs /\ v.nextID <= MaxId
<1>1. PICK N \in Nat : N = Len(order) BY LeavingInOrder
<1>2. N \in 0..N OBVIOUS
<1>3. v.nextID <= MaxId /\ \E f : Departing(v, order, r, used, f) BY DepartedInTurn
<1>4. QED BY <1>1, <1>2, <1>3 DEF Departing

(***************************************************************************)
(* The invariant, and the history.                                         *)
(***************************************************************************)
ViewInv == Ids(View) /\ SnapType(snap) /\ Logged(View) /\ Final(View)

LEMMA ViewIsVariables ==
  /\ View.nextID = nextID /\ View.flowIDs = flowIDs /\ View.displayed = displayed
  /\ View.snap = snap /\ View.history = history /\ View.historyNext = historyNext /\ View.log = log
  BY DEF View

LEMMA RefreshGood ==
  ASSUME ViewInv, Refresh
  PROVE  \E r, used, groups :
           /\ Good(r, used) /\ detectChanges(r)
           /\ groups \in Seq(Seq(Live)) /\ Numbered(r, groups, Len(groups))
           /\ nextID' = r.nextID /\ r.nextID <= MaxId
           /\ flowIDs' = r.flowIDs /\ displayed' = r.displayed
           /\ log' = r.log /\ history' = r.history /\ historyNext' = r.historyNext
           /\ SnapType(snap')
           /\ \A i \in ID : r.displayed[i] # NoCell => snap'[r.displayed[i]] = r.snap[r.displayed[i]]
<1>1. PICK groups, v, order, r :
        /\ groups \in Groupings /\ v = update(groups) /\ order \in SetToSeqs(gone(v)) /\ r = departAll(v, order)
        /\ r.nextID <= MaxId /\ Spare(collect(groups))
        /\ nextID' = r.nextID /\ flowIDs' = r.flowIDs /\ displayed' = r.displayed
        /\ log' = r.log /\ history' = r.history /\ historyNext' = r.historyNext
        /\ snap' = [c \in Cell |->
                     IF c \in Range(r.displayed) \cup {e.cell : e \in Range(r.history)}
                     THEN r.snap[c] ELSE Blank]
        /\ detectChanges(r)
  BY DEF Refresh, Spare
<1>2. groups \in Seq(Seq(Live)) /\ Apart(groups) BY <1>1, GroupingsApart
<1>3. PICK c, used : c = collect(groups) /\ used = Range(c.cells) OBVIOUS
<1>4. DOMAIN v = Parts /\ (v.nextID <= MaxId => Good(v, used) /\ Numbered(v, groups, Len(groups)))
  BY <1>1, <1>2, <1>3, AllShown DEF ViewInv
<1>5. v.nextID <= MaxId /\ Good(r, used) /\ r.displayed = v.displayed /\ r.flowIDs = v.flowIDs
  BY <1>1, <1>4, AllDeparted DEF ViewInv
<1>9. Numbered(r, groups, Len(groups)) BY <1>4, <1>5 DEF Numbered
<1>6. SnapType(snap')
  <2>1. DOMAIN Blank = {"bytes", "Closed", "Last", "End"} BY DEF Blank
  <2>2. SnapType(r.snap) BY <1>5 DEF Good
  <2>3. DOMAIN snap' = Cell /\ \A x \in Cell : snap'[x] = r.snap[x] \/ snap'[x] = Blank BY <1>1
  <2>4. QED BY <2>1, <2>2, <2>3 DEF SnapType
<1>7. ASSUME NEW i \in ID, r.displayed[i] # NoCell
      PROVE  snap'[r.displayed[i]] = r.snap[r.displayed[i]]
  <2>1. r.displayed \in [ID -> Cell \cup {NoCell}] BY <1>5 DEF Good, Ids
  <2>2. r.displayed[i] \in Cell /\ r.displayed[i] \in Range(r.displayed) BY <1>7, <2>1 DEF Range
  <2>3. QED BY <1>1, <2>2
<1>8. /\ detectChanges(r) /\ nextID' = r.nextID /\ r.nextID <= MaxId
      /\ flowIDs' = r.flowIDs /\ displayed' = r.displayed
      /\ log' = r.log /\ history' = r.history /\ historyNext' = r.historyNext
  BY <1>1
<1>10. groups \in Seq(Seq(Live)) BY <1>2
<1>11. Good(r, used) BY <1>5
<1>12. QED BY <1>6, <1>7, <1>8, <1>9, <1>10, <1>11

LEMMA ViewInvInit == Init => ViewInv
<1> SUFFICES ASSUME Init PROVE ViewInv OBVIOUS
<1>1. Ids(View) BY ViewIsVariables DEF Init, Ids
<1>2. SnapType(snap) BY DEF Init, SnapType, Blank
<1>3. Logged(View)
  <2>1. 0 \in 0..(HistorySize - 1) BY RingSize
  <2>2. <<>> \in Seq([id : ID, cell : Cell]) /\ <<>> \in Seq(ID) /\ Len(<<>>) = 0 /\ DOMAIN <<>> = {}
    OBVIOUS
  <2>3. 1..Len(<<>>) = {} BY <2>2
  <2>4. Ring(<<>>, 0, <<>>) BY <2>1, <2>2, <2>3, RingSize DEF Ring
  <2>5. log = <<>> /\ history = <<>> /\ historyNext = 0 BY DEF Init
  <2>6. QED BY <2>2, <2>4, <2>5, ViewIsVariables DEF Logged, IsInjective
<1>4. Final(View)
  <2>1. Range(<<>>) = {} BY DEF Range
  <2>2. View.log = <<>> BY ViewIsVariables DEF Init
  <2>3. QED BY <2>1, <2>2 DEF Final
<1>5. QED BY <1>1, <1>2, <1>3, <1>4 DEF ViewInv

LEMMA ViewInvNext == ViewInv /\ [Next]_vars => ViewInv'
<1> SUFFICES ASSUME ViewInv, [Next]_vars PROVE ViewInv' OBVIOUS
<1>1. CASE UNCHANGED state
  BY <1>1 DEF state, ViewInv, View, Ids, SnapType, Logged, Final, Ended
<1>2. CASE Refresh
  <2>1. PICK r, used :
          /\ Good(r, used) /\ nextID' = r.nextID /\ flowIDs' = r.flowIDs /\ displayed' = r.displayed
          /\ log' = r.log /\ history' = r.history /\ historyNext' = r.historyNext
          /\ SnapType(snap')
          /\ \A i \in ID : r.displayed[i] # NoCell => snap'[r.displayed[i]] = r.snap[r.displayed[i]]
    BY <1>2, RefreshGood
  <2>2. /\ View'.nextID = r.nextID /\ View'.flowIDs = r.flowIDs /\ View'.displayed = r.displayed
        /\ View'.snap = snap' /\ View'.history = r.history /\ View'.historyNext = r.historyNext
        /\ View'.log = r.log
    BY <2>1 DEF View
  <2>3. Ids(View)' BY <2>1, <2>2 DEF Good, Ids
  <2>4. SnapType(snap)' BY <2>1 DEF SnapType
  <2>5. Logged(View)' BY <2>1, <2>2 DEF Good, Logged
  <2>6. Range(r.log) \subseteq ID BY <2>1 DEF Good, Logged, Range
  <2>7. Final(View)'
    <3>1. ASSUME NEW i \in Range(r.log), r.displayed[i] # NoCell
          PROVE  snap'[r.displayed[i]].End # "ongoing"
      BY <2>1, <2>6, <3>1 DEF Good, Final, Ended
    <3>2. QED BY <2>1, <2>2, <3>1 DEF Final, Ended
  <2>8. QED BY <2>3, <2>4, <2>5, <2>7 DEF ViewInv
<1>3. Refresh \/ UNCHANGED state
  BY DEF Next, Appear, Packet, ConnectFails, LinkNAT, Vanish, vars
<1>4. QED BY <1>1, <1>2, <1>3

LEMMA ViewHolds == Spec => []ViewInv
<1>1. ViewInv /\ [Next]_vars => ViewInv' BY ViewInvNext
<1>2. QED BY ViewInvInit, <1>1, PTL DEF Spec

(* A connection enters the history once, and the history has the latest of    *)
(* those that ended and no other (updateAt, remember): for any observations,   *)
(* however they are grouped, joined and split again, whatever snapshots are    *)
(* shared, and for a ring of any size that went round any number of times.    *)
THEOREM History == Spec => []HistoryIsLatest
<1>1. ViewInv => HistoryIsLatest
  <2> SUFFICES ASSUME ViewInv PROVE HistoryIsLatest OBVIOUS
  <2>1. /\ log \in Seq(ID) /\ IsInjective(log) /\ Ring(history, historyNext, log)
    BY ViewIsVariables DEF ViewInv, Logged
  <2>2. PICK kept : kept = Min({HistorySize, Len(log)}) OBVIOUS
  <2>3. /\ Len(history) = kept
        /\ {e.id : e \in Range(history)} = Range(SubSeq(log, Len(log) - kept + 1, Len(log)))
    BY <2>1, <2>2, RingIsLatest
  <2>4. QED BY <2>1, <2>2, <2>3 DEF HistoryIsLatest
<1>2. QED BY ViewHolds, <1>1, PTL

(***************************************************************************)
(* The changes.  What is told of a connection, by the id it has.           *)
(***************************************************************************)
ToldInv ==
  /\ nextID <= MaxId
  /\ \A i \in ID : changeKeys[i].told =>
       /\ displayed[i] # NoCell /\ i \in announced
       /\ changeKeys[i].end = snap[displayed[i]].End
       /\ changeKeys[i].end # "ongoing" <=> i \in over
  /\ \A i \in ID : displayed[i] # NoCell /\ ~changeKeys[i].told => i \notin announced \cup over
  /\ \A i \in ID : displayed[i] = NoCell /\ i <= nextID => i \in announced \cap over
  /\ \A i \in ID : i > nextID => i \notin announced \cup over /\ displayed[i] = NoCell

KeyOf(r, i) == changeKey(r.snap[r.displayed[i]])

LEMMA FieldsOf ==
  ASSUME NEW r, NEW i \in ID
  PROVE  fields(r, i) =
           IF r.displayed[i] = NoCell THEN IF displayed[i] = NoCell THEN {} ELSE left(r, i)
           ELSE IF waits(r, i) THEN {}
           ELSE IF ~changeKeys[i].told
           THEN {"new"} \cup (IF KeyOf(r, i).end # "ongoing" THEN {"end"} ELSE {})
           ELSE (IF KeyOf(r, i).state # changeKeys[i].state THEN {"state"} ELSE {})
                \cup (IF KeyOf(r, i).end # changeKeys[i].end THEN {"end"} ELSE {})
  BY DEF fields, KeyOf

LEMMA KeyEnd ==
  ASSUME NEW r, NEW i
  PROVE  KeyOf(r, i).told /\ KeyOf(r, i).end = r.snap[r.displayed[i]].End
  BY DEF KeyOf, changeKey

LEMMA FieldsInOrder ==
  ASSUME ViewInv, ToldInv, NEW r, NEW used, Good(r, used), NEW i \in ID
  PROVE  /\ fields(r, i) # {} => ("new" \in fields(r, i) <=> i \notin announced)
         /\ "end" \in fields(r, i) => i \notin over
<1>1. nextID \in Nat /\ i \in Nat BY DEF ViewInv, Ids, View, ID
<1>2. CASE r.displayed[i] = NoCell /\ displayed[i] = NoCell BY <1>2, FieldsOf
<1>3. CASE r.displayed[i] = NoCell /\ displayed[i] # NoCell
  <2>1. fields(r, i) = left(r, i) BY <1>3, FieldsOf
  <2>2. CASE ~changeKeys[i].told
    <3>1. fields(r, i) = {"new", "end"} BY <2>1, <2>2 DEF left
    <3>2. i \notin announced \cup over BY <1>3, <2>2 DEF ToldInv
    <3>3. QED BY <3>1, <3>2
  <2>3. CASE changeKeys[i].told
    <3>1. fields(r, i) = IF changeKeys[i].end = "ongoing" THEN {"end"} ELSE {} BY <2>1, <2>3 DEF left
    <3>2. i \in announced /\ (changeKeys[i].end # "ongoing" <=> i \in over) BY <2>3 DEF ToldInv
    <3>3. QED BY <3>1, <3>2
  <2>4. QED BY <2>2, <2>3
<1>4. CASE r.displayed[i] # NoCell /\ waits(r, i) BY <1>4, FieldsOf
<1>5. CASE r.displayed[i] # NoCell /\ ~waits(r, i) /\ ~changeKeys[i].told
  <2>1. /\ "new" \in fields(r, i)
        /\ fields(r, i) = {"new"} \cup (IF KeyOf(r, i).end # "ongoing" THEN {"end"} ELSE {})
    BY <1>5, FieldsOf
  <2>2. displayed[i] # NoCell \/ i > nextID BY <1>5 DEF Good, Newcomers
  <2>3. i \notin announced \cup over BY <1>5, <2>2 DEF ToldInv
  <2>4. QED BY <2>1, <2>3
<1>6. CASE r.displayed[i] # NoCell /\ ~waits(r, i) /\ changeKeys[i].told
  <2>1. fields(r, i) = (IF KeyOf(r, i).state # changeKeys[i].state THEN {"state"} ELSE {})
                       \cup (IF KeyOf(r, i).end # changeKeys[i].end THEN {"end"} ELSE {})
    BY <1>6, FieldsOf
  <2>2. /\ displayed[i] # NoCell /\ i \in announced /\ changeKeys[i].end = snap[displayed[i]].End
        /\ changeKeys[i].end # "ongoing" <=> i \in over
    BY <1>6 DEF ToldInv
  <2>3. "new" \notin fields(r, i) BY <2>1
  <2>4. i \in over => KeyOf(r, i).end = changeKeys[i].end
    BY <1>6, <2>2, KeyEnd DEF Good, EndsKept, Ended
  <2>5. "end" \in fields(r, i) => KeyOf(r, i).end # changeKeys[i].end BY <2>1
  <2>6. QED BY <2>2, <2>3, <2>4, <2>5
<1>7. QED BY <1>2, <1>3, <1>4, <1>5, <1>6

LEMMA ToldStep ==
  ASSUME ViewInv, ToldInv, Refresh
  PROVE  /\ ToldInv'
         /\ \A c \in lastChanges' : /\ "new" \in c.Changes <=> c.id \notin announced
                                    /\ "end" \in c.Changes => c.id \notin over
<1>1. PICK r, used :
        /\ Good(r, used) /\ detectChanges(r) /\ nextID' = r.nextID /\ displayed' = r.displayed
        /\ r.nextID <= MaxId
        /\ \A i \in ID : r.displayed[i] # NoCell => snap'[r.displayed[i]] = r.snap[r.displayed[i]]
  BY RefreshGood
<1>2. /\ lastChanges' = rows(r)
      /\ \A i \in ID : changeKeys'[i] = IF r.displayed[i] = NoCell \/ waits(r, i) THEN Untold
                                        ELSE KeyOf(r, i)
      /\ announced' = announced \cup told(r, "new") /\ over' = over \cup told(r, "end")
  BY <1>1 DEF detectChanges, KeyOf
<1>3. \A i \in ID : /\ i \in announced' <=> i \in announced \/ "new" \in fields(r, i)
                    /\ i \in over' <=> i \in over \/ "end" \in fields(r, i)
  BY <1>2 DEF told
<1>4. \A i \in ID : /\ fields(r, i) # {} => ("new" \in fields(r, i) <=> i \notin announced)
                    /\ "end" \in fields(r, i) => i \notin over
  BY <1>1, FieldsInOrder
<1>5. ASSUME NEW c \in lastChanges'
      PROVE  ("new" \in c.Changes <=> c.id \notin announced) /\ ("end" \in c.Changes => c.id \notin over)
  <2>1. PICK i \in ID : c = [id |-> i, Changes |-> fields(r, i)] /\ fields(r, i) # {}
    BY <1>2 DEF rows
  <2>2. c.id = i /\ c.Changes = fields(r, i) BY <2>1
  <2>3. QED BY <1>4, <2>1, <2>2
<1>6. ~Untold.told BY DEF Untold
<1>7. nextID \in Nat /\ r.nextID \in Nat /\ nextID <= r.nextID
  BY <1>1 DEF ViewInv, Ids, View, Good, Newcomers
<1>8. ASSUME NEW i \in ID, changeKeys'[i].told
      PROVE  /\ displayed'[i] # NoCell /\ i \in announced'
             /\ changeKeys'[i].end = snap'[displayed'[i]].End
             /\ changeKeys'[i].end # "ongoing" <=> i \in over'
  <2>1. r.displayed[i] # NoCell /\ ~waits(r, i) /\ changeKeys'[i] = KeyOf(r, i) BY <1>2, <1>6, <1>8
  <2>2. displayed'[i] # NoCell /\ changeKeys'[i].end = snap'[displayed'[i]].End
    BY <1>1, <2>1, KeyEnd
  <2>3. CASE ~changeKeys[i].told
    <3>1. fields(r, i) = {"new"} \cup (IF KeyOf(r, i).end # "ongoing" THEN {"end"} ELSE {})
      BY <2>1, <2>3, FieldsOf
    <3>2. "new" \in fields(r, i) /\ ("end" \in fields(r, i) <=> KeyOf(r, i).end # "ongoing") BY <3>1
    <3>3. displayed[i] # NoCell \/ i > nextID BY <1>1, <2>1 DEF Good, Newcomers
    <3>4. i \notin over BY <2>3, <3>3 DEF ToldInv
    <3>5. QED BY <1>3, <2>1, <2>2, <3>2, <3>4
  <2>4. CASE changeKeys[i].told
    <3>1. fields(r, i) = (IF KeyOf(r, i).state # changeKeys[i].state THEN {"state"} ELSE {})
                         \cup (IF KeyOf(r, i).end # changeKeys[i].end THEN {"end"} ELSE {})
      BY <2>1, <2>4, FieldsOf
    <3>2. "end" \in fields(r, i) <=> KeyOf(r, i).end # changeKeys[i].end BY <3>1
    <3>3. /\ displayed[i] # NoCell /\ i \in announced /\ changeKeys[i].end = snap[displayed[i]].End
          /\ changeKeys[i].end # "ongoing" <=> i \in over
      BY <2>4 DEF ToldInv
    <3>4. i \in over => KeyOf(r, i).end = changeKeys[i].end
      BY <1>1, <2>1, <3>3, KeyEnd DEF Good, EndsKept, Ended
    <3>5. QED BY <1>3, <2>1, <2>2, <3>2, <3>3, <3>4
  <2>5. QED BY <2>3, <2>4
<1>9. ASSUME NEW i \in ID, displayed'[i] # NoCell, ~changeKeys'[i].told
      PROVE  i \notin announced' \cup over'
  <2>1. r.displayed[i] # NoCell /\ waits(r, i) BY <1>1, <1>2, <1>9, KeyEnd
  <2>2. fields(r, i) = {} BY <2>1, FieldsOf
  <2>3. ~changeKeys[i].told BY <2>1 DEF waits
  <2>4. displayed[i] # NoCell \/ i > nextID BY <1>1, <2>1 DEF Good, Newcomers
  <2>5. i \notin announced \cup over BY <2>3, <2>4 DEF ToldInv
  <2>6. QED BY <1>3, <2>2, <2>5
<1>10. ASSUME NEW i \in ID, displayed'[i] = NoCell, i <= nextID'
       PROVE  i \in announced' \cap over'
  <2>1. r.displayed[i] = NoCell /\ i <= r.nextID BY <1>1, <1>10
  <2>2. i <= nextID
    <3>1. ~(nextID < i) BY <1>1, <2>1 DEF Good, Newcomers
    <3>2. QED BY <1>7, <3>1 DEF ID
  <2>3. CASE displayed[i] = NoCell
    <3>1. i \in announced \cap over BY <2>2, <2>3 DEF ToldInv
    <3>2. QED BY <1>3, <3>1
  <2>4. CASE displayed[i] # NoCell
    <3>1. fields(r, i) = left(r, i) BY <2>1, <2>4, FieldsOf
    <3>2. CASE ~changeKeys[i].told
      <4>1. fields(r, i) = {"new", "end"} BY <3>1, <3>2 DEF left
      <4>2. QED BY <1>3, <4>1
    <3>3. CASE changeKeys[i].told
      <4>1. fields(r, i) = IF changeKeys[i].end = "ongoing" THEN {"end"} ELSE {}
        BY <3>1, <3>3 DEF left
      <4>2. i \in announced /\ (changeKeys[i].end # "ongoing" <=> i \in over) BY <3>3 DEF ToldInv
      <4>3. QED BY <1>3, <4>1, <4>2
    <3>4. QED BY <3>2, <3>3
  <2>5. QED BY <2>3, <2>4
<1>11. ASSUME NEW i \in ID, i > nextID'
       PROVE  i \notin announced' \cup over' /\ displayed'[i] = NoCell
  <2>1. i > r.nextID /\ i > nextID
    <3>1. i > r.nextID BY <1>1, <1>11
    <3>2. QED BY <1>7, <3>1 DEF ID
  <2>2. r.displayed[i] = NoCell
    <3>1. r.displayed[i] # NoCell => i <= r.nextID BY <1>1 DEF Good, Ids
    <3>2. QED BY <1>7, <2>1, <3>1 DEF ID
  <2>3. displayed[i] = NoCell /\ i \notin announced \cup over BY <2>1 DEF ToldInv
  <2>4. fields(r, i) = {} BY <2>2, <2>3, FieldsOf
  <2>5. QED BY <1>1, <1>3, <2>2, <2>3, <2>4
<1>12. ToldInv' BY <1>1, <1>8, <1>9, <1>10, <1>11 DEF ToldInv
<1>13. QED BY <1>5, <1>12

LEMMA ToldInvInit == Init => ToldInv
<1>1. MaxId \in Nat BY HostViewAssumption DEF HostViewAssumption
<1>2. QED BY <1>1 DEF Init, ToldInv, Untold, ID

LEMMA ToldInvNext == ViewInv /\ ToldInv /\ [Next]_vars => ToldInv'
<1> SUFFICES ASSUME ViewInv, ToldInv, [Next]_vars PROVE ToldInv' OBVIOUS
<1>1. CASE UNCHANGED state BY <1>1 DEF state, ToldInv
<1>2. CASE Refresh BY <1>2, ToldStep
<1>3. Refresh \/ UNCHANGED state
  BY DEF Next, Appear, Packet, ConnectFails, LinkNAT, Vanish, vars
<1>4. QED BY <1>1, <1>2, <1>3

(* The stream tells "new" of a connection once and first, and "end" once; and *)
(* what has left the view was told both (detectChanges), for any number of     *)
(* connections, late window and clock.                                       *)
THEOREM Changes == Spec => ChangesInOrder
<1>1. ViewInv /\ ToldInv /\ [Next]_vars =>
        [now' # now => \A c \in lastChanges' :
           /\ "new" \in c.Changes <=> c.id \notin announced
           /\ "end" \in c.Changes => c.id \notin over]_vars
  <2> SUFFICES ASSUME ViewInv, ToldInv, [Next]_vars, now' # now
               PROVE  \A c \in lastChanges' : /\ "new" \in c.Changes <=> c.id \notin announced
                                              /\ "end" \in c.Changes => c.id \notin over
    OBVIOUS
  <2>1. Refresh
    BY DEF Next, Appear, Packet, ConnectFails, LinkNAT, Vanish, vars
  <2>2. QED BY <2>1, ToldStep
<1>2. ViewInv /\ ToldInv => \A i \in 1..nextID : displayed[i] = NoCell => i \in announced \cap over
  <2> SUFFICES ASSUME ViewInv, ToldInv, NEW i \in 1..nextID, displayed[i] = NoCell
               PROVE  i \in announced \cap over
    OBVIOUS
  <2>1. nextID <= MaxId /\ MaxId \in Nat /\ nextID \in Nat
    BY HostViewAssumption DEF HostViewAssumption, ToldInv, ViewInv, Ids, View
  <2>2. i \in ID /\ i <= nextID BY <2>1 DEF ID
  <2>3. QED BY <2>2 DEF ToldInv
<1>3. Spec => []ToldInv
  <2>1. ViewInv /\ ToldInv /\ [Next]_vars => ToldInv' BY ToldInvNext
  <2>2. QED BY ToldInvInit, ViewHolds, <2>1, PTL DEF Spec
<1>4. QED BY ViewHolds, <1>1, <1>2, <1>3, PTL DEF Spec, ChangesInOrder

(***************************************************************************)
(* Identity: only a group that was joined or split gives an observation    *)
(* another id.                                                             *)
(***************************************************************************)
LEMMA FirstIDOf ==
  ASSUME NEW group \in Seq(Live), NEW o \in Range(group), flowIDs[o] # 0
  PROVE  firstID(group) # 0
<1>1. PICK known : known = {i \in DOMAIN group : flowIDs[group[i]] # 0} OBVIOUS
<1>2. firstID(group) = IF known = {} THEN 0 ELSE flowIDs[group[Min(known)]] BY <1>1 DEF firstID
<1>3. known # {} BY <1>1 DEF Range
<1>4. known \in SUBSET Nat BY <1>1
<1>5. PICK i \in known : i = Min(known) BY <1>3, <1>4, LeastOf
<1>6. QED BY <1>1, <1>2, <1>3, <1>5

LEMMA IdentityStep ==
  ASSUME ViewInv, Refresh, NEW o \in Live, flowIDs[o] # 0, flowIDs'[o] \notin {0, flowIDs[o]}
  PROVE  \E p \in Live \ {o} :
           \/ flowIDs'[p] = flowIDs'[o] /\ flowIDs[p] \notin {0, flowIDs[o]}
           \/ flowIDs[p] = flowIDs[o] /\ flowIDs'[p] # flowIDs'[o]
<1>1. PICK r, groups :
        /\ groups \in Seq(Seq(Live)) /\ Numbered(r, groups, Len(groups)) /\ flowIDs' = r.flowIDs
  BY RefreshGood
<1>2. PICK n \in Nat : n = Len(groups) BY <1>1
<1>3. PICK k \in 1..n : o \in Range(groups[k]) BY <1>1, <1>2, LiveObs DEF Numbered
<1>4. ASSUME NEW j \in 1..n PROVE groups[j] \in Seq(Live) /\ Range(groups[j]) \subseteq Live
  <2>1. groups[j] \in Seq(Live) BY <1>1, <1>2
  <2>2. QED BY <2>1 DEF Range
<1>5. PICK a : a = firstID(groups[k]) OBVIOUS
<1>6. a # 0 BY <1>3, <1>4, <1>5, FirstIDOf
<1>7. ASSUME NEW j \in 1..n, firstID(groups[j]) = a
      PROVE  \E q \in Range(groups[j]) : flowIDs[q] = a
  <2>1. a \in earlierIDs(groups[j]) BY <1>4, <1>6, <1>7, FirstIDs DEF ViewInv
  <2>2. QED BY <2>1 DEF earlierIDs
<1>8. PICK q \in Range(groups[k]) : flowIDs[q] = a BY <1>5, <1>7
<1>9. a \in ID /\ displayed[a] # NoCell
  <2>1. a \in ID /\ displayed[a] \in Cell BY <1>4, <1>5, <1>6, FirstIDs DEF ViewInv
  <2>2. QED BY <2>1, CellsAreNumbers
<1>10. a <= nextID BY <1>9 DEF ViewInv, Ids, View
<1>11. PICK id : /\ \A p \in Range(groups[k]) : flowIDs'[p] = id
                 /\ id = a \/ (id > nextID /\ r.displayed[a] # NoCell)
  BY <1>1, <1>2, <1>5, <1>6 DEF Numbered
<1>12. flowIDs'[o] = id /\ flowIDs'[q] = id /\ q \in Live BY <1>3, <1>4, <1>8, <1>11
<1>13. CASE a # flowIDs[o]
  <2>1. q # o BY <1>8, <1>13
  <2>2. QED BY <1>6, <1>8, <1>12, <1>13, <2>1
<1>14. CASE a = flowIDs[o]
  <2>1. id # a BY <1>12, <1>14
  <2>2. r.displayed[a] # NoCell BY <1>11, <2>1
  <2>3. PICK j \in 1..n : firstID(groups[j]) = a /\ \A p \in Range(groups[j]) : flowIDs'[p] = a
    BY <1>1, <1>2, <1>9, <1>10, <2>2 DEF Numbered
  <2>4. PICK p \in Range(groups[j]) : flowIDs[p] = a BY <1>7, <2>3
  <2>5. p \in Live /\ flowIDs'[p] = a BY <1>4, <2>3
  <2>6. p # o BY <1>12, <2>1, <2>5
  <2>7. QED BY <1>12, <1>14, <2>1, <2>4, <2>5, <2>6
<1>15. QED BY <1>13, <1>14

(* An observation's connection changes only when its group is joined with that *)
(* of another or loses a member (updateAt, firstID): for any number of         *)
(* observations, in whatever order the groups come.                          *)
THEOREM Identity == Spec => IdentityKept
<1>1. ViewInv /\ [Next]_vars =>
        [\A o \in Live :
           flowIDs[o] # 0 /\ flowIDs'[o] \notin {0, flowIDs[o]} =>
             \E p \in Live \ {o} :
               \/ flowIDs'[p] = flowIDs'[o] /\ flowIDs[p] \notin {0, flowIDs[o]}
               \/ flowIDs[p] = flowIDs[o] /\ flowIDs'[p] # flowIDs'[o]]_vars
  <2> SUFFICES ASSUME ViewInv, [Next]_vars, NEW o \in Live,
                      flowIDs[o] # 0, flowIDs'[o] \notin {0, flowIDs[o]}
               PROVE  \E p \in Live \ {o} :
                        \/ flowIDs'[p] = flowIDs'[o] /\ flowIDs[p] \notin {0, flowIDs[o]}
                        \/ flowIDs[p] = flowIDs[o] /\ flowIDs'[p] # flowIDs'[o]
    OBVIOUS
  <2>1. Refresh
    BY DEF Next, Appear, Packet, ConnectFails, LinkNAT, Vanish, vars, state
  <2>2. QED BY <2>1, IdentityStep
<1>2. QED BY ViewHolds, <1>1, PTL DEF Spec, IdentityKept

(***************************************************************************)
(* Whose snapshot a group takes: one that nothing points to, or the one its  *)
(* first id shows.  A group that must not merge into that has failed, if no   *)
(* earlier group did.                                                      *)
(***************************************************************************)
HistoryFinal(h, m) == \A e \in Range(h) : e.cell \in Cell /\ Ended(m, e.cell)
Chosen(c, groups, n) ==
  /\ \A e \in Range(history) : /\ c.snap[e.cell] = snap[e.cell]
                               /\ \A k \in 1..n : c.cells[k] # e.cell
  /\ \A i \in ID, k \in 1..n : displayed[i] = c.cells[k] =>
       firstID(groups[k]) # 0 /\ displayed[firstID(groups[k])] = c.cells[k]
  /\ \A k \in 1..n :
       /\ firstID(groups[k]) # 0 /\ ~Ended(snap, displayed[firstID(groups[k])])
       /\ \A j \in 1..k : c.cells[j] # displayed[firstID(groups[k])]
       => Ended(c.snap, c.cells[k])

LEMMA Failing ==
  ASSUME NEW group, NEW o \in Range(group), obs[o].Failed PROVE mergeObservedFlow(group).End = "failed"
  BY DEF mergeObservedFlow

LEMMA WayChosen ==
  ASSUME Ids(View), NEW group \in Seq(Live), NEW c, Spare(c)
  PROVE  \E x \in Cell :
           /\ merge(c, group) = [snap |-> [c.snap EXCEPT ![x] = mergeObservedFlow(group)],
                                 cells |-> Append(c.cells, x)]
           /\ x \notin Range(c.cells)
           /\ \/ reuse(group, c.snap, Range(c.cells)) /\ x = displayed[firstID(group)]
              \/ ~reuse(group, c.snap, Range(c.cells)) /\ x \notin referenced
<1>1. PICK used : used = Range(c.cells) OBVIOUS
<1>2. CASE reuse(group, c.snap, used)
  <2>1. firstID(group) # 0 BY <1>2 DEF reuse
  <2>2. PICK x \in Cell : x = displayed[firstID(group)] BY <2>1, FirstIDs
  <2>3. x \notin used BY <1>2, <2>2 DEF reuse
  <2>4. merge(c, group) = [snap |-> [c.snap EXCEPT ![x] = mergeObservedFlow(group)],
                           cells |-> Append(c.cells, x)]
    BY <1>1, <1>2, <2>2 DEF merge
  <2>5. QED BY <1>1, <1>2, <2>2, <2>3, <2>4
<1>3. CASE ~reuse(group, c.snap, used)
  <2>1. PICK free : free = Cell \ (referenced \cup used) OBVIOUS
  <2>2. free # {} BY <1>1, <2>1 DEF Spare
  <2>3. free \in SUBSET Nat BY <2>1, CellsAreNumbers
  <2>4. PICK x \in free : x = Min(free) BY <2>2, <2>3, LeastOf
  <2>5. x \in Cell /\ x \notin used /\ x \notin referenced BY <2>1
  <2>6. merge(c, group) = [snap |-> [c.snap EXCEPT ![x] = mergeObservedFlow(group)],
                           cells |-> Append(c.cells, x)]
    BY <1>1, <1>3, <2>1, <2>4 DEF merge
  <2>7. QED BY <1>1, <1>3, <2>5, <2>6
<1>4. QED BY <1>2, <1>3

LEMMA ChosenStep ==
  ASSUME Ids(View), HistoryFinal(history, snap), NEW groups \in Seq(Seq(Live)), NEW n \in Nat,
         n + 1 \in 1..Len(groups), NEW c, Collected(c, n), Spare(c), Chosen(c, groups, n),
         NEW d, d = merge(c, groups[n + 1])
  PROVE  Chosen(d, groups, n + 1)
<1>1. PICK group \in Seq(Live) : group = groups[n + 1] OBVIOUS
<1>2. PICK m : m = mergeObservedFlow(group) OBVIOUS
<1>3. PICK x \in Cell :
        /\ d = [snap |-> [c.snap EXCEPT ![x] = m], cells |-> Append(c.cells, x)]
        /\ x \notin Range(c.cells)
        /\ \/ reuse(group, c.snap, Range(c.cells)) /\ x = displayed[firstID(group)]
           \/ ~reuse(group, c.snap, Range(c.cells)) /\ x \notin referenced
  BY <1>1, <1>2, WayChosen
<1>4. d.snap = [c.snap EXCEPT ![x] = m] /\ d.cells = Append(c.cells, x) BY <1>3
<1>5. c.cells \in Seq(Cell) /\ Len(c.cells) = n BY DEF Collected
<1>6. d.cells[n + 1] = x /\ \A k \in 1..n : d.cells[k] = c.cells[k] BY <1>4, <1>5
<1>7. \A k \in 1..n : c.cells[k] \in Cell /\ c.cells[k] # x BY <1>3, <1>5 DEF Range
<1>8. DOMAIN d.snap = Cell /\ \A y \in Cell : d.snap[y] = IF y = x THEN m ELSE c.snap[y]
  BY <1>4 DEF Collected, SnapType
<1>9. \A k \in 1..(n + 1) : k \in 1..n \/ k = n + 1 OBVIOUS
<1>10. ASSUME NEW e \in Range(history)
       PROVE  d.snap[e.cell] = snap[e.cell] /\ \A k \in 1..(n + 1) : d.cells[k] # e.cell
  <2>1. /\ c.snap[e.cell] = snap[e.cell] /\ e.cell \in Cell /\ snap[e.cell].End # "ongoing"
        /\ \A k \in 1..n : c.cells[k] # e.cell
    BY DEF Chosen, HistoryFinal, Ended
  <2>2. e.cell # x
    <3>1. CASE reuse(group, c.snap, Range(c.cells)) /\ x = displayed[firstID(group)]
      <4>1. c.snap[x].End = "ongoing" BY <3>1 DEF reuse
      <4>2. QED BY <2>1, <4>1
    <3>2. CASE x \notin referenced
      <4>1. PICK i \in DOMAIN history : e = history[i] BY DEF Range
      <4>2. QED BY <3>2, <4>1 DEF referenced
    <3>3. QED BY <1>3, <3>1, <3>2
  <2>3. QED BY <1>6, <1>8, <1>9, <2>1, <2>2
<1>11. ASSUME NEW i \in ID, NEW k \in 1..(n + 1), displayed[i] = d.cells[k]
       PROVE  firstID(groups[k]) # 0 /\ displayed[firstID(groups[k])] = d.cells[k]
  <2>1. CASE k \in 1..n BY <1>6, <1>11, <2>1 DEF Chosen
  <2>2. CASE k = n + 1
    <3>1. displayed[i] = x BY <1>6, <1>11, <2>2
    <3>2. reuse(group, c.snap, Range(c.cells)) /\ x = displayed[firstID(group)]
      BY <1>3, <3>1 DEF referenced
    <3>3. firstID(group) # 0 BY <3>2 DEF reuse
    <3>4. QED BY <1>1, <1>6, <2>2, <3>2, <3>3
  <2>3. QED BY <1>9, <2>1, <2>2
<1>12. ASSUME NEW k \in 1..(n + 1), firstID(groups[k]) # 0,
              ~Ended(snap, displayed[firstID(groups[k])]),
              \A j \in 1..k : d.cells[j] # displayed[firstID(groups[k])]
       PROVE  Ended(d.snap, d.cells[k])
  <2>1. CASE k \in 1..n
    <3>1. \A j \in 1..k : c.cells[j] # displayed[firstID(groups[k])] BY <1>6, <1>12, <2>1
    <3>2. Ended(c.snap, c.cells[k]) BY <1>12, <2>1, <3>1 DEF Chosen
    <3>3. d.snap[c.cells[k]] = c.snap[c.cells[k]] BY <1>7, <1>8, <2>1
    <3>4. QED BY <1>6, <2>1, <3>2, <3>3 DEF Ended
  <2>2. CASE k = n + 1
    <3>1. PICK f \in ID : f = firstID(group) /\ displayed[f] \in Cell BY <1>1, <1>12, <2>2, FirstIDs
    <3>2. displayed[f] # x BY <1>1, <1>6, <1>12, <2>2, <3>1
    <3>3. displayed[f] \notin Range(c.cells) BY <1>1, <1>5, <1>6, <1>12, <2>2, <3>1 DEF Range
    <3>4. c.snap[displayed[f]].End = "ongoing"
      <4>1. c.snap[displayed[f]].End = snap[displayed[f]].End BY <3>1, CellsAreNumbers DEF Collected
      <4>2. QED BY <1>1, <1>12, <2>2, <3>1, <4>1 DEF Ended
    <3>5. ~reuse(group, c.snap, Range(c.cells)) BY <1>3, <3>1, <3>2
    <3>6. PICK o \in Range(group) : obs[o].Failed
      BY <1>1, <1>12, <2>2, <3>1, <3>3, <3>4, <3>5, CellsAreNumbers DEF reuse
    <3>7. m.End = "failed" BY <1>2, <3>6, Failing
    <3>8. QED BY <1>6, <1>8, <2>2, <3>7 DEF Ended
  <2>3. QED BY <1>9, <2>1, <2>2
<1>13. QED BY <1>10, <1>11, <1>12 DEF Chosen

LEMMA AllChosen ==
  ASSUME Ids(View), SnapType(snap), HistoryFinal(history, snap), NEW groups \in Seq(Seq(Live)),
         Spare(collect(groups))
  PROVE  Chosen(collect(groups), groups, Len(groups))
<1>1. PICK N \in Nat : N = Len(groups) OBVIOUS
<1>2. PICK f : /\ f[0] = [snap |-> snap, cells |-> <<>>]
               /\ \A n \in 1..N : f[n] = merge(f[n - 1], groups[n])
               /\ collect(groups) = f[N]
  BY <1>1, CollectSteps
<1> DEFINE More(n) == \E S : f[n].cells \in Seq(S)
           P == {n \in 0..N : More(n) /\ (Spare(f[n]) => Collected(f[n], n) /\ Chosen(f[n], groups, n))}
<1>3. 0 \in P
  <2>1. <<>> \in Seq({}) /\ <<>> \in Seq(Cell) /\ Len(<<>>) = 0 OBVIOUS
  <2>2. f[0].cells = <<>> /\ f[0].snap = snap /\ DOMAIN f[0] = {"snap", "cells"} BY <1>2
  <2>3. Collected(f[0], 0) BY <2>1, <2>2 DEF Collected
  <2>4. Chosen(f[0], groups, 0) BY <2>2 DEF Chosen
  <2>5. \E S : f[0].cells \in Seq(S) BY <2>1, <2>2
  <2>6. QED BY <2>3, <2>4, <2>5
<1>4. ASSUME NEW n \in 0..N, n < N, n \in P PROVE n + 1 \in P
  <2>1. PICK S : f[n].cells \in Seq(S) BY <1>4
  <2>2. n + 1 \in 1..N /\ groups[n + 1] \in Seq(Live) BY <1>1, <1>4
  <2>3. f[n + 1] = merge(f[n], groups[n + 1]) BY <1>2, <2>2
  <2>4. PICK x : f[n + 1].cells = Append(f[n].cells, x) BY <2>3 DEF merge
  <2>5. f[n].cells \in Seq(S \cup {x}) BY <2>1
  <2>6. f[n + 1].cells \in Seq(S \cup {x}) BY <2>4, <2>5
  <2>7. Range(f[n].cells) \subseteq Range(f[n + 1].cells)
    <3>1. PICK s \in Seq(S \cup {x}) : s = f[n].cells BY <2>5
    <3>2. \A i \in DOMAIN s : i \in DOMAIN Append(s, x) /\ Append(s, x)[i] = s[i] OBVIOUS
    <3>3. QED BY <2>4, <3>1, <3>2 DEF Range
  <2>8. Spare(f[n + 1]) => Spare(f[n]) BY <2>7 DEF Spare
  <2>9. ASSUME Spare(f[n + 1]) PROVE Collected(f[n + 1], n + 1) /\ Chosen(f[n + 1], groups, n + 1)
    <3>1. Spare(f[n]) /\ Collected(f[n], n) /\ Chosen(f[n], groups, n) BY <1>4, <2>8, <2>9
    <3>2. Collected(f[n + 1], n + 1) BY <2>2, <2>3, <3>1, MergeStep
    <3>3. n \in Nat /\ n + 1 \in 1..Len(groups) BY <1>1, <2>2
    <3>4. QED BY <2>3, <3>1, <3>2, <3>3, ChosenStep
  <2>10. QED BY <1>4, <2>6, <2>9
<1>5. 0..N \subseteq P
  <2> HIDE DEF P
  <2>1. QED BY <1>3, <1>4, IntervalInduction
<1>6. Spare(f[N]) => Chosen(f[N], groups, N) BY <1>5
<1>7. QED BY <1>1, <1>2, <1>6

(***************************************************************************)
(* What a step writes: the snapshot x only, which stays over if it was, and  *)
(* in the history at most an entry for x once that is over.                 *)
(***************************************************************************)
Writes(r, s, x) ==
  /\ Range(r.log) \subseteq Range(s.log) /\ Len(r.history) <= Len(s.history)
  /\ \A e \in Range(s.history) : e \in Range(r.history) \/ (e.cell = x /\ Ended(s.snap, x))
  /\ \A y \in Cell : y # x => s.snap[y] = r.snap[y]
  /\ Ended(r.snap, x) => Ended(s.snap, x)

LEMMA Overwritten ==
  ASSUME NEW S, NEW h \in Seq(S), NEW a \in S,
         NEW g, g = [i \in DOMAIN h |-> g[i]], \A i \in DOMAIN h : g[i] = h[i] \/ g[i] = a
  PROVE  g \in Seq(S) /\ DOMAIN g = DOMAIN h /\ Len(g) = Len(h)
<1>1. PICK n \in Nat : n = Len(h) /\ DOMAIN h = 1..n OBVIOUS
<1>2. \A i \in 1..n : h[i] \in S BY <1>1
<1>3. \A i \in 1..n : g[i] \in S BY <1>1, <1>2
<1>4. g = [i \in 1..n |-> g[i]] BY <1>1
<1>5. g \in [1..n -> S] BY <1>3, <1>4
<1>6. g \in Seq(S) /\ Len(g) = n BY <1>5
<1>7. QED BY <1>1, <1>5, <1>6

LEMMA RememberWrites ==
  ASSUME NEW r, DOMAIN r = Parts, r.log \in Seq(ID), Ring(r.history, r.historyNext, r.log),
         NEW id \in ID, NEW x \in Cell, Ended(r.snap, x), NEW s, s = remember(r, id, x)
  PROVE  /\ Writes(r, s, x) /\ Ended(s.snap, x) /\ id \in Range(s.log)
         /\ s.displayed = r.displayed /\ s.absorbed = r.absorbed
<1>1. /\ s.log = Append(r.log, id)
      /\ s.snap = r.snap /\ s.displayed = r.displayed /\ s.absorbed = r.absorbed
  BY DEF remember, Parts
<1>2. /\ \A k \in DOMAIN r.log : k \in DOMAIN s.log /\ s.log[k] = r.log[k]
      /\ Len(r.log) + 1 \in DOMAIN s.log /\ s.log[Len(r.log) + 1] = id
  <2>1. PICK n \in Nat : n = Len(r.log) OBVIOUS
  <2>2. DOMAIN r.log = 1..n /\ DOMAIN s.log = 1..(n + 1) /\ s.log[n + 1] = id BY <1>1, <2>1
  <2>3. \A k \in 1..n : s.log[k] = r.log[k] BY <1>1, <2>1
  <2>4. QED BY <2>1, <2>2, <2>3
<1>3. Range(r.log) \subseteq Range(s.log) /\ id \in Range(s.log) BY <1>2 DEF Range
<1>4. PICK H \in Nat \ {0} : H = HistorySize BY RingSize
<1>5. PICK h : h = r.history /\ h \in Seq([id : ID, cell : Cell]) BY DEF Ring
<1>6. PICK g : g = s.history OBVIOUS
<1>7. PICK a : a = Entry(id, x) /\ a \in [id : ID, cell : Cell] /\ a.cell = x
  <2>1. Entry(id, x) \in [id : ID, cell : Cell] /\ Entry(id, x).cell = x BY DEF Entry
  <2>2. QED BY <2>1
<1>8. Len(h) <= Len(g) /\ \A e \in Range(g) : e \in Range(h) \/ e = a
  <2>1. CASE Len(h) < HistorySize
    <3>1. g = Append(h, a) BY <1>5, <1>6, <1>7, <2>1 DEF remember, Parts
    <3>2. PICK n \in Nat : n = Len(h) BY <1>5
    <3>3. /\ DOMAIN h = 1..n /\ DOMAIN g = 1..(n + 1) /\ Len(g) = n + 1 /\ g[n + 1] = a
          /\ \A k \in 1..n : g[k] = h[k]
      BY <1>5, <1>7, <3>1, <3>2
    <3>4. \A k \in 1..(n + 1) : k \in 1..n \/ k = n + 1 OBVIOUS
    <3>5. QED BY <3>2, <3>3, <3>4 DEF Range
  <2>2. CASE ~(Len(h) < HistorySize)
    <3>1. g = [h EXCEPT ![r.historyNext + 1] = a] BY <1>5, <1>6, <1>7, <2>2 DEF remember, Parts
    <3>2. g \in Seq([id : ID, cell : Cell]) /\ DOMAIN g = DOMAIN h /\ Len(g) = Len(h)
      <4>1. PICK S : S = [id : ID, cell : Cell] OBVIOUS
      <4>2. h \in Seq(S) /\ a \in S BY <1>5, <1>7, <4>1
      <4>3. g \in Seq(S) /\ DOMAIN g = DOMAIN h /\ Len(g) = Len(h)
        <5>1. g = [i \in DOMAIN h |-> g[i]] BY <3>1
        <5>2. \A i \in DOMAIN h : g[i] = h[i] \/ g[i] = a BY <3>1
        <5>3. QED BY <4>2, <5>1, <5>2, Overwritten
      <4>4. QED BY <4>1, <4>3
    <3>3. \A k \in DOMAIN h : g[k] = h[k] \/ g[k] = a BY <3>1
    <3>4. Len(h) \in Nat BY <1>5
    <3>5. QED BY <3>2, <3>3, <3>4 DEF Range
  <2>3. QED BY <2>1, <2>2
<1>9. Ended(s.snap, x) BY <1>1
<1>10. QED BY <1>1, <1>3, <1>5, <1>6, <1>7, <1>8, <1>9 DEF Writes

LEMMA EndWrites ==
  ASSUME NEW r, DOMAIN r = Parts, SnapType(r.snap), r.log \in Seq(ID),
         Ring(r.history, r.historyNext, r.log), NEW id \in ID, NEW x \in Cell, NEW e, e # "ongoing",
         NEW s, s = remember(Ending(r, x, e), id, x)
  PROVE  /\ Writes(r, s, x) /\ Ended(s.snap, x) /\ id \in Range(s.log)
         /\ s.displayed = r.displayed /\ s.absorbed = r.absorbed
<1>1. PICK q : q = Ending(r, x, e) OBVIOUS
<1>2. /\ DOMAIN q = Parts /\ q.snap = [r.snap EXCEPT ![x].End = e]
      /\ q.log = r.log /\ q.history = r.history /\ q.historyNext = r.historyNext
      /\ q.displayed = r.displayed /\ q.absorbed = r.absorbed
  BY <1>1 DEF Ending, Parts
<1>3. \A y \in Cell : y # x => q.snap[y] = r.snap[y] BY <1>2 DEF SnapType
<1>4. q.snap[x].End = e BY <1>2 DEF SnapType
<1>5. Ended(q.snap, x) BY <1>4 DEF Ended
<1>6. /\ Writes(q, s, x) /\ Ended(s.snap, x) /\ id \in Range(s.log)
      /\ s.displayed = q.displayed /\ s.absorbed = q.absorbed
  BY <1>1, <1>2, <1>5, RememberWrites
<1>7. Writes(r, s, x) BY <1>2, <1>3, <1>6 DEF Writes
<1>8. QED BY <1>2, <1>6, <1>7

LEMMA NothingWritten == ASSUME NEW r, NEW x, Len(r.history) \in Nat PROVE Writes(r, r, x)
  BY DEF Writes

LEMMA EndIfWrites ==
  ASSUME NEW r, DOMAIN r = Parts, SnapType(r.snap), r.log \in Seq(ID),
         Ring(r.history, r.historyNext, r.log), NEW id \in ID, NEW x \in Cell, NEW wasEnded \in BOOLEAN,
         NEW s, s = endIf(r, id, x, wasEnded)
  PROVE  /\ Writes(r, s, x) /\ s.displayed = r.displayed /\ s.absorbed = r.absorbed
         /\ ~wasEnded /\ Ended(s.snap, x) => id \in Range(s.log)
<1>0. Writes(r, r, x)
  <2>1. Len(r.history) \in Nat BY DEF Ring
  <2>2. QED BY <2>1, NothingWritten
<1>1. CASE Ended(r.snap, x) /\ ~wasEnded
  <2>1. s = remember(r, id, x) BY <1>1 DEF endIf, Ended
  <2>2. QED BY <1>1, <2>1, RememberWrites
<1>2. CASE Ended(r.snap, x) /\ wasEnded
  <2>1. s = r BY <1>2 DEF endIf, Ended
  <2>2. QED BY <1>0, <1>2, <2>1
<1>3. CASE ~Ended(r.snap, x)
  <2>1. PICK e : e = endReason(r.snap[x]) /\ e # "ongoing" BY EndReasonIsEnd
  <2>2. s = remember(Ending(r, x, e), id, x) \/ s = r BY <1>3, <2>1 DEF endIf, Ended, Ending
  <2>3. CASE s = remember(Ending(r, x, e), id, x) BY <2>1, <2>3, EndWrites
  <2>4. CASE s = r BY <1>0, <1>3, <2>4
  <2>5. QED BY <2>2, <2>3, <2>4
<1>4. QED BY <1>1, <1>2, <1>3

LEMMA PlacedWrites ==
  ASSUME NEW r, SnapType(r.snap), NEW group, NEW cell \in Cell, WasOf(r, group) \in Cell \cup {NoCell},
         NEW shown, shown = ShownAt(r, group, cell), NEW m, m = MemoryOf(r, group, cell)
  PROVE  /\ SnapType(m) /\ \A y \in Cell : y # shown => m[y] = r.snap[y]
         /\ Ended(r.snap, shown) => Ended(m, shown)
         /\ Ended(r.snap, cell) => Ended(m, shown)
         /\ WasOver(r, group) => Ended(m, shown)
<1>1. CASE WasOf(r, group) = NoCell
  <2>1. m = r.snap /\ shown = cell BY <1>1 DEF MemoryOf, ShownAt
  <2>2. ~WasOver(r, group) BY <1>1 DEF WasOver
  <2>3. QED BY <2>1, <2>2
<1>2. CASE WasOf(r, group) # NoCell /\ WasOver(r, group)
  <2>1. PICK e : e = r.snap[WasOf(r, group)].End /\ e # "ongoing" BY <1>2 DEF WasOver
  <2>2. m = [r.snap EXCEPT ![cell].End = e] /\ shown = cell BY <1>2, <2>1 DEF MemoryOf, ShownAt
  <2>3. /\ DOMAIN m = Cell
        /\ \A c \in Cell : m[c] = IF c = cell THEN [r.snap[cell] EXCEPT !.End = e] ELSE r.snap[c]
    BY <2>2 DEF SnapType
  <2>4. m[cell].End = e BY <2>3 DEF SnapType
  <2>5. SnapType(m) BY <2>3 DEF SnapType
  <2>6. QED BY <2>1, <2>2, <2>3, <2>4, <2>5 DEF Ended
<1>3. CASE WasOf(r, group) # NoCell /\ ~WasOver(r, group)
  <2>1. PICK was \in Cell : was = WasOf(r, group) BY <1>3
  <2>2. r.snap[was].End = "ongoing" BY <1>3, <2>1 DEF WasOver
  <2>3. m = [r.snap EXCEPT ![was] = r.snap[cell]] /\ shown = was
    BY <1>3, <2>1 DEF MemoryOf, ShownAt
  <2>4. DOMAIN m = Cell /\ \A c \in Cell : m[c] = IF c = was THEN r.snap[cell] ELSE r.snap[c]
    BY <2>3 DEF SnapType
  <2>5. SnapType(m) BY <2>4 DEF SnapType
  <2>6. QED BY <1>3, <2>2, <2>3, <2>4, <2>5 DEF Ended
<1>4. QED BY <1>1, <1>2, <1>3

LEMMA ShowWrites ==
  ASSUME Ids(View), NEW group \in Seq(Live), NEW r, DOMAIN r = Parts, NEW used, Good(r, used),
         NEW cell \in Cell, NEW id, id = IdOf(r, group), id \in ID,
         NEW shown, shown = ShownAt(r, group, cell), NEW s, s = show(r, group, cell)
  PROVE  /\ Writes(r, s, shown) /\ s.displayed = [r.displayed EXCEPT ![id] = shown]
         /\ s.absorbed = r.absorbed \cup earlierIDs(group)
         /\ ~WasOver(r, group) /\ Ended(s.snap, shown) => id \in Range(s.log)
         /\ WasOver(r, group) => Ended(s.snap, shown)
         /\ Ended(r.snap, cell) => Ended(s.snap, shown)
<1>1. PICK p : p = Placed(r, group, cell) OBVIOUS
<1>2. /\ DOMAIN p = Parts /\ p.displayed = [r.displayed EXCEPT ![id] = shown]
      /\ p.snap = MemoryOf(r, group, cell) /\ p.history = r.history
      /\ p.historyNext = r.historyNext /\ p.log = r.log
  BY <1>1 DEF Placed, Parts
<1>3. p.absorbed = r.absorbed \cup earlierIDs(group) BY <1>1 DEF Placed, Parts
<1>4. WasOf(r, group) \in Cell \cup {NoCell} /\ shown \in Cell BY PlaceTaken
<1>5. /\ SnapType(p.snap) /\ \A y \in Cell : y # shown => p.snap[y] = r.snap[y]
      /\ Ended(r.snap, shown) => Ended(p.snap, shown)
      /\ Ended(r.snap, cell) => Ended(p.snap, shown)
      /\ WasOver(r, group) => Ended(p.snap, shown)
  <2>1. PICK m : m = MemoryOf(r, group, cell) OBVIOUS
  <2>2. SnapType(r.snap) BY DEF Good
  <2>3. /\ SnapType(m) /\ \A y \in Cell : y # shown => m[y] = r.snap[y]
        /\ Ended(r.snap, shown) => Ended(m, shown)
        /\ Ended(r.snap, cell) => Ended(m, shown)
        /\ WasOver(r, group) => Ended(m, shown)
    BY <1>4, <2>1, <2>2, PlacedWrites
  <2>4. QED BY <1>2, <2>1, <2>3
<1>6. p.log \in Seq(ID) /\ Ring(p.history, p.historyNext, p.log) BY <1>2 DEF Good, Logged
<1>7. PICK wasEnded \in BOOLEAN : wasEnded = WasOver(r, group) BY DEF WasOver
<1>8. s = endIf(p, id, shown, wasEnded) BY <1>1, <1>7, ShowPlaces
<1>9. /\ Writes(p, s, shown) /\ s.displayed = p.displayed /\ s.absorbed = p.absorbed
      /\ ~wasEnded /\ Ended(s.snap, shown) => id \in Range(s.log)
  BY <1>2, <1>4, <1>5, <1>6, <1>8, EndIfWrites
<1>10. Writes(r, s, shown) BY <1>2, <1>5, <1>9 DEF Writes
<1>11. Ended(p.snap, shown) => Ended(s.snap, shown) BY <1>9 DEF Writes
<1>12. QED BY <1>2, <1>3, <1>5, <1>7, <1>9, <1>10, <1>11

LEMMA DepartWrites ==
  ASSUME Ids(View), NEW r, DOMAIN r = Parts, NEW used, Good(r, used),
         NEW id \in ID, NEW x \in Cell, x = displayed[id], NEW s, s = depart(r, id)
  PROVE  /\ Writes(r, s, x) /\ s.displayed = r.displayed /\ s.absorbed = r.absorbed
         /\ Ended(r.snap, x) => s.snap = r.snap
         /\ ~Ended(r.snap, x) => id \in Range(s.log)
<1>1. PICK counted : counted = [r EXCEPT !.expired = @ + active[id]] OBVIOUS
<1>2. /\ DOMAIN counted = Parts
      /\ counted.displayed = r.displayed /\ counted.snap = r.snap /\ counted.history = r.history
      /\ counted.historyNext = r.historyNext /\ counted.log = r.log /\ counted.absorbed = r.absorbed
  BY <1>1 DEF Parts
<1>3. /\ SnapType(counted.snap) /\ counted.log \in Seq(ID)
      /\ Ring(counted.history, counted.historyNext, counted.log)
  BY <1>2 DEF Good, Logged
<1>4. CASE Ended(r.snap, x)
  <2>1. s = counted BY <1>1, <1>4 DEF depart, Ended
  <2>2. Len(counted.history) \in Nat BY <1>3 DEF Ring
  <2>3. QED BY <1>2, <1>4, <2>1, <2>2 DEF Writes
<1>5. CASE ~Ended(r.snap, x)
  <2>1. PICK e : e = endReason(r.snap[x]) /\ e # "ongoing" BY EndReasonIsEnd
  <2>2. s = remember(Ending(counted, x, e), id, x) BY <1>1, <1>5, <2>1 DEF depart, Ended, Ending
  <2>3. /\ Writes(counted, s, x) /\ id \in Range(s.log)
        /\ s.displayed = counted.displayed /\ s.absorbed = counted.absorbed
    BY <1>2, <1>3, <2>1, <2>2, EndWrites
  <2>4. Writes(r, s, x) BY <1>2, <2>3 DEF Writes
  <2>5. QED BY <1>2, <1>5, <2>3, <2>4
<1>6. QED BY <1>4, <1>5

(***************************************************************************)
(* Who shows what, while updateAt builds its view r.  A connection whose     *)
(* snapshot is final was recorded, also one that has lost its place.  Two     *)
(* show one snapshot only if that is final.  The history stays as it was.     *)
(* The first n groups have taken their places.                             *)
(***************************************************************************)
Listed(r) ==
  \A i \in ID :
    /\ r.displayed[i] # NoCell /\ Ended(r.snap, r.displayed[i]) => i \in Range(r.log)
    /\ r.displayed[i] = NoCell /\ displayed[i] # NoCell /\ Ended(r.snap, displayed[i]) =>
         i \in Range(r.log)
Single(r) ==
  \A i, j \in ID : i # j /\ r.displayed[i] = r.displayed[j] /\ r.displayed[i] # NoCell =>
    Ended(r.snap, r.displayed[i])
Past(r) ==
  /\ Len(history) <= Len(r.history) /\ HistoryFinal(r.history, r.snap)
  /\ \A e \in Range(history) : r.snap[e.cell] = snap[e.cell]
Placing(r, c, groups, n) ==
  /\ \A k \in 1..n : firstID(groups[k]) # 0 => r.displayed[firstID(groups[k])] # NoCell
  /\ \A i \in ID : r.displayed[i] # NoCell =>
       r.displayed[i] = displayed[i] \/ \E k \in 1..n : r.displayed[i] = c.cells[k]
  /\ \A k \in (n + 1)..Len(groups) :
       /\ firstID(groups[k]) # 0 /\ displayed[firstID(groups[k])] = c.cells[k]
       /\ r.displayed[firstID(groups[k])] # NoCell
       => Ended(r.snap, c.cells[k])
  /\ \A x \in Cell : Ended(c.snap, x) => Ended(r.snap, x)
  /\ \A i \in r.absorbed : \E k \in 1..n : i \in earlierIDs(groups[k])

LEMMA NobodyElse ==
  ASSUME Single(View), NEW r, NEW used, Good(r, used), NEW i \in ID, NEW y \in Cell, displayed[i] = y,
         ~Ended(r.snap, y), NEW j \in ID, j # i
  PROVE  displayed[j] # y
<1> SUFFICES ASSUME displayed[j] = y PROVE FALSE OBVIOUS
<1>1. displayed[i] # NoCell BY CellsAreNumbers
<1>2. View.displayed = displayed /\ View.snap = snap BY DEF View
<1>3. Ended(snap, displayed[i]) BY <1>1, <1>2 DEF Single
<1>4. r.snap[displayed[i]].End = snap[displayed[i]].End BY <1>1, <1>3 DEF Good, EndsKept
<1>5. QED BY <1>3, <1>4 DEF Ended

LEMMA NobodysPlace ==
  ASSUME Ids(View), Single(View), NEW groups \in Seq(Seq(Live)), NEW n \in Nat, n <= Len(groups),
         NEW c, Chosen(c, groups, Len(groups)),
         NEW r, NEW used, Good(r, used), Placing(r, c, groups, n), NEW i \in ID, NEW y \in Cell,
         displayed[i] = y, ~Ended(r.snap, y), r.displayed[i] = NoCell, NEW j \in ID
  PROVE  r.displayed[j] # y
<1> SUFFICES ASSUME r.displayed[j] = y PROVE FALSE OBVIOUS
<1>1. y # NoCell BY CellsAreNumbers
<1>2. i # j BY <1>1
<1>3. displayed[j] # y BY <1>2, NobodyElse
<1>4. PICK k \in 1..n : c.cells[k] = y BY <1>1, <1>3 DEF Placing
<1>5. PICK f : f = firstID(groups[k]) OBVIOUS
<1>6. k \in 1..Len(groups) /\ groups[k] \in Seq(Live) OBVIOUS
<1>7. f # 0 /\ displayed[f] = y BY <1>4, <1>5, <1>6 DEF Chosen
<1>8. f \in ID BY <1>5, <1>6, <1>7, FirstIDs
<1>9. f = i BY <1>7, <1>8, NobodyElse
<1>10. r.displayed[f] # NoCell BY <1>5, <1>7 DEF Placing
<1>11. QED BY <1>9, <1>10

LEMMA Alone ==
  ASSUME Ids(View), Single(View), NEW groups \in Seq(Seq(Live)), NEW n \in Nat, n + 1 \in 1..Len(groups),
         NEW c, Collected(c, Len(groups)), Chosen(c, groups, Len(groups)),
         NEW r, DOMAIN r = Parts, NEW used, Good(r, used), Placing(r, c, groups, n),
         NEW group \in Seq(Live), group = groups[n + 1], NEW cell \in Cell, cell = c.cells[n + 1],
         NEW id, id = IdOf(r, group), id \in ID, NEW shown, shown = ShownAt(r, group, cell),
         ~Ended(r.snap, shown), NEW j \in ID \ {id}
  PROVE  r.displayed[j] # shown /\ displayed[j] # shown
<1>1. /\ r.displayed[id] = NoCell /\ WasOf(r, group) = displayed[id] /\ shown \in Cell
      /\ ~NewHere(r, group) => displayed[id] # NoCell
      /\ NewHere(r, group) => displayed[id] = NoCell
  BY PlaceTaken
<1>2. shown # NoCell BY <1>1, CellsAreNumbers
<1>3. CASE ~NewHere(r, group) /\ ~WasOver(r, group)
  <2>1. shown = displayed[id] BY <1>1, <1>3 DEF ShownAt
  <2>2. displayed[j] # shown BY <1>1, <2>1, NobodyElse
  <2>3. n <= Len(groups) OBVIOUS
  <2>4. r.displayed[j] # shown BY <1>1, <2>1, <2>3, NobodysPlace
  <2>5. QED BY <2>2, <2>4
<1>4. CASE NewHere(r, group) \/ WasOver(r, group)
  <2>1. shown = cell BY <1>1, <1>4 DEF ShownAt
  <2>2. PICK f : f = firstID(group) OBVIOUS
  <2>3. ASSUME displayed[j] = cell PROVE FALSE
    <3>1. f # 0 /\ displayed[f] = cell BY <2>2, <2>3 DEF Chosen
    <3>2. f \in ID BY <2>2, <3>1, FirstIDs
    <3>3. CASE NewHere(r, group)
      <4>1. r.displayed[f] # NoCell BY <2>2, <3>1, <3>3 DEF NewHere
      <4>2. n + 1 \in (n + 1)..Len(groups) OBVIOUS
      <4>3. Ended(r.snap, cell) BY <2>2, <3>1, <4>1, <4>2 DEF Placing
      <4>4. QED BY <2>1, <4>3
    <3>4. CASE ~NewHere(r, group) /\ WasOver(r, group)
      <4>1. id = f BY <2>2, <3>4 DEF IdOf
      <4>2. Ended(r.snap, displayed[f]) BY <1>1, <3>4, <4>1 DEF WasOver, Ended
      <4>3. QED BY <2>1, <3>1, <4>2
    <3>5. QED BY <1>4, <3>3, <3>4
  <2>4. ASSUME r.displayed[j] = cell PROVE FALSE
    <3>1. PICK k \in 1..n : r.displayed[j] = c.cells[k] BY <1>2, <2>1, <2>3, <2>4 DEF Placing
    <3>2. k \in 1..Len(groups) /\ k # n + 1 OBVIOUS
    <3>3. QED BY <2>4, <3>1, <3>2 DEF Collected
  <2>5. QED BY <2>1, <2>3, <2>4
<1>5. QED BY <1>3, <1>4

(***************************************************************************)
(* One more group takes its place.                                         *)
(***************************************************************************)
LEMMA GivenKeeps ==
  ASSUME NEW r, r.displayed \in [ID -> Cell \cup {NoCell}], displayed \in [ID -> Cell \cup {NoCell}],
         Listed(r), Single(r), NEW id \in ID, NEW x \in Cell, NEW s,
         Writes(r, s, x), \A i \in ID : s.displayed[i] = IF i = id THEN x ELSE r.displayed[i],
         \A j \in ID \ {id} : ~Ended(r.snap, x) => r.displayed[j] # x /\ displayed[j] # x,
         Ended(s.snap, x) => id \in Range(s.log)
  PROVE  Listed(s) /\ Single(s)
<1>1. x # NoCell /\ NoCell \notin Cell BY CellsAreNumbers
<1>2. \A i \in ID : s.displayed[i] = IF i = id THEN x ELSE r.displayed[i] OBVIOUS
<1>3. \A y \in Cell : /\ Ended(r.snap, y) => Ended(s.snap, y)
                      /\ y # x /\ Ended(s.snap, y) => Ended(r.snap, y)
  BY DEF Writes, Ended
<1>4. Range(r.log) \subseteq Range(s.log) BY DEF Writes
<1>5. ASSUME NEW i \in ID,
             \/ s.displayed[i] # NoCell /\ Ended(s.snap, s.displayed[i])
             \/ s.displayed[i] = NoCell /\ displayed[i] # NoCell /\ Ended(s.snap, displayed[i])
      PROVE  i \in Range(s.log)
  <2>1. CASE i = id BY <1>1, <1>2, <1>5, <2>1
  <2>2. CASE i # id
    <3>1. s.displayed[i] = r.displayed[i] BY <1>2, <2>2
    <3>2. \/ r.displayed[i] # NoCell /\ Ended(r.snap, r.displayed[i])
          \/ r.displayed[i] = NoCell /\ displayed[i] # NoCell /\ Ended(r.snap, displayed[i])
      <4>1. CASE Ended(r.snap, x) BY <1>3, <1>5, <3>1, <4>1
      <4>2. CASE ~Ended(r.snap, x)
        <5>1. r.displayed[i] # x /\ displayed[i] # x BY <2>2, <4>2
        <5>2. QED BY <1>3, <1>5, <3>1, <5>1
      <4>3. QED BY <4>1, <4>2
    <3>3. QED BY <1>4, <3>2 DEF Listed
  <2>3. QED BY <2>1, <2>2
<1>6. ASSUME NEW i \in ID, NEW j \in ID, i # j, s.displayed[i] = s.displayed[j], s.displayed[i] # NoCell
      PROVE  Ended(s.snap, s.displayed[i])
  <2>1. CASE i # id /\ j # id
    <3>1. s.displayed[i] = r.displayed[i] /\ s.displayed[j] = r.displayed[j] BY <1>2, <2>1
    <3>2. r.displayed[i] \in Cell /\ Ended(r.snap, r.displayed[i]) BY <1>6, <3>1 DEF Single
    <3>3. QED BY <1>3, <3>1, <3>2
  <2>2. CASE i = id \/ j = id
    <3>1. s.displayed[i] = x BY <1>2, <1>6, <2>2
    <3>2. PICK k \in ID \ {id} : r.displayed[k] = x BY <1>2, <1>6, <2>2, <3>1
    <3>3. Ended(r.snap, x) BY <3>2
    <3>4. QED BY <1>3, <3>1, <3>3
  <2>3. QED BY <2>1, <2>2
<1>7. QED BY <1>5, <1>6 DEF Listed, Single

LEMMA PastKept ==
  ASSUME HistoryFinal(history, snap), NEW r, Past(r), NEW s, NEW x \in Cell, Writes(r, s, x),
         Len(history) \in Nat, Len(r.history) \in Nat, Len(s.history) \in Nat,
         \A e \in Range(history) : e.cell # x \/ ~Ended(r.snap, x) \/ s.snap[x] = r.snap[x]
  PROVE  Past(s)
<1>1. \A y \in Cell : Ended(r.snap, y) => Ended(s.snap, y) BY DEF Writes, Ended
<1>2. HistoryFinal(s.history, s.snap)
  <2> SUFFICES ASSUME NEW e \in Range(s.history) PROVE e.cell \in Cell /\ Ended(s.snap, e.cell)
    BY DEF HistoryFinal
  <2>1. CASE e \in Range(r.history) BY <1>1, <2>1 DEF Past, HistoryFinal
  <2>2. CASE e.cell = x /\ Ended(s.snap, x) BY <2>2
  <2>3. QED BY <2>1, <2>2 DEF Writes
<1>3. ASSUME NEW e \in Range(history) PROVE s.snap[e.cell] = snap[e.cell]
  <2>1. r.snap[e.cell] = snap[e.cell] BY DEF Past
  <2>2. e.cell \in Cell /\ Ended(snap, e.cell) BY DEF HistoryFinal
  <2>3. Ended(r.snap, e.cell) BY <2>1, <2>2 DEF Ended
  <2>4. e.cell # x \/ s.snap[x] = r.snap[x] BY <2>3
  <2>5. s.snap[e.cell] = r.snap[e.cell] BY <2>2, <2>4 DEF Writes
  <2>6. QED BY <2>1, <2>5
<1>4. Len(history) <= Len(s.history) BY DEF Past, Writes
<1>5. QED BY <1>2, <1>3, <1>4 DEF Past

LEMMA SharedStep ==
  ASSUME Ids(View), Logged(View), Single(View), HistoryFinal(history, snap),
         NEW groups \in Seq(Seq(Live)), NEW n \in Nat, n + 1 \in 1..Len(groups),
         NEW c, Collected(c, Len(groups)), Chosen(c, groups, Len(groups)),
         NEW r, DOMAIN r = Parts, NEW used, Good(r, used),
         Listed(r), Single(r), Past(r), Placing(r, c, groups, n),
         NEW s, s = show(r, groups[n + 1], c.cells[n + 1]), s.nextID <= MaxId, NEW after, Good(s, after)
  PROVE  Listed(s) /\ Single(s) /\ Past(s) /\ Placing(s, c, groups, n + 1)
<1>1. PICK group \in Seq(Live) : group = groups[n + 1] OBVIOUS
<1>2. PICK cell \in Cell : cell = c.cells[n + 1] BY DEF Collected
<1>3. PICK id, shown : id = IdOf(r, group) /\ shown = ShownAt(r, group, cell) OBVIOUS
<1>4. id \in ID
  <2>1. PICK p : p = Placed(r, group, cell) OBVIOUS
  <2>2. DOMAIN p = Parts /\ p.nextID = IF NewHere(r, group) THEN id ELSE r.nextID
    BY <1>3, <2>1 DEF Placed, Parts
  <2>3. s.nextID = p.nextID BY <1>1, <1>2, <2>1, <2>2, ShowPlaces, EndIfKeeps
  <2>4. QED BY <1>3, <2>2, <2>3, IdGiven
<1>5. /\ Writes(r, s, shown) /\ s.displayed = [r.displayed EXCEPT ![id] = shown]
      /\ s.absorbed = r.absorbed \cup earlierIDs(group)
      /\ ~WasOver(r, group) /\ Ended(s.snap, shown) => id \in Range(s.log)
      /\ WasOver(r, group) => Ended(s.snap, shown)
      /\ Ended(r.snap, cell) => Ended(s.snap, shown)
  BY <1>1, <1>2, <1>3, <1>4, ShowWrites
<1>6. /\ r.displayed[id] = NoCell /\ WasOf(r, group) = displayed[id] /\ shown \in Cell
      /\ NewHere(r, group) => displayed[id] = NoCell
  BY <1>1, <1>3, <1>4, PlaceTaken
<1>7. \A j \in ID \ {id} : ~Ended(r.snap, shown) => r.displayed[j] # shown /\ displayed[j] # shown
  BY <1>1, <1>2, <1>3, <1>4, Alone
<1>8. r.displayed \in [ID -> Cell \cup {NoCell}] /\ displayed \in [ID -> Cell \cup {NoCell}]
  BY DEF Good, Ids, View
<1>12. \A i \in ID : s.displayed[i] = IF i = id THEN shown ELSE r.displayed[i] BY <1>5, <1>8
<1>9. Ended(s.snap, shown) => id \in Range(s.log)
  <2>1. CASE ~WasOver(r, group) BY <1>5, <2>1
  <2>2. CASE WasOver(r, group)
    <3>1. displayed[id] # NoCell /\ Ended(r.snap, displayed[id]) BY <1>6, <2>2 DEF WasOver, Ended
    <3>2. id \in Range(r.log) BY <1>4, <1>6, <3>1 DEF Listed
    <3>3. QED BY <1>5, <3>2 DEF Writes
  <2>3. QED BY <2>1, <2>2
<1>10. Listed(s) /\ Single(s)
  <2>1. Writes(r, s, shown) BY <1>5
  <2>2. shown \in Cell BY <1>6
  <2>3. QED BY <1>4, <1>7, <1>8, <1>9, <1>12, <2>1, <2>2, GivenKeeps
<1>11. Past(s)
  <2>1. ASSUME NEW e \in Range(history) PROVE e.cell # shown \/ ~Ended(r.snap, shown)
    <3>1. CASE shown = cell BY <1>2, <3>1 DEF Chosen
    <3>2. CASE shown # cell
      <4>1. shown = displayed[id] /\ ~WasOver(r, group) /\ displayed[id] # NoCell
        BY <1>3, <1>6, <3>2 DEF ShownAt
      <4>2. QED BY <1>6, <4>1 DEF WasOver, Ended
    <3>3. QED BY <3>1, <3>2
  <2>2. /\ history \in Seq([id : ID, cell : Cell]) /\ r.history \in Seq([id : ID, cell : Cell])
        /\ s.history \in Seq([id : ID, cell : Cell])
    BY DEF Logged, View, Good, Ring
  <2>3. Len(history) \in Nat /\ Len(r.history) \in Nat /\ Len(s.history) \in Nat BY <2>2
  <2>4. QED BY <1>5, <1>6, <2>1, <2>3, PastKept
<1>13. shown # NoCell BY <1>6, CellsAreNumbers
<1>14. \A y \in Cell : Ended(r.snap, y) => Ended(s.snap, y) BY <1>5 DEF Writes, Ended
<1>15. \A k \in 1..(n + 1) : k \in 1..n \/ k = n + 1 OBVIOUS
<1>16. \A k \in 1..Len(groups) : firstID(groups[k]) # 0 =>
         firstID(groups[k]) \in ID /\ displayed[firstID(groups[k])] \in Cell
  <2>1. \A k \in 1..Len(groups) : groups[k] \in Seq(Live) OBVIOUS
  <2>2. QED BY <2>1, FirstIDs
<1>17. ASSUME NEW k \in 1..(n + 1), firstID(groups[k]) # 0 PROVE s.displayed[firstID(groups[k])] # NoCell
  <2>0. k \in 1..Len(groups) OBVIOUS
  <2>1. PICK f \in ID : f = firstID(groups[k]) BY <1>16, <1>17, <2>0
  <2>2. CASE k \in 1..n BY <1>12, <1>13, <1>17, <2>1, <2>2 DEF Placing
  <2>3. CASE k = n + 1
    <3>1. CASE NewHere(r, group) BY <1>1, <1>12, <1>13, <1>17, <2>1, <2>3, <3>1 DEF NewHere
    <3>2. CASE ~NewHere(r, group) BY <1>1, <1>3, <1>12, <1>13, <2>1, <2>3, <3>2 DEF IdOf
    <3>3. QED BY <3>1, <3>2
  <2>4. QED BY <1>15, <2>2, <2>3
<1>18. ASSUME NEW i \in ID, s.displayed[i] # NoCell
       PROVE  s.displayed[i] = displayed[i] \/ \E k \in 1..(n + 1) : s.displayed[i] = c.cells[k]
  <2>1. CASE i = id
    <3>1. shown = cell \/ shown = displayed[id] BY <1>3, <1>6 DEF ShownAt
    <3>2. n + 1 \in 1..(n + 1) OBVIOUS
    <3>3. QED BY <1>2, <1>12, <2>1, <3>1, <3>2
  <2>2. CASE i # id
    <3>1. s.displayed[i] = r.displayed[i] BY <1>12, <2>2
    <3>2. r.displayed[i] = displayed[i] \/ \E k \in 1..n : r.displayed[i] = c.cells[k]
      BY <1>18, <3>1 DEF Placing
    <3>3. \A k \in 1..n : k \in 1..(n + 1) OBVIOUS
    <3>4. QED BY <3>1, <3>2, <3>3
  <2>3. QED BY <2>1, <2>2
<1>19. ASSUME NEW k \in (n + 2)..Len(groups), NEW f \in ID, f = firstID(groups[k]), f # 0,
              displayed[f] = c.cells[k], s.displayed[f] # NoCell
       PROVE  Ended(s.snap, c.cells[k])
  <2>0. k \in 1..Len(groups) /\ k # n + 1 /\ k \in (n + 1)..Len(groups) OBVIOUS
  <2>1. displayed[f] \in Cell /\ displayed[f] # NoCell BY <1>16, <1>19, <2>0, CellsAreNumbers
  <2>2. CASE f # id
    <3>1. r.displayed[f] # NoCell BY <1>12, <1>19, <2>2
    <3>2. Ended(r.snap, c.cells[k]) BY <1>19, <2>0, <3>1 DEF Placing
    <3>3. QED BY <1>14, <1>19, <2>1, <3>2
  <2>3. CASE f = id
    <3>1. ~NewHere(r, group) BY <1>6, <2>1, <2>3
    <3>2. firstID(groups[n + 1]) = f BY <1>1, <1>3, <2>3, <3>1 DEF IdOf
    <3>3. CASE WasOver(r, group)
      <4>1. Ended(r.snap, displayed[f]) BY <1>6, <2>3, <3>3 DEF WasOver, Ended
      <4>2. QED BY <1>14, <1>19, <2>1, <4>1
    <3>4. CASE ~WasOver(r, group)
      <4>1. shown = displayed[f] BY <1>3, <1>6, <2>1, <2>3, <3>4 DEF ShownAt
      <4>2. ~Ended(snap, displayed[f]) BY <1>19, <2>0 DEF Collected
      <4>3. ASSUME NEW j \in 1..(n + 1) PROVE c.cells[j] # displayed[f]
        <5>1. j \in 1..Len(groups) /\ j # k OBVIOUS
        <5>2. QED BY <1>19, <2>0, <5>1 DEF Collected
      <4>4. Ended(c.snap, cell) BY <1>2, <1>19, <3>2, <4>2, <4>3 DEF Chosen
      <4>5. Ended(s.snap, shown) BY <1>5, <4>4 DEF Placing
      <4>6. QED BY <1>19, <4>1, <4>5
    <3>5. QED BY <3>3, <3>4
  <2>4. QED BY <2>2, <2>3
<1>20. ASSUME NEW k \in (n + 2)..Len(groups), firstID(groups[k]) # 0,
              displayed[firstID(groups[k])] = c.cells[k], s.displayed[firstID(groups[k])] # NoCell
       PROVE  Ended(s.snap, c.cells[k])
  <2>1. k \in 1..Len(groups) OBVIOUS
  <2>2. firstID(groups[k]) \in ID BY <1>16, <1>20, <2>1
  <2>3. QED BY <1>19, <1>20, <2>2
<1>21. \A x \in Cell : Ended(c.snap, x) => Ended(s.snap, x) BY <1>14 DEF Placing
<1>22. ASSUME NEW i \in s.absorbed PROVE \E k \in 1..(n + 1) : i \in earlierIDs(groups[k])
  <2>1. CASE i \in r.absorbed
    <3>1. PICK k \in 1..n : i \in earlierIDs(groups[k]) BY <2>1 DEF Placing
    <3>2. k \in 1..(n + 1) OBVIOUS
    <3>3. QED BY <3>1, <3>2
  <2>2. CASE i \in earlierIDs(group)
    <3>1. n + 1 \in 1..(n + 1) OBVIOUS
    <3>2. QED BY <1>1, <2>2, <3>1
  <2>3. QED BY <1>5, <2>1, <2>2
<1>23. n + 1 + 1 = n + 2 OBVIOUS
<1>24. Placing(s, c, groups, n + 1) BY <1>17, <1>18, <1>20, <1>21, <1>22, <1>23 DEF Placing
<1>25. QED BY <1>10, <1>11, <1>24

LEMMA NothingPlaced ==
  ASSUME Ids(View), Logged(View), Listed(View), HistoryFinal(history, snap),
         NEW groups \in Seq(Seq(Live)), NEW c, Collected(c, Len(groups)), Chosen(c, groups, Len(groups)),
         NEW r, r = NothingShown(c)
  PROVE  Listed(r) /\ Single(r) /\ Past(r) /\ Placing(r, c, groups, 0)
<1>1. /\ r.displayed = [i \in ID |-> NoCell] /\ r.snap = c.snap /\ r.history = history /\ r.log = log
      /\ r.absorbed = {}
  BY DEF NothingShown
<1>2. \A i \in ID : displayed[i] # NoCell => c.snap[displayed[i]].End = snap[displayed[i]].End
  BY DEF Collected
<1>3. Listed(r)
  <2> SUFFICES ASSUME NEW i \in ID, displayed[i] # NoCell, Ended(r.snap, displayed[i])
               PROVE  i \in Range(r.log)
    BY <1>1 DEF Listed
  <2>1. Ended(snap, displayed[i]) BY <1>1, <1>2 DEF Ended
  <2>2. QED BY <1>1, <2>1 DEF Listed, View
<1>4. Single(r) BY <1>1 DEF Single
<1>5. Past(r)
  <2>1. history \in Seq([id : ID, cell : Cell]) BY DEF Logged, Ring, View
  <2>2. Len(history) \in Nat BY <2>1
  <2>3. \A e \in Range(history) : c.snap[e.cell] = snap[e.cell] BY DEF Chosen
  <2>4. HistoryFinal(history, c.snap) BY <2>3 DEF HistoryFinal, Ended
  <2>5. QED BY <1>1, <2>2, <2>3, <2>4 DEF Past
<1>6. Placing(r, c, groups, 0)
  <2>1. \A k \in 1..Len(groups) : groups[k] \in Seq(Live) OBVIOUS
  <2>2. \A k \in 1..Len(groups) : firstID(groups[k]) # 0 => firstID(groups[k]) \in ID BY <2>1, FirstIDs
  <2>3. \A k \in (0 + 1)..Len(groups) : firstID(groups[k]) # 0 => r.displayed[firstID(groups[k])] = NoCell
    BY <1>1, <2>2
  <2>4. \A k \in 1..0 : FALSE OBVIOUS
  <2>5. \A i \in ID : r.displayed[i] = NoCell BY <1>1
  <2>6. (\A i \in r.absorbed : FALSE) /\ \A x \in Cell : Ended(c.snap, x) => Ended(r.snap, x) BY <1>1
  <2>7. QED BY <2>3, <2>4, <2>5, <2>6 DEF Placing
<1>7. QED BY <1>3, <1>4, <1>5, <1>6

(***************************************************************************)
(* The whole of updateAt: all groups, then all ids that are over.          *)
(***************************************************************************)
SharedInv == Listed(View) /\ Single(View) /\ HistoryFinal(history, snap)

LEMMA AllShared ==
  ASSUME ViewInv, SharedInv, NEW groups \in Seq(Seq(Live)), Apart(groups),
         NEW c, c = collect(groups), Spare(c), NEW v, v = update(groups), v.nextID <= MaxId
  PROVE  Listed(v) /\ Single(v) /\ Past(v) /\ Placing(v, c, groups, Len(groups))
<1>1. PICK N \in Nat : N = Len(groups) OBVIOUS
<1>2. /\ Ids(View) /\ SnapType(snap) /\ Logged(View) /\ Final(View)
      /\ Listed(View) /\ Single(View) /\ HistoryFinal(history, snap)
  BY DEF ViewInv, SharedInv
<1>3. Collected(c, Len(groups)) BY <1>2, AllCollected
<1>4. Chosen(c, groups, Len(groups)) BY <1>2, AllChosen
<1>5. PICK f :
        /\ f[0] = NothingShown(c) /\ v = f[N]
        /\ \A n \in 1..N : f[n] = show(f[n - 1], groups[n], c.cells[n]) /\ f[n - 1].nextID <= f[n].nextID
        /\ \A n \in 0..N :
             /\ DOMAIN f[n] = Parts /\ f[n].nextID \in Nat
             /\ f[n].nextID <= MaxId => Good(f[n], UsedBy(c, n))
  <2>1. PICK f : Showing(c, groups, v, f) BY <1>2, ShownInTurn
  <2>2. QED BY <1>1, <2>1 DEF Showing
<1> DEFINE shared(n) == Listed(f[n]) /\ Single(f[n]) /\ Past(f[n]) /\ Placing(f[n], c, groups, n)
           P == {n \in 0..N : f[n].nextID <= MaxId => shared(n)}
<1>6. 0 \in P BY <1>2, <1>3, <1>4, <1>5, NothingPlaced
<1>7. ASSUME NEW n \in 0..N, n < N, n \in P PROVE n + 1 \in P
  <2>1. n + 1 \in 1..N /\ n + 1 \in 0..N /\ n \in Nat /\ n + 1 - 1 = n BY <1>7
  <2>2. f[n + 1] = show(f[n], groups[n + 1], c.cells[n + 1]) /\ f[n].nextID <= f[n + 1].nextID
    BY <1>5, <2>1
  <2>3. ASSUME f[n + 1].nextID <= MaxId PROVE shared(n + 1)
    <3>1. f[n].nextID <= MaxId
      <4>1. MaxId \in Nat BY HostViewAssumption DEF HostViewAssumption
      <4>2. f[n].nextID \in Nat /\ f[n + 1].nextID \in Nat BY <1>5, <2>1
      <4>3. QED BY <2>2, <2>3, <4>1, <4>2
    <3>2. shared(n) BY <1>7, <3>1
    <3>3. DOMAIN f[n] = Parts /\ Good(f[n], UsedBy(c, n)) /\ Good(f[n + 1], UsedBy(c, n + 1))
      BY <1>5, <2>1, <2>3, <3>1
    <3>4. n + 1 \in 1..Len(groups) BY <1>1, <2>1
    <3>5. QED BY <1>2, <1>3, <1>4, <2>1, <2>2, <2>3, <3>2, <3>3, <3>4, SharedStep
  <2>4. QED BY <2>1, <2>3
<1>8. 0..N \subseteq P
  <2> HIDE DEF P
  <2>1. QED BY <1>6, <1>7, IntervalInduction
<1>9. N \in 0..N OBVIOUS
<1>10. QED BY <1>1, <1>5, <1>8, <1>9

LEMMA SharedDepart ==
  ASSUME Ids(View), Logged(View), Single(View), HistoryFinal(history, snap),
         NEW groups \in Seq(Seq(Live)), NEW c, Chosen(c, groups, Len(groups)),
         NEW r, DOMAIN r = Parts, NEW used, Good(r, used),
         Listed(r), Single(r), Past(r), Placing(r, c, groups, Len(groups)),
         NEW id \in ID, displayed[id] # NoCell, r.displayed[id] = NoCell,
         NEW s, s = depart(r, id), Good(s, used)
  PROVE  /\ Listed(s) /\ Single(s) /\ Past(s) /\ Placing(s, c, groups, Len(groups))
         /\ id \in Range(s.log) /\ Range(r.log) \subseteq Range(s.log)
<1>1. PICK x \in Cell : x = displayed[id] BY DEF Ids, View
<1>2. /\ Writes(r, s, x) /\ s.displayed = r.displayed /\ s.absorbed = r.absorbed
      /\ Ended(r.snap, x) => s.snap = r.snap
      /\ ~Ended(r.snap, x) => id \in Range(s.log)
  BY <1>1, DepartWrites
<1>3. Range(r.log) \subseteq Range(s.log) BY <1>2 DEF Writes
<1>4. id \in Range(s.log)
  <2>1. CASE Ended(r.snap, x) BY <1>1, <1>3, <2>1 DEF Listed
  <2>2. CASE ~Ended(r.snap, x) BY <1>2, <2>2
  <2>3. QED BY <2>1, <2>2
<1>5. PICK n \in Nat : n = Len(groups) OBVIOUS
<1>6. ASSUME ~Ended(r.snap, x), NEW j \in ID PROVE r.displayed[j] # x
  <2>1. n <= Len(groups) /\ Placing(r, c, groups, n) BY <1>5
  <2>2. displayed[id] = x BY <1>1
  <2>3. QED BY <1>6, <2>1, <2>2, NobodysPlace
<1>7. ASSUME ~Ended(r.snap, x), NEW j \in ID, j # id PROVE displayed[j] # x
  <2>1. displayed[id] = x BY <1>1
  <2>2. QED BY <1>7, <2>1, NobodyElse
<1>8. \A y \in Cell : /\ Ended(r.snap, y) => Ended(s.snap, y)
                      /\ y # x /\ Ended(s.snap, y) => Ended(r.snap, y)
  BY <1>2 DEF Writes, Ended
<1>9. r.displayed \in [ID -> Cell \cup {NoCell}] /\ displayed \in [ID -> Cell \cup {NoCell}]
  BY DEF Good, Ids, View
<1>10. Listed(s)
  <2>1. ASSUME NEW i \in ID, r.displayed[i] # NoCell, Ended(s.snap, r.displayed[i])
        PROVE  i \in Range(s.log)
    <3>1. r.displayed[i] \in Cell BY <1>9, <2>1
    <3>2. Ended(r.snap, r.displayed[i])
      <4>1. CASE r.displayed[i] = x BY <1>6, <4>1
      <4>2. CASE r.displayed[i] # x BY <1>8, <2>1, <3>1, <4>2
      <4>3. QED BY <4>1, <4>2
    <3>3. QED BY <1>3, <2>1, <3>2 DEF Listed
  <2>2. ASSUME NEW i \in ID, r.displayed[i] = NoCell, displayed[i] # NoCell, Ended(s.snap, displayed[i])
        PROVE  i \in Range(s.log)
    <3>1. CASE i = id BY <1>4, <3>1
    <3>2. CASE i # id
      <4>1. displayed[i] \in Cell BY <1>9, <2>2
      <4>2. Ended(r.snap, displayed[i])
        <5>1. CASE displayed[i] = x BY <1>7, <3>2, <5>1
        <5>2. CASE displayed[i] # x BY <1>8, <2>2, <4>1, <5>2
        <5>3. QED BY <5>1, <5>2
      <4>3. QED BY <1>3, <2>2, <4>2 DEF Listed
    <3>3. QED BY <3>1, <3>2
  <2>3. QED BY <1>2, <2>1, <2>2 DEF Listed
<1>11. Single(s)
  <2>1. ASSUME NEW i \in ID, NEW j \in ID, i # j, r.displayed[i] = r.displayed[j],
               r.displayed[i] # NoCell
        PROVE  Ended(s.snap, r.displayed[i])
    <3>1. r.displayed[i] \in Cell /\ Ended(r.snap, r.displayed[i]) BY <1>9, <2>1 DEF Single
    <3>2. QED BY <1>8, <3>1
  <2>2. QED BY <1>2, <2>1 DEF Single
<1>12. Past(s)
  <2>1. \A e \in Range(history) : e.cell \in Cell /\ Ended(snap, e.cell) /\ r.snap[e.cell] = snap[e.cell]
    BY DEF Past, HistoryFinal
  <2>2. ASSUME NEW e \in Range(history) PROVE s.snap[e.cell] = snap[e.cell]
    <3>1. Ended(r.snap, e.cell) BY <2>1 DEF Ended
    <3>2. CASE e.cell = x BY <1>2, <2>1, <3>1, <3>2
    <3>3. CASE e.cell # x BY <1>2, <2>1, <3>3 DEF Writes
    <3>4. QED BY <3>2, <3>3
  <2>3. HistoryFinal(s.history, s.snap)
    <3>1. ASSUME NEW e \in Range(s.history) PROVE e.cell \in Cell /\ Ended(s.snap, e.cell)
      <4>1. CASE e \in Range(r.history) BY <1>8, <4>1 DEF Past, HistoryFinal
      <4>2. CASE e.cell = x /\ Ended(s.snap, x) BY <4>2
      <4>3. QED BY <1>2, <4>1, <4>2 DEF Writes
    <3>2. QED BY <3>1 DEF HistoryFinal
  <2>4. Len(history) <= Len(s.history)
    <3>1. /\ history \in Seq([id : ID, cell : Cell]) /\ r.history \in Seq([id : ID, cell : Cell])
          /\ s.history \in Seq([id : ID, cell : Cell])
      BY DEF Logged, View, Good, Ring
    <3>2. Len(history) \in Nat /\ Len(r.history) \in Nat /\ Len(s.history) \in Nat BY <3>1
    <3>3. Len(history) <= Len(r.history) /\ Len(r.history) <= Len(s.history) BY <1>2 DEF Past, Writes
    <3>4. QED BY <3>2, <3>3
  <2>5. QED BY <2>2, <2>3, <2>4 DEF Past
<1>13. Placing(s, c, groups, Len(groups))
  <2>1. \A y \in Cell : Ended(c.snap, y) => Ended(s.snap, y) BY <1>8 DEF Placing
  <2>2. \A k \in (Len(groups) + 1)..Len(groups) : FALSE BY <1>5
  <2>3. QED BY <1>2, <2>1, <2>2 DEF Placing
<1>14. QED BY <1>3, <1>4, <1>10, <1>11, <1>12, <1>13

LEMMA AllLeave ==
  ASSUME NEW v, NEW order \in SetToSeqs(gone(v)), NEW i \in gone(v)
  PROVE  \E m \in 1..Len(order) : order[m] = i
<1>1. PICK S : S = gone(v) OBVIOUS
<1>2. IsFiniteSet(S)
  <2>1. S \subseteq 1..MaxId BY <1>1 DEF gone, ID
  <2>2. MaxId \in Nat BY HostViewAssumption DEF HostViewAssumption
  <2>3. IsFiniteSet(1..MaxId) BY <2>2, FS_Interval
  <2>4. QED BY <2>1, <2>3, FS_Subset
<1>3. PICK n \in Nat : n = Cardinality(S) BY <1>2, FS_CardinalityType
<1>4. order \in [1..n -> S] /\ \A k, m \in 1..n : k # m => order[k] # order[m]
  BY <1>1, <1>3 DEF SetToSeqs
<1>5. order \in Injection(1..n, S) BY <1>4 DEF Injection, IsInjective
<1>6. Cardinality(1..n) = n
  <2>1. 1 \in Int /\ n \in Int OBVIOUS
  <2>2. Cardinality(1..n) = IF 1 > n THEN 0 ELSE n - 1 + 1 BY <2>1, FS_Interval
  <2>3. QED BY <2>2
<1>7. order \in Surjection(1..n, S) BY <1>2, <1>3, <1>5, <1>6, FS_Injection
<1>8. PICK m \in 1..n : order[m] = i BY <1>1, <1>7 DEF Surjection
<1>9. Len(order) = n BY <1>4
<1>10. QED BY <1>8, <1>9

LEMMA SharedDeparted ==
  ASSUME ViewInv, SharedInv, NEW groups \in Seq(Seq(Live)), NEW c, Chosen(c, groups, Len(groups)),
         NEW v, DOMAIN v = Parts, NEW used, v.nextID <= MaxId => Good(v, used),
         Listed(v), Single(v), Past(v), Placing(v, c, groups, Len(groups)),
         NEW order \in SetToSeqs(gone(v)), NEW r, r = departAll(v, order), r.nextID <= MaxId
  PROVE  Listed(r) /\ Single(r) /\ Past(r) /\ \A i \in gone(v) : i \in Range(r.log)
<1>1. PICK N \in Nat : N = Len(order) /\ \A n \in 1..N : order[n] \in gone(v) BY LeavingInOrder
<1>2. /\ Ids(View) /\ Logged(View) /\ Single(View) /\ HistoryFinal(history, snap)
  BY DEF ViewInv, SharedInv
<1>3. PICK f :
        /\ f[0] = v /\ r = f[N]
        /\ \A n \in 1..N : f[n] = depart(f[n - 1], order[n])
        /\ \A n \in 0..N : DOMAIN f[n] = Parts /\ Good(f[n], used) /\ f[n].displayed = v.displayed
  <2>1. PICK f : Departing(v, order, r, used, f) BY <1>2, DepartedInTurn
  <2>2. QED BY <1>1, <2>1 DEF Departing
<1> DEFINE shared(n) == Listed(f[n]) /\ Single(f[n]) /\ Past(f[n]) /\ Placing(f[n], c, groups, Len(groups))
           P == {n \in 0..N : shared(n) /\ \A m \in 1..n : order[m] \in Range(f[n].log)}
<1>4. 0 \in P BY <1>3
<1>5. ASSUME NEW n \in 0..N, n < N, n \in P PROVE n + 1 \in P
  <2>1. n + 1 \in 1..N /\ n + 1 \in 0..N /\ n + 1 - 1 = n BY <1>5
  <2>2. PICK id \in ID : id = order[n + 1] /\ displayed[id] # NoCell /\ v.displayed[id] = NoCell
    BY <1>1, <2>1 DEF gone
  <2>3. f[n + 1] = depart(f[n], id) BY <1>3, <2>1, <2>2
  <2>4. /\ DOMAIN f[n] = Parts /\ Good(f[n], used) /\ Good(f[n + 1], used)
        /\ f[n].displayed[id] = NoCell
    BY <1>3, <2>1, <2>2
  <2>5. shared(n) BY <1>5
  <2>6. /\ shared(n + 1) /\ id \in Range(f[n + 1].log) /\ Range(f[n].log) \subseteq Range(f[n + 1].log)
    <3>1. PICK q, s : q = f[n] /\ s = f[n + 1] OBVIOUS
    <3>2. /\ DOMAIN q = Parts /\ Good(q, used) /\ Good(s, used) /\ q.displayed[id] = NoCell
          /\ Listed(q) /\ Single(q) /\ Past(q) /\ Placing(q, c, groups, Len(groups))
          /\ s = depart(q, id)
      BY <2>3, <2>4, <2>5, <3>1
    <3>3. displayed[id] # NoCell BY <2>2
    <3>4. /\ Listed(s) /\ Single(s) /\ Past(s) /\ Placing(s, c, groups, Len(groups))
          /\ id \in Range(s.log) /\ Range(q.log) \subseteq Range(s.log)
      BY <1>2, <3>2, <3>3, SharedDepart
    <3>5. QED BY <3>1, <3>4
  <2>7. ASSUME NEW m \in 1..(n + 1) PROVE order[m] \in Range(f[n + 1].log)
    <3>1. m = n + 1 \/ m \in 1..n OBVIOUS
    <3>2. m \in 1..n => order[m] \in Range(f[n].log) BY <1>5
    <3>3. QED BY <2>2, <2>6, <3>1, <3>2
  <2> HIDE DEF shared
  <2>8. QED BY <2>1, <2>6, <2>7
<1>6. 0..N \subseteq P
  <2> HIDE DEF P
  <2>1. QED BY <1>4, <1>5, IntervalInduction
<1>7. N \in P BY <1>6
<1>8. \A i \in gone(v) : \E m \in 1..N : order[m] = i BY <1>1, AllLeave
<1>9. QED BY <1>3, <1>7, <1>8

(***************************************************************************)
(* What is final stays: the invariant, and what a refresh does to the       *)
(* connections that leave and to the history.                              *)
(***************************************************************************)
LEMMA RefreshShared ==
  ASSUME ViewInv, SharedInv, Refresh
  PROVE  \E r, used, groups :
           /\ Good(r, used) /\ groups \in Seq(Seq(Live)) /\ Numbered(r, groups, Len(groups))
           /\ Listed(r) /\ Single(r) /\ Past(r)
           /\ \A i \in ID : displayed[i] # NoCell /\ r.displayed[i] = NoCell =>
                i \in Range(r.log) \/ \E k \in 1..Len(groups) : i \in earlierIDs(groups[k])
           /\ flowIDs' = r.flowIDs /\ displayed' = r.displayed /\ log' = r.log /\ history' = r.history
           /\ \A i \in ID : r.displayed[i] # NoCell => snap'[r.displayed[i]] = r.snap[r.displayed[i]]
           /\ \A e \in Range(r.history) : snap'[e.cell] = r.snap[e.cell]
<1>1. PICK groups, v, order, r :
        /\ groups \in Groupings /\ v = update(groups) /\ order \in SetToSeqs(gone(v)) /\ r = departAll(v, order)
        /\ r.nextID <= MaxId /\ Spare(collect(groups))
        /\ flowIDs' = r.flowIDs /\ displayed' = r.displayed /\ log' = r.log /\ history' = r.history
        /\ snap' = [c \in Cell |->
                     IF c \in Range(r.displayed) \cup {e.cell : e \in Range(r.history)}
                     THEN r.snap[c] ELSE Blank]
  BY DEF Refresh, Spare
<1>2. groups \in Seq(Seq(Live)) /\ Apart(groups) BY <1>1, GroupingsApart
<1>3. PICK c, used : c = collect(groups) /\ used = Range(c.cells) OBVIOUS
<1>4. DOMAIN v = Parts /\ (v.nextID <= MaxId => Good(v, used) /\ Numbered(v, groups, Len(groups)))
  BY <1>1, <1>2, <1>3, AllShown DEF ViewInv
<1>5. v.nextID <= MaxId /\ Good(r, used) /\ r.displayed = v.displayed /\ r.flowIDs = v.flowIDs
  BY <1>1, <1>4, AllDeparted DEF ViewInv
<1>6. Numbered(r, groups, Len(groups)) BY <1>4, <1>5 DEF Numbered
<1>7. Chosen(c, groups, Len(groups))
  <2>1. Spare(collect(groups)) BY <1>1
  <2>2. QED BY <1>2, <1>3, <2>1, AllChosen DEF ViewInv, SharedInv
<1>8. Listed(v) /\ Single(v) /\ Past(v) /\ Placing(v, c, groups, Len(groups))
  <2>1. Spare(c) BY <1>1, <1>3
  <2>2. QED BY <1>1, <1>2, <1>3, <1>5, <2>1, AllShared
<1>9. Listed(r) /\ Single(r) /\ Past(r) /\ \A i \in gone(v) : i \in Range(r.log)
  <2>1. v.nextID <= MaxId => Good(v, used) BY <1>4
  <2>2. QED BY <1>1, <1>2, <1>4, <1>7, <1>8, <2>1, SharedDeparted
<1>10. ASSUME NEW i \in ID, displayed[i] # NoCell, r.displayed[i] = NoCell
       PROVE  i \in Range(r.log) \/ \E k \in 1..Len(groups) : i \in earlierIDs(groups[k])
  <2>1. CASE i \in v.absorbed BY <1>8, <2>1 DEF Placing
  <2>2. CASE i \notin v.absorbed BY <1>5, <1>9, <1>10, <2>2 DEF gone
  <2>3. QED BY <2>1, <2>2
<1>11. ASSUME NEW i \in ID, r.displayed[i] # NoCell
       PROVE  snap'[r.displayed[i]] = r.snap[r.displayed[i]]
  <2>1. r.displayed \in [ID -> Cell \cup {NoCell}] BY <1>5 DEF Good, Ids
  <2>2. r.displayed[i] \in Cell /\ r.displayed[i] \in Range(r.displayed) BY <1>11, <2>1 DEF Range
  <2>3. QED BY <1>1, <2>2
<1>12. ASSUME NEW e \in Range(r.history) PROVE snap'[e.cell] = r.snap[e.cell]
  <2>1. e.cell \in Cell BY <1>9 DEF Past, HistoryFinal
  <2>2. e.cell \in {d.cell : d \in Range(r.history)} OBVIOUS
  <2>3. QED BY <1>1, <2>1, <2>2
<1>13. flowIDs' = r.flowIDs /\ displayed' = r.displayed /\ log' = r.log /\ history' = r.history
  BY <1>1
<1>14. Good(r, used) /\ groups \in Seq(Seq(Live)) /\ Listed(r) /\ Single(r) /\ Past(r)
  BY <1>2, <1>5, <1>9
<1>15. QED BY <1>6, <1>10, <1>11, <1>12, <1>13, <1>14

LEMMA SharedInvInit == Init => SharedInv
<1> SUFFICES ASSUME Init PROVE SharedInv OBVIOUS
<1>1. \A i \in ID : displayed[i] = NoCell BY DEF Init
<1>2. Range(history) = {} BY DEF Init, Range
<1>3. QED BY <1>1, <1>2, ViewIsVariables DEF SharedInv, Listed, Single, HistoryFinal

LEMMA SharedInvNext == ViewInv /\ SharedInv /\ [Next]_vars => SharedInv'
<1> SUFFICES ASSUME ViewInv, SharedInv, [Next]_vars PROVE SharedInv' OBVIOUS
<1>1. CASE UNCHANGED state
  BY <1>1 DEF state, SharedInv, View, Listed, Single, HistoryFinal, Ended
<1>2. CASE Refresh
  <2>1. PICK r, used :
          /\ Good(r, used) /\ Listed(r) /\ Single(r) /\ Past(r)
          /\ displayed' = r.displayed /\ log' = r.log /\ history' = r.history
          /\ \A i \in ID : r.displayed[i] # NoCell => snap'[r.displayed[i]] = r.snap[r.displayed[i]]
          /\ \A e \in Range(r.history) : snap'[e.cell] = r.snap[e.cell]
    BY <1>2, RefreshShared
  <2>2. View'.displayed = r.displayed /\ View'.snap = snap' /\ View'.log = r.log BY <2>1 DEF View
  <2>3. Listed(View)'
    <3>1. ASSUME NEW i \in ID, r.displayed[i] # NoCell, snap'[r.displayed[i]].End # "ongoing"
          PROVE  i \in Range(r.log)
      BY <2>1, <3>1 DEF Listed, Ended
    <3>2. QED BY <2>1, <2>2, <3>1 DEF Listed, Ended
  <2>4. Single(View)'
    <3>1. ASSUME NEW i \in ID, NEW j \in ID, i # j, r.displayed[i] = r.displayed[j],
                 r.displayed[i] # NoCell
          PROVE  snap'[r.displayed[i]].End # "ongoing"
      BY <2>1, <3>1 DEF Single, Ended
    <3>2. QED BY <2>2, <3>1 DEF Single, Ended
  <2>5. HistoryFinal(history, snap)'
    <3>1. ASSUME NEW e \in Range(r.history) PROVE e.cell \in Cell /\ snap'[e.cell].End # "ongoing"
      BY <2>1 DEF Past, HistoryFinal, Ended
    <3>2. QED BY <2>1, <3>1 DEF HistoryFinal, Ended
  <2>6. QED BY <2>3, <2>4, <2>5 DEF SharedInv
<1>3. Refresh \/ UNCHANGED state
  BY DEF Next, Appear, Packet, ConnectFails, LinkNAT, Vanish, vars
<1>4. QED BY <1>1, <1>2, <1>3

LEMMA LeavingStep ==
  ASSUME ViewInv, SharedInv, Refresh, NEW i \in ID, displayed[i] # NoCell, displayed'[i] = NoCell
  PROVE  i \in Range(log') \/ \E o \in Live : flowIDs[o] = i /\ flowIDs'[o] \notin {0, i}
<1>1. PICK r, used, groups :
        /\ Good(r, used) /\ groups \in Seq(Seq(Live)) /\ Numbered(r, groups, Len(groups))
        /\ \A j \in ID : displayed[j] # NoCell /\ r.displayed[j] = NoCell =>
             j \in Range(r.log) \/ \E k \in 1..Len(groups) : j \in earlierIDs(groups[k])
        /\ flowIDs' = r.flowIDs /\ displayed' = r.displayed /\ log' = r.log
  BY RefreshShared
<1>2. SUFFICES ASSUME i \notin Range(log')
               PROVE  \E o \in Live : flowIDs[o] = i /\ flowIDs'[o] \notin {0, i}
  OBVIOUS
<1>3. PICK n \in Nat : n = Len(groups) BY <1>1
<1>4. PICK k \in 1..n : i \in earlierIDs(groups[k]) BY <1>1, <1>2, <1>3
<1>5. PICK group \in Seq(Live) : group = groups[k] BY <1>1, <1>3
<1>6. PICK o \in Range(group) : flowIDs[o] = i /\ i # 0 BY <1>4, <1>5 DEF earlierIDs
<1>7. o \in Live /\ o \in Obs BY LiveObs DEF Range
<1>8. PICK a : a = firstID(group) /\ a # 0 BY <1>6, FirstIDOf
<1>9. PICK id : /\ \A p \in Range(group) : r.flowIDs[p] = id
                /\ a = 0 \/ id = a \/ (id > nextID /\ r.displayed[a] # NoCell)
  BY <1>1, <1>3, <1>5, <1>8 DEF Numbered
<1>10. r.flowIDs[o] = id BY <1>9
<1>11. id # 0
  <2>1. nextID \in Nat BY DEF ViewInv, Ids, View
  <2>2. QED BY <1>8, <1>9, <2>1
<1>12. r.displayed[id] # NoCell BY <1>1, <1>7, <1>10, <1>11 DEF Good, Ids
<1>13. id # i BY <1>1, <1>12
<1>14. QED BY <1>1, <1>6, <1>7, <1>10, <1>11, <1>13

LEMMA ImmutableStep ==
  ASSUME ViewInv, SharedInv, Refresh, NEW i \in DOMAIN history, history'[i] = history[i]
  PROVE  snap'[history[i].cell] = snap[history[i].cell]
<1>1. PICK r, used :
        /\ Good(r, used) /\ Past(r) /\ history' = r.history
        /\ \A e \in Range(r.history) : snap'[e.cell] = r.snap[e.cell]
  BY RefreshShared
<1>2. history \in Seq([id : ID, cell : Cell]) /\ r.history \in Seq([id : ID, cell : Cell])
  BY <1>1 DEF ViewInv, Logged, View, Good, Ring
<1>3. Len(history) <= Len(r.history) BY <1>1 DEF Past
<1>4. i \in DOMAIN r.history BY <1>2, <1>3
<1>5. PICK e : e = history[i] /\ e \in Range(history) /\ e \in Range(r.history)
  <2>1. history[i] \in Range(history) BY DEF Range
  <2>2. r.history[i] \in Range(r.history) BY <1>4 DEF Range
  <2>3. QED BY <1>1, <2>1, <2>2
<1>6. snap'[e.cell] = r.snap[e.cell] /\ r.snap[e.cell] = snap[e.cell] BY <1>1, <1>5 DEF Past
<1>7. QED BY <1>5, <1>6

(* No connection vanishes from the view without its final snapshot, unless *)
(* its observations now count for another, and what the history points to  *)
(* is never merged into again: for any number of observations, interfaces,  *)
(* connections and snapshots and any size of the ring.                     *)
THEOREM Finality == Spec => NoneVanishes
<1>1. ViewInv /\ SharedInv /\ [Next]_vars =>
        [/\ \A i \in ID :
              displayed[i] # NoCell /\ displayed'[i] = NoCell =>
                \/ i \in Range(log')
                \/ \E o \in Live : flowIDs[o] = i /\ flowIDs'[o] \notin {0, i}
         /\ \A i \in DOMAIN history :
              history'[i] = history[i] => snap'[history[i].cell] = snap[history[i].cell]]_vars
  <2> SUFFICES ASSUME ViewInv, SharedInv, [Next]_vars
               PROVE  /\ \A i \in ID :
                           displayed[i] # NoCell /\ displayed'[i] = NoCell =>
                             \/ i \in Range(log')
                             \/ \E o \in Live : flowIDs[o] = i /\ flowIDs'[o] \notin {0, i}
                      /\ \A i \in DOMAIN history :
                           history'[i] = history[i] => snap'[history[i].cell] = snap[history[i].cell]
    OBVIOUS
  <2>1. CASE UNCHANGED state BY <2>1 DEF state
  <2>2. CASE Refresh BY <2>2, LeavingStep, ImmutableStep
  <2>3. Refresh \/ UNCHANGED state
    BY DEF Next, Appear, Packet, ConnectFails, LinkNAT, Vanish, vars
  <2>4. QED BY <2>1, <2>2, <2>3
<1>2. Spec => []SharedInv
  <2>1. ViewInv /\ SharedInv /\ [Next]_vars => SharedInv' BY SharedInvNext
  <2>2. QED BY SharedInvInit, ViewHolds, <2>1, PTL DEF Spec
<1>3. QED BY ViewHolds, <1>1, <1>2, PTL DEF Spec, NoneVanishes
=============================================================================
