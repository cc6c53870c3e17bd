--------------------------------- MODULE Sums ---------------------------------
(***************************************************************************)
(* Facts about finite sets.  Sums over them (SumFunctionOnSet of the          *)
(* community modules), for the totals that the properties compare: bytes of  *)
(* flows, of processes and of what waits; the fold chooses the element it    *)
(* takes next, the sum does not depend on it.  Numbers put in order.  And     *)
(* folds over positions, the last one last.                                  *)
(***************************************************************************)
EXTENDS Integers, FiniteSets, Functions, FiniteSetTheorems, WellFoundedInduction, TLAPS

(* Induction over the subsets of a finite set, by the least that fails. *)
LEMMA SubsetInduction ==
  ASSUME NEW S, IsFiniteSet(S), NEW P,
         ASSUME NEW U \in SUBSET S, \A V \in SUBSET U : V # U => V \in P
         PROVE  U \in P
  PROVE  SUBSET S \subseteq P
<1> DEFINE Fails == {U \in SUBSET S : U \notin P}
<1>1. SUFFICES ASSUME Fails # {} PROVE FALSE OBVIOUS
<1>2. Fails \subseteq FiniteSubsetsOf(S) BY FS_Subset DEF FiniteSubsetsOf
<1>3. IsWellFoundedOn(StrictSubsetOrdering(S), FiniteSubsetsOf(S))
  BY FS_StrictSubsetOrderingWellFounded
<1>4. PICK U \in Fails : \A V \in Fails : ~(<<V, U>> \in StrictSubsetOrdering(S))
  <2> HIDE DEF Fails
  <2>1. QED BY <1>1, <1>2, <1>3, WFMin
<1>5. ASSUME NEW V \in SUBSET U, V # U PROVE V \in P
  <2>1. CASE V \in Fails
    <3>1. <<V, U>> \in StrictSubsetOrdering(S) BY <1>5 DEF StrictSubsetOrdering
    <3>2. QED BY <1>4, <2>1, <3>1
  <2>2. CASE V \notin Fails BY <1>5, <2>2
  <2>3. QED BY <2>1, <2>2
<1>6. U \in P BY <1>5
<1>7. QED BY <1>6

(***************************************************************************)
(* The function that the fold defines exists and is unique.                *)
(***************************************************************************)
Taken(s) == CHOOSE x \in s : TRUE
Unfolds(f, S, g) ==
  g = [s \in SUBSET S |-> IF s = {} THEN 0 ELSE f[Taken(s)] + g[s \ {Taken(s)}]]
Folded(f, S) == CHOOSE g : Unfolds(f, S, g)

LEMMA SumIsFolded == ASSUME NEW f, NEW S PROVE SumFunctionOnSet(f, S) = Folded(f, S)[S]
  BY DEF SumFunctionOnSet, FoldFunctionOnSet, MapThenFoldSet, Taken, Unfolds, Folded

LEMMA TakenIn == ASSUME NEW s, s # {} PROVE Taken(s) \in s
  BY DEF Taken

LEMMA UnfoldsOnce ==
  ASSUME NEW f, NEW S, IsFiniteSet(S), NEW g, NEW h, Unfolds(f, S, g), Unfolds(f, S, h)
  PROVE  g = h
<1> DEFINE P == {s \in SUBSET S : g[s] = h[s]}
<1>1. ASSUME NEW U \in SUBSET S, \A V \in SUBSET U : V # U => V \in P PROVE U \in P
  <2>1. CASE U = {}
    <3>1. g[U] = 0 /\ h[U] = 0 BY <2>1 DEF Unfolds
    <3>2. QED BY <3>1
  <2>2. CASE U # {}
    <3>1. PICK x : x = Taken(U) OBVIOUS
    <3>2. x \in U BY <2>2, <3>1, TakenIn
    <3>3. g[U] = f[x] + g[U \ {x}] /\ h[U] = f[x] + h[U \ {x}] BY <2>2, <3>1 DEF Unfolds
    <3>4. U \ {x} \in P BY <1>1, <3>2
    <3>5. QED BY <3>3, <3>4
  <2>3. QED BY <2>1, <2>2
<1>2. SUBSET S \subseteq P
  <2> HIDE DEF P
  <2>1. QED BY <1>1, SubsetInduction
<1>3. \A s \in SUBSET S : g[s] = h[s] BY <1>2
<1>4. QED BY <1>3 DEF Unfolds

LEMMA UnfoldsWithin ==
  ASSUME NEW f, NEW S, NEW g, Unfolds(f, S, g), NEW s \in SUBSET S
  PROVE  Unfolds(f, s, [t \in SUBSET s |-> g[t]])
<1>1. PICK h : h = [t \in SUBSET s |-> g[t]] OBVIOUS
<1>2. ASSUME NEW t \in SUBSET s
      PROVE  h[t] = IF t = {} THEN 0 ELSE f[Taken(t)] + h[t \ {Taken(t)}]
  <2>1. g[t] = IF t = {} THEN 0 ELSE f[Taken(t)] + g[t \ {Taken(t)}] BY DEF Unfolds
  <2>2. t \ {Taken(t)} \in SUBSET s OBVIOUS
  <2>3. h[t] = g[t] /\ h[t \ {Taken(t)}] = g[t \ {Taken(t)}] BY <1>1, <2>2
  <2>4. QED BY <2>1, <2>3
<1>3. h = [t \in SUBSET s |-> IF t = {} THEN 0 ELSE f[Taken(t)] + h[t \ {Taken(t)}]]
  BY <1>1, <1>2
<1>4. QED BY <1>1, <1>3 DEF Unfolds

LEMMA UnfoldsExists ==
  ASSUME NEW f, NEW S, IsFiniteSet(S)
  PROVE  Unfolds(f, S, Folded(f, S))
<1> DEFINE P == {s \in SUBSET S : \E g : Unfolds(f, s, g)}
<1>1. ASSUME NEW U \in SUBSET S, \A V \in SUBSET U : V # U => V \in P PROVE U \in P
  <2> DEFINE v == [s \in SUBSET U |-> Folded(f, s)[s]]
             g == [s \in SUBSET U |-> IF s = {} THEN 0 ELSE f[Taken(s)] + v[s \ {Taken(s)}]]
  <2>1. ASSUME NEW s \in SUBSET U, s # U
        PROVE  v[s] = IF s = {} THEN 0 ELSE f[Taken(s)] + v[s \ {Taken(s)}]
    <3>1. \E h : Unfolds(f, s, h) BY <1>1, <2>1
    <3>2. Unfolds(f, s, Folded(f, s)) BY <3>1 DEF Folded
    <3>3. PICK h : h = Folded(f, s) OBVIOUS
    <3>4. h[s] = IF s = {} THEN 0 ELSE f[Taken(s)] + h[s \ {Taken(s)}] BY <3>2, <3>3 DEF Unfolds
    <3>5. CASE s = {} BY <3>3, <3>4, <3>5
    <3>6. CASE s # {}
      <4>1. PICK r \in SUBSET s : r = s \ {Taken(s)} OBVIOUS
      <4>2. r \in SUBSET U /\ r # U BY <2>1, <3>6, <4>1
      <4>3. \E i : Unfolds(f, r, i) BY <1>1, <4>2
      <4>4. Unfolds(f, r, Folded(f, r)) BY <4>3 DEF Folded
      <4>5. Unfolds(f, r, [t \in SUBSET r |-> h[t]]) BY <3>2, <3>3, UnfoldsWithin
      <4>6. IsFiniteSet(r) BY FS_Subset
      <4>7. Folded(f, r) = [t \in SUBSET r |-> h[t]] BY <4>4, <4>5, <4>6, UnfoldsOnce
      <4>8. v[r] = h[r] BY <4>2, <4>7
      <4>9. v[s] = h[s] BY <3>3
      <4>10. QED BY <3>4, <3>6, <4>1, <4>8, <4>9
    <3>7. QED BY <3>5, <3>6
  <2>2. ASSUME NEW s \in SUBSET U, s # {} PROVE g[s \ {Taken(s)}] = v[s \ {Taken(s)}]
    <3>1. PICK r \in SUBSET U : r = s \ {Taken(s)} OBVIOUS
    <3>2. r # U BY <2>2, <3>1, TakenIn
    <3>3. v[r] = IF r = {} THEN 0 ELSE f[Taken(r)] + v[r \ {Taken(r)}] BY <2>1, <3>2
    <3>4. QED BY <3>1, <3>3
  <2> HIDE DEF v
  <2>3. PICK h : h = g OBVIOUS
  <2>4. ASSUME NEW s \in SUBSET U
        PROVE  h[s] = IF s = {} THEN 0 ELSE f[Taken(s)] + h[s \ {Taken(s)}]
    <3>1. h[s] = IF s = {} THEN 0 ELSE f[Taken(s)] + v[s \ {Taken(s)}] BY <2>3
    <3>2. s # {} => h[s \ {Taken(s)}] = v[s \ {Taken(s)}] BY <2>2, <2>3
    <3>3. QED BY <3>1, <3>2
  <2>5. h = [s \in SUBSET U |-> IF s = {} THEN 0 ELSE f[Taken(s)] + h[s \ {Taken(s)}]]
    BY <2>3, <2>4
  <2>6. Unfolds(f, U, h) BY <2>5 DEF Unfolds
  <2>7. QED BY <2>6
<1>2. SUBSET S \subseteq P
  <2> HIDE DEF P
  <2>1. QED BY <1>1, SubsetInduction
<1>3. \E g : Unfolds(f, S, g) BY <1>2
<1>4. QED BY <1>3 DEF Folded

(***************************************************************************)
(* The sum: of nothing, with one element taken out, its type.              *)
(***************************************************************************)
LEMMA SumEmpty == ASSUME NEW f PROVE SumFunctionOnSet(f, {}) = 0
<1>1. IsFiniteSet({}) BY FS_EmptySet
<1>2. PICK g : g = Folded(f, {}) OBVIOUS
<1>3. Unfolds(f, {}, g) BY <1>1, <1>2, UnfoldsExists
<1>4. g[{}] = 0 BY <1>3 DEF Unfolds
<1>5. QED BY <1>2, <1>4, SumIsFolded

LEMMA SumTaken ==
  ASSUME NEW f, NEW S, IsFiniteSet(S), S # {}
  PROVE  SumFunctionOnSet(f, S) = f[Taken(S)] + SumFunctionOnSet(f, S \ {Taken(S)})
<1>1. PICK g : g = Folded(f, S) OBVIOUS
<1>2. PICK r \in SUBSET S : r = S \ {Taken(S)} OBVIOUS
<1>3. Unfolds(f, S, g) BY <1>1, UnfoldsExists
<1>4. g[S] = f[Taken(S)] + g[r] BY <1>2, <1>3 DEF Unfolds
<1>5. Unfolds(f, r, [t \in SUBSET r |-> g[t]]) BY <1>3, UnfoldsWithin
<1>6. IsFiniteSet(r) BY FS_Subset
<1>7. Unfolds(f, r, Folded(f, r)) BY <1>6, UnfoldsExists
<1>8. Folded(f, r) = [t \in SUBSET r |-> g[t]] BY <1>5, <1>6, <1>7, UnfoldsOnce
<1>9. Folded(f, r)[r] = g[r] BY <1>8
<1>10. QED BY <1>1, <1>2, <1>4, <1>9, SumIsFolded

LEMMA SumType ==
  ASSUME NEW f, NEW S, IsFiniteSet(S), \A x \in S : f[x] \in Nat
  PROVE  SumFunctionOnSet(f, S) \in Nat
<1> DEFINE P == {s \in SUBSET S : SumFunctionOnSet(f, s) \in Nat}
<1>1. ASSUME NEW U \in SUBSET S, \A V \in SUBSET U : V # U => V \in P PROVE U \in P
  <2>1. CASE U = {} BY <2>1, SumEmpty
  <2>2. CASE U # {}
    <3>1. PICK x \in U : x = Taken(U) BY <2>2, TakenIn
    <3>2. IsFiniteSet(U) BY FS_Subset
    <3>3. SumFunctionOnSet(f, U) = f[x] + SumFunctionOnSet(f, U \ {x}) BY <2>2, <3>1, <3>2, SumTaken
    <3>4. SumFunctionOnSet(f, U \ {x}) \in Nat BY <1>1
    <3>5. QED BY <3>3, <3>4
  <2>3. QED BY <2>1, <2>2
<1>2. SUBSET S \subseteq P
  <2> HIDE DEF P
  <2>1. QED BY <1>1, SubsetInduction
<1>3. QED BY <1>2

(* Any element may be taken out, not only the one the fold takes. *)
LEMMA SumWithout ==
  ASSUME NEW f, NEW S, IsFiniteSet(S), \A x \in S : f[x] \in Nat, NEW y \in S
  PROVE  SumFunctionOnSet(f, S) = f[y] + SumFunctionOnSet(f, S \ {y})
<1> DEFINE P == {s \in SUBSET S : \A x \in s :
                   SumFunctionOnSet(f, s) = f[x] + SumFunctionOnSet(f, s \ {x})}
<1>1. ASSUME NEW U \in SUBSET S, \A V \in SUBSET U : V # U => V \in P PROVE U \in P
  <2>1. ASSUME NEW x \in U PROVE SumFunctionOnSet(f, U) = f[x] + SumFunctionOnSet(f, U \ {x})
    <3>1. PICK t \in U : t = Taken(U) BY TakenIn
    <3>2. IsFiniteSet(U) BY FS_Subset
    <3>3. SumFunctionOnSet(f, U) = f[t] + SumFunctionOnSet(f, U \ {t}) BY <3>1, <3>2, SumTaken
    <3>4. CASE x = t BY <3>3, <3>4
    <3>5. CASE x # t
      <4>1. SumFunctionOnSet(f, U \ {t}) = f[x] + SumFunctionOnSet(f, (U \ {t}) \ {x}) BY <1>1, <3>5
      <4>2. SumFunctionOnSet(f, U \ {x}) = f[t] + SumFunctionOnSet(f, (U \ {x}) \ {t}) BY <1>1, <3>5
      <4>3. (U \ {t}) \ {x} = (U \ {x}) \ {t} OBVIOUS
      <4>4. IsFiniteSet((U \ {x}) \ {t}) BY <3>2, FS_Subset
      <4>5. SumFunctionOnSet(f, (U \ {x}) \ {t}) \in Nat BY <4>4, SumType
      <4>6. QED BY <3>3, <4>1, <4>2, <4>3, <4>5
    <3>6. QED BY <3>4, <3>5
  <2>2. QED BY <2>1
<1>2. SUBSET S \subseteq P
  <2> HIDE DEF P
  <2>1. QED BY <1>1, SubsetInduction
<1>3. QED BY <1>2

LEMMA SumSame ==
  ASSUME NEW f, NEW g, NEW S, IsFiniteSet(S), \A x \in S : f[x] = g[x]
  PROVE  SumFunctionOnSet(f, S) = SumFunctionOnSet(g, S)
<1> DEFINE P == {s \in SUBSET S : SumFunctionOnSet(f, s) = SumFunctionOnSet(g, s)}
<1>1. ASSUME NEW U \in SUBSET S, \A V \in SUBSET U : V # U => V \in P PROVE U \in P
  <2>1. CASE U = {} BY <2>1, SumEmpty
  <2>2. CASE U # {}
    <3>1. PICK x \in U : x = Taken(U) BY <2>2, TakenIn
    <3>2. IsFiniteSet(U) BY FS_Subset
    <3>3. /\ SumFunctionOnSet(f, U) = f[x] + SumFunctionOnSet(f, U \ {x})
          /\ SumFunctionOnSet(g, U) = g[x] + SumFunctionOnSet(g, U \ {x})
      BY <2>2, <3>1, <3>2, SumTaken
    <3>4. SumFunctionOnSet(f, U \ {x}) = SumFunctionOnSet(g, U \ {x}) BY <1>1
    <3>5. QED BY <3>3, <3>4
  <2>3. QED BY <2>1, <2>2
<1>2. SUBSET S \subseteq P
  <2> HIDE DEF P
  <2>1. QED BY <1>1, SubsetInduction
<1>3. QED BY <1>2

(* The sums over two parts of a set add up. *)
LEMMA SumSplit ==
  ASSUME NEW f, NEW S, IsFiniteSet(S), \A x \in S : f[x] \in Nat, NEW A \in SUBSET S
  PROVE  SumFunctionOnSet(f, S) = SumFunctionOnSet(f, A) + SumFunctionOnSet(f, S \ A)
<1> DEFINE P == {s \in SUBSET A : SumFunctionOnSet(f, S) =
                                  SumFunctionOnSet(f, s) + SumFunctionOnSet(f, S \ s)}
<1>1. IsFiniteSet(A) BY FS_Subset
<1>2. ASSUME NEW U \in SUBSET A, \A V \in SUBSET U : V # U => V \in P PROVE U \in P
  <2>1. CASE U = {}
    <3>1. S \ U = S BY <2>1
    <3>2. SumFunctionOnSet(f, S) \in Nat BY SumType
    <3>3. QED BY <2>1, <3>1, <3>2, SumEmpty
  <2>2. CASE U # {}
    <3>1. PICK x \in U : TRUE BY <2>2
    <3>2. PICK V \in SUBSET U : V = U \ {x} OBVIOUS
    <3>3. SumFunctionOnSet(f, S) = SumFunctionOnSet(f, V) + SumFunctionOnSet(f, S \ V) BY <1>2, <3>2
    <3>4. IsFiniteSet(U) /\ IsFiniteSet(V) /\ IsFiniteSet(S \ V) /\ IsFiniteSet(S \ U) BY FS_Subset
    <3>5. SumFunctionOnSet(f, U) = f[x] + SumFunctionOnSet(f, V) BY <3>2, <3>4, SumWithout
    <3>6. x \in S \ V /\ (S \ V) \ {x} = S \ U BY <3>2
    <3>7. \A y \in S \ V : f[y] \in Nat OBVIOUS
    <3>8. SumFunctionOnSet(f, S \ V) = f[x] + SumFunctionOnSet(f, (S \ V) \ {x})
      BY <3>4, <3>6, <3>7, SumWithout
    <3>9. SumFunctionOnSet(f, S \ V) = f[x] + SumFunctionOnSet(f, S \ U) BY <3>6, <3>8
    <3>10. SumFunctionOnSet(f, V) \in Nat BY <3>4, SumType
    <3>11. SumFunctionOnSet(f, S \ U) \in Nat BY <3>4, SumType
    <3>12. f[x] \in Nat OBVIOUS
    <3>13. QED BY <3>3, <3>5, <3>9, <3>10, <3>11, <3>12
  <2>3. QED BY <2>1, <2>2
<1>3. SUBSET A \subseteq P
  <2> HIDE DEF P
  <2>1. QED BY <1>1, <1>2, SubsetInduction
<1>4. QED BY <1>3

LEMMA SumZero ==
  ASSUME NEW f, NEW S, IsFiniteSet(S), \A x \in S : f[x] = 0
  PROVE  SumFunctionOnSet(f, S) = 0
<1> DEFINE P == {s \in SUBSET S : SumFunctionOnSet(f, s) = 0}
<1>1. ASSUME NEW U \in SUBSET S, \A V \in SUBSET U : V # U => V \in P PROVE U \in P
  <2>1. CASE U = {} BY <2>1, SumEmpty
  <2>2. CASE U # {}
    <3>1. PICK x \in U : x = Taken(U) BY <2>2, TakenIn
    <3>2. IsFiniteSet(U) BY FS_Subset
    <3>3. SumFunctionOnSet(f, U) = f[x] + SumFunctionOnSet(f, U \ {x}) BY <2>2, <3>1, <3>2, SumTaken
    <3>4. SumFunctionOnSet(f, U \ {x}) = 0 BY <1>1
    <3>5. QED BY <3>3, <3>4
  <2>3. QED BY <2>1, <2>2
<1>2. SUBSET S \subseteq P
  <2> HIDE DEF P
  <2>1. QED BY <1>1, SubsetInduction
<1>3. QED BY <1>2

(* One element changes.                                                     *)
LEMMA SumChange ==
  ASSUME NEW f, NEW g, NEW S, IsFiniteSet(S), \A x \in S : f[x] \in Nat /\ g[x] \in Nat,
         NEW y \in S, \A x \in S \ {y} : f[x] = g[x]
  PROVE  SumFunctionOnSet(f, S) + g[y] = SumFunctionOnSet(g, S) + f[y]
<1>1. IsFiniteSet(S \ {y}) BY FS_Subset
<1>2. SumFunctionOnSet(f, S) = f[y] + SumFunctionOnSet(f, S \ {y}) BY SumWithout
<1>3. SumFunctionOnSet(g, S) = g[y] + SumFunctionOnSet(g, S \ {y}) BY SumWithout
<1>4. SumFunctionOnSet(f, S \ {y}) = SumFunctionOnSet(g, S \ {y}) BY <1>1, SumSame
<1>5. SumFunctionOnSet(f, S \ {y}) \in Nat BY <1>1, SumType
<1>6. f[y] \in Nat /\ g[y] \in Nat OBVIOUS
<1>7. QED BY <1>2, <1>3, <1>4, <1>5, <1>6

(* A sum of sums.                                                           *)
LEMMA SumAdd ==
  ASSUME NEW f, NEW g, NEW h, NEW S, IsFiniteSet(S),
         \A x \in S : f[x] \in Nat /\ g[x] \in Nat /\ h[x] = f[x] + g[x]
  PROVE  SumFunctionOnSet(h, S) = SumFunctionOnSet(f, S) + SumFunctionOnSet(g, S)
<1> DEFINE P == {s \in SUBSET S :
                   SumFunctionOnSet(h, s) = SumFunctionOnSet(f, s) + SumFunctionOnSet(g, s)}
<1>1. ASSUME NEW U \in SUBSET S, \A V \in SUBSET U : V # U => V \in P PROVE U \in P
  <2>1. CASE U = {} BY <2>1, SumEmpty
  <2>2. CASE U # {}
    <3>1. PICK x \in U : x = Taken(U) BY <2>2, TakenIn
    <3>2. PICK V \in SUBSET U : V = U \ {x} OBVIOUS
    <3>3. IsFiniteSet(U) /\ IsFiniteSet(V) BY FS_Subset
    <3>4. /\ SumFunctionOnSet(h, U) = h[x] + SumFunctionOnSet(h, V)
          /\ SumFunctionOnSet(f, U) = f[x] + SumFunctionOnSet(f, V)
          /\ SumFunctionOnSet(g, U) = g[x] + SumFunctionOnSet(g, V)
      BY <2>2, <3>1, <3>2, <3>3, SumTaken
    <3>5. SumFunctionOnSet(h, V) = SumFunctionOnSet(f, V) + SumFunctionOnSet(g, V) BY <1>1, <3>2
    <3>6. SumFunctionOnSet(f, V) \in Nat BY <3>3, SumType
    <3>7. SumFunctionOnSet(g, V) \in Nat BY <3>3, SumType
    <3>8. f[x] \in Nat /\ g[x] \in Nat /\ h[x] = f[x] + g[x] OBVIOUS
    <3>9. SumFunctionOnSet(h, U) = SumFunctionOnSet(f, U) + SumFunctionOnSet(g, U)
      BY <3>4, <3>5, <3>6, <3>7, <3>8
    <3>10. QED BY <3>9
  <2>3. QED BY <2>1, <2>2
<1>2. SUBSET S \subseteq P
  <2> HIDE DEF P
  <2>1. QED BY <1>1, SubsetInduction
<1>3. QED BY <1>2

(* The sum over a set is that of its parts: those with one label each.       *)
LEMMA SumOfParts ==
  ASSUME NEW f, NEW S, IsFiniteSet(S), \A x \in S : f[x] \in Nat,
         NEW T, IsFiniteSet(T), NEW label, \A x \in S : label[x] \in T,
         NEW h, \A t \in T : h[t] = SumFunctionOnSet(f, {x \in S : label[x] = t})
  PROVE  SumFunctionOnSet(h, T) = SumFunctionOnSet(f, S)
<1> DEFINE With(A) == {x \in S : label[x] \in A}
           P == {A \in SUBSET T : SumFunctionOnSet(h, A) = SumFunctionOnSet(f, With(A))}
<1>1. ASSUME NEW U \in SUBSET T, \A V \in SUBSET U : V # U => V \in P PROVE U \in P
  <2>1. CASE U = {}
    <3>1. With(U) = {} BY <2>1
    <3>2. QED BY <2>1, <3>1, SumEmpty
  <2>2. CASE U # {}
    <3>1. PICK t \in U : t = Taken(U) BY <2>2, TakenIn
    <3>2. PICK V \in SUBSET U : V = U \ {t} OBVIOUS
    <3>3. IsFiniteSet(U) BY FS_Subset
    <3>4. SumFunctionOnSet(h, U) = h[t] + SumFunctionOnSet(h, V) BY <2>2, <3>1, <3>2, <3>3, SumTaken
    <3>5. SumFunctionOnSet(h, V) = SumFunctionOnSet(f, With(V)) BY <1>1, <3>2
    <3>6. PICK A : A = With(U) OBVIOUS
    <3>7. PICK B \in SUBSET A : B = {x \in S : label[x] = t} BY <3>6
    <3>8. A \ B = With(V) BY <3>2, <3>6, <3>7
    <3>9. A \in SUBSET S /\ IsFiniteSet(A) /\ \A x \in A : f[x] \in Nat BY <3>6, FS_Subset
    <3>10. IsFiniteSet(B) /\ IsFiniteSet(A \ B) BY <3>9, FS_Subset
    <3>11. SumFunctionOnSet(f, A) = SumFunctionOnSet(f, B) + SumFunctionOnSet(f, A \ B)
      BY <3>9, SumSplit
    <3>12. h[t] = SumFunctionOnSet(f, B) BY <3>7
    <3>13. SumFunctionOnSet(h, U) = SumFunctionOnSet(f, A) BY <3>4, <3>5, <3>8, <3>11, <3>12
    <3>14. QED BY <3>6, <3>13
  <2>3. QED BY <2>1, <2>2
<1>2. T \in P
  <2>1. SUBSET T \subseteq P
    <3> HIDE DEF P
    <3>1. QED BY <1>1, SubsetInduction
  <2>2. QED BY <2>1
<1>3. With(T) = S OBVIOUS
<1>4. QED BY <1>2, <1>3

(***************************************************************************)
(* Finite sets of numbers: the greatest, and all of them in order.          *)
(***************************************************************************)
LEMMA Greatest ==
  ASSUME NEW S \in SUBSET Int, IsFiniteSet(S), S # {}
  PROVE  \E m \in S : \A x \in S : x <= m
<1> DEFINE P == {s \in SUBSET S : s # {} => \E m \in s : \A x \in s : x <= m}
<1>1. ASSUME NEW U \in SUBSET S, \A V \in SUBSET U : V # U => V \in P PROVE U \in P
  <2>1. CASE U = {} BY <2>1
  <2>2. CASE U # {}
    <3>1. PICK x \in U : TRUE BY <2>2
    <3>2. PICK V \in SUBSET U : V = U \ {x} OBVIOUS
    <3>3. CASE V = {}
      <4>1. \A y \in U : y <= x BY <3>2, <3>3
      <4>2. QED BY <4>1
    <3>4. CASE V # {}
      <4>1. PICK m \in V : \A y \in V : y <= m BY <1>1, <3>2, <3>4
      <4>2. CASE x <= m
        <5>1. \A y \in U : y <= m BY <3>2, <4>1, <4>2
        <5>2. QED BY <5>1
      <4>3. CASE ~(x <= m)
        <5>1. \A y \in U : y <= x BY <3>2, <4>1, <4>3
        <5>2. QED BY <5>1
      <4>4. QED BY <4>2, <4>3
    <3>5. QED BY <3>3, <3>4
  <2>3. QED BY <2>1, <2>2
<1>2. SUBSET S \subseteq P
  <2> HIDE DEF P
  <2>1. QED BY <1>1, SubsetInduction
<1>3. QED BY <1>2

LEMMA Ascending ==
  ASSUME NEW S \in SUBSET Int, IsFiniteSet(S)
  PROVE  \E s \in [1..Cardinality(S) -> S] : \A i, j \in 1..Cardinality(S) : i < j => s[i] < s[j]
<1> DEFINE P == {T \in SUBSET S : \E s \in [1..Cardinality(T) -> T] :
                   \A i, j \in 1..Cardinality(T) : i < j => s[i] < s[j]}
<1>1. ASSUME NEW U \in SUBSET S, \A V \in SUBSET U : V # U => V \in P PROVE U \in P
  <2>1. IsFiniteSet(U) BY FS_Subset
  <2>2. CASE U = {}
    <3>1. Cardinality(U) = 0 BY <2>2, FS_EmptySet
    <3>2. PICK s : s = [i \in 1..Cardinality(U) |-> i] OBVIOUS
    <3>3. s \in [1..Cardinality(U) -> U] BY <3>1, <3>2
    <3>4. \A i, j \in 1..Cardinality(U) : i < j => s[i] < s[j] BY <3>1
    <3>5. QED BY <3>3, <3>4
  <2>3. CASE U # {}
    <3>1. PICK m \in U : \A x \in U : x <= m BY <2>1, <2>3, Greatest
    <3>2. PICK V \in SUBSET U : V = U \ {m} OBVIOUS
    <3>3. PICK n \in Nat : n = Cardinality(V) BY <2>1, FS_Subset, FS_CardinalityType
    <3>4. Cardinality(U) = n + 1
      <4>1. Cardinality(U \ {m}) = Cardinality(U) - 1 BY <2>1, FS_RemoveElement
      <4>2. Cardinality(U) \in Nat BY <2>1, FS_CardinalityType
      <4>3. QED BY <3>2, <3>3, <4>1, <4>2
    <3>5. PICK s \in [1..n -> V] : \A i, j \in 1..n : i < j => s[i] < s[j]
      <4>1. V # U BY <3>1, <3>2
      <4>2. V \in P BY <1>1, <4>1
      <4>3. QED BY <3>3, <4>2
    <3>6. PICK t : t = [i \in 1..(n + 1) |-> IF i <= n THEN s[i] ELSE m] OBVIOUS
    <3>7. \A i \in 1..(n + 1) : (i <= n => t[i] = s[i]) /\ (i = n + 1 => t[i] = m) BY <3>6
    <3>8. ASSUME NEW i \in 1..n PROVE s[i] \in U /\ s[i] < m
      <4>1. s[i] \in V BY <3>5
      <4>2. s[i] \in U /\ s[i] # m BY <3>2, <4>1
      <4>3. s[i] <= m /\ s[i] \in Int /\ m \in Int BY <3>1, <4>2
      <4>4. QED BY <4>2, <4>3
    <3>9. t \in [1..(n + 1) -> U]
      <4>1. \A i \in 1..(n + 1) : t[i] \in U
        <5>1. ASSUME NEW i \in 1..(n + 1) PROVE t[i] \in U
          <6>1. i \in 1..n \/ i = n + 1 OBVIOUS
          <6>2. QED BY <3>1, <3>7, <3>8, <6>1
        <5>2. QED BY <5>1
      <4>2. QED BY <3>6, <4>1
    <3>10. ASSUME NEW i \in 1..(n + 1), NEW j \in 1..(n + 1), i < j PROVE t[i] < t[j]
      <4>1. i \in 1..n /\ (j \in 1..n \/ j = n + 1) BY <3>10
      <4>2. QED BY <3>5, <3>7, <3>8, <3>10, <4>1
    <3>11. QED BY <3>4, <3>9, <3>10
  <2>4. QED BY <2>2, <2>3
<1>2. SUBSET S \subseteq P
  <2> HIDE DEF P
  <2>1. QED BY <1>1, SubsetInduction
<1>3. QED BY <1>2

(* A set of numbers has a least one; induction over them up to a bound.     *)
LEMMA Least ==
  ASSUME NEW S \in SUBSET Nat, S # {}
  PROVE  \E m \in S : \A x \in S : m <= x
<1>1. PICK R : R = OpToRel(<, Nat) OBVIOUS
<1>2. IsWellFoundedOn(R, Nat) BY <1>1, NatLessThanWellFounded
<1>3. PICK m \in S : \A x \in S : <<x, m>> \notin R BY <1>2, WFMin
<1>4. \A x \in S : ~(x < m) BY <1>1, <1>3 DEF OpToRel
<1>5. QED BY <1>4

LEMMA IntervalInduction ==
  ASSUME NEW N \in Nat, NEW P, 0 \in P,
         ASSUME NEW n \in 0..N, n < N, n \in P PROVE n + 1 \in P
  PROVE  0..N \subseteq P
<1> DEFINE Fails == {n \in 0..N : n \notin P}
<1>1. SUFFICES ASSUME Fails # {} PROVE FALSE OBVIOUS
<1>2. PICK m \in Fails : \A x \in Fails : m <= x
  <2>1. Fails \in SUBSET Nat OBVIOUS
  <2> HIDE DEF Fails
  <2>2. QED BY <1>1, <2>1, Least
<1>3. m # 0 /\ m - 1 \in 0..N /\ m - 1 < N OBVIOUS
<1>4. m - 1 \notin Fails BY <1>2, <1>3
<1>5. m - 1 \in P BY <1>3, <1>4
<1>6. m - 1 + 1 \in P BY <1>3, <1>5
<1>7. QED BY <1>6

(* A fold over positions, taken from the last one: the function that defines  *)
(* it exists, and the positions up to one are folded with it last.           *)
Topmost(s) == CHOOSE x \in s : \A y \in s : x >= y

LEMMA TopmostIs == ASSUME NEW n \in Int, NEW s \in SUBSET Int, n \in s, \A y \in s : n >= y PROVE Topmost(s) = n
<1>1. Topmost(s) \in s /\ \A y \in s : Topmost(s) >= y BY DEF Topmost
<1>2. PICK t : t = Topmost(s) OBVIOUS
<1>3. t \in Int /\ t >= n /\ n >= t BY <1>1, <1>2
<1>4. QED BY <1>2, <1>3

FoldsTo(g, n, base, step) ==
  \A s \in SUBSET (1..n) : g[s] = IF s = {} THEN base ELSE step[<<g[s \ {Topmost(s)}], Topmost(s)>>]

LEMMA FoldExists ==
  ASSUME NEW n \in Nat, NEW A, NEW base \in A, NEW step \in [A \X (1..n) -> A]
  PROVE  \E g \in [SUBSET (1..n) -> A] : FoldsTo(g, n, base, step)
<1> DEFINE Folds(g, k) ==
      g \in [SUBSET (1..k) -> A] /\ \A s \in SUBSET (1..k) :
           g[s] = IF s = {} THEN base ELSE step[<<g[s \ {Topmost(s)}], Topmost(s)>>]
           P == {k \in 0..n : \E g : Folds(g, k)}
<1>1. 0 \in P
  <2>1. PICK g : g = [s \in SUBSET (1..0) |-> base] OBVIOUS
  <2>2. Folds(g, 0) BY <2>1
  <2> HIDE DEF Folds
  <2>3. QED BY <2>2
<1>2. ASSUME NEW k \in 0..n, k < n, k \in P PROVE k + 1 \in P
  <2>1. PICK f : Folds(f, k) BY <1>2
  <2>2. PICK m : m = k + 1 OBVIOUS
  <2>3. m \in 1..n /\ m \notin 1..k /\ 1..m = (1..k) \cup {m} BY <1>2, <2>2
  <2>4. PICK g : g = [s \in SUBSET (1..m) |-> IF m \in s THEN step[<<f[s \ {m}], m>>] ELSE f[s]] OBVIOUS
  <2>5. ASSUME NEW s \in SUBSET (1..m) PROVE s \ {m} \in SUBSET (1..k) /\ (m \notin s => s \in SUBSET (1..k))
    BY <2>3
  <2>6. ASSUME NEW s \in SUBSET (1..k) PROVE g[s] = f[s]
    <3>1. s \in SUBSET (1..m) /\ m \notin s BY <2>3
    <3>2. QED BY <2>4, <3>1
  <2>7. ASSUME NEW s \in SUBSET (1..m) PROVE g[s] \in A
    <3>1. f[s \ {m}] \in A /\ (m \notin s => f[s] \in A) BY <2>1, <2>5
    <3>2. <<f[s \ {m}], m>> \in A \X (1..n) BY <2>3, <3>1
    <3>3. step[<<f[s \ {m}], m>>] \in A BY <3>2
    <3>4. QED BY <2>4, <3>1, <3>3
  <2>8. ASSUME NEW s \in SUBSET (1..m)
        PROVE  g[s] = IF s = {} THEN base ELSE step[<<g[s \ {Topmost(s)}], Topmost(s)>>]
    <3>1. CASE m \in s
      <4>1. Topmost(s) = m
        <5>1. m \in Int /\ s \in SUBSET Int /\ \A y \in s : m >= y BY <2>3
        <5>2. QED BY <3>1, <5>1, TopmostIs
      <4>2. g[s \ {m}] = f[s \ {m}] BY <2>5, <2>6
      <4>3. g[s] = step[<<f[s \ {m}], m>>] BY <2>4, <3>1
      <4>4. QED BY <3>1, <4>1, <4>2, <4>3
    <3>2. CASE m \notin s
      <4>1. s \in SUBSET (1..k) /\ s \ {Topmost(s)} \in SUBSET (1..k) BY <2>5, <3>2
      <4>2. g[s] = f[s] /\ g[s \ {Topmost(s)}] = f[s \ {Topmost(s)}] BY <2>6, <4>1
      <4>3. f[s] = IF s = {} THEN base ELSE step[<<f[s \ {Topmost(s)}], Topmost(s)>>] BY <2>1, <4>1
      <4>4. QED BY <4>2, <4>3
    <3>3. QED BY <3>1, <3>2
  <2>9. Folds(g, m)
    <3>1. g \in [SUBSET (1..m) -> A] BY <2>4, <2>7
    <3>2. QED BY <2>8, <3>1
  <2> HIDE DEF Folds
  <2>10. QED BY <2>2, <2>3, <2>9
<1>3. n \in P
  <2> HIDE DEF P
  <2>1. 0..n \subseteq P BY <1>1, <1>2, IntervalInduction
  <2>2. QED BY <2>1
<1>4. QED BY <1>3 DEF FoldsTo
===============================================================================
