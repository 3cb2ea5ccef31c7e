------------------------------- MODULE Folding -------------------------------
(***************************************************************************)
(* Facts about FoldLeft and FoldSet for the proofs about the folds of the  *)
(* models: the module of a fold instantiates this one with its step for    *)
(* op.                                                                     *)
(*                                                                         *)
(* The theorems of induction of the library have a predicate as parameter; *)
(* IntervalInduction has a set in its place, and rests on every set of     *)
(* naturals having a least element.                                        *)
(***************************************************************************)
EXTENDS Integers, Sequences, FiniteSetsExt, FiniteSetTheorems, WellFoundedInduction, TLAPS

CONSTANT op(_, _, _)  \* the step of the fold: a parameter, the state, an element

(* FoldLeft of SequencesExt, by its definition: each module that             *)
(* instantiates this one would have a copy of all of SequencesExt.           *)
Fold(p, base, s) ==
    MapThenFoldSet(LAMBDA x, y : op(p, y, x), base, LAMBDA i : s[i], LAMBDA t : Max(t), DOMAIN s)

(* A set that has 0, and i + 1 for each of its i below n, has 0 .. n.        *)
LEMMA IntervalInduction ==
    \A n \in Nat : \A P :
        0 \in P /\ (\A i \in 0 .. n - 1 : i \in P => i + 1 \in P)
            => \A i \in 0 .. n : i \in P
<1> SUFFICES ASSUME NEW n \in Nat, NEW P,
                    0 \in P, \A i \in 0 .. n - 1 : i \in P => i + 1 \in P
             PROVE  \A i \in 0 .. n : i \in P
  OBVIOUS
<1> DEFINE R == OpToRel(<, Nat)
           T == {i \in Nat : i <= n /\ i \notin P}
<1>1. SUFFICES ASSUME T # {} PROVE FALSE
  OBVIOUS
<1>2. T \subseteq Nat
  OBVIOUS
<1>3. PICK x \in T : \A y \in T : ~ (<<y, x>> \in R)
  <2> HIDE DEF R, T
  <2> QED BY <1>1, <1>2, WFMin, NatLessThanWellFounded DEF R
<1>4. x \in Nat /\ x # 0 /\ x <= n /\ x \notin P
  OBVIOUS
<1>5. x - 1 \in Nat /\ <<x - 1, x>> \in R
  BY <1>4 DEF OpToRel
<1>6. x - 1 \in P
  <2>1. ASSUME x - 1 \notin P PROVE FALSE
    <3>1. x - 1 <= n
      BY <1>4
    <3>2. x - 1 \in T
      BY <1>5, <2>1, <3>1
    <3> HIDE DEF R, T
    <3> QED BY <1>3, <1>5, <3>2
  <2> QED BY <2>1
<1>7. x - 1 \in 0 .. n - 1 /\ (x - 1) + 1 = x
  BY <1>4
<1> HIDE DEF R, T
<1> QED BY <1>4, <1>6, <1>7

(* A set of numbers from an interval has a maximum.                          *)
LEMMA MaxOfInterval ==
    ASSUME NEW n \in Nat
    PROVE  \A t \in SUBSET (1 .. n) : t # {} => /\ Max(t) \in t
                                                /\ \A i \in t : i <= Max(t)
<1> DEFINE P == {k \in Nat : \A t \in SUBSET (1 .. k) :
                                t # {} => \E m \in t : \A i \in t : m >= i}
<1>1. 0 \in P
  <2>1. 1 .. 0 = {}
    OBVIOUS
  <2>2. \A t \in SUBSET (1 .. 0) : t = {}
    BY <2>1
  <2> QED BY <2>2
<1>2. ASSUME NEW k \in 0 .. n - 1, k \in P
      PROVE  k + 1 \in P
  <2> SUFFICES ASSUME NEW t \in SUBSET (1 .. k + 1), t # {}
               PROVE  \E m \in t : \A i \in t : m >= i
    OBVIOUS
  <2>1. CASE k + 1 \in t
    BY <2>1
  <2>2. CASE k + 1 \notin t
    <3>1. t \in SUBSET (1 .. k)
      BY <2>2
    <3> QED BY <1>2, <3>1
  <2> QED BY <2>1, <2>2
<1>3. n \in P
  <2> HIDE DEF P
  <2> QED BY <1>1, <1>2, IntervalInduction
<1> TAKE t \in SUBSET (1 .. n)
<1> HAVE t # {}
<1>4. \E m \in t : \A i \in t : m >= i
  BY <1>3
<1>5. Max(t) \in t /\ \A i \in t : Max(t) >= i
  BY <1>4 DEF Max
<1> QED BY <1>5

(* The recursion by which FoldLeft is defined, over the subsets of the       *)
(* domain of s, has a solution.                                              *)
Rest(p, base, s, g, t) == IF t = {} THEN base ELSE op(p, g[t \ {Max(t)}], s[Max(t)])
Solves(p, base, s, g, n) == g = [t \in SUBSET (1 .. n) |-> Rest(p, base, s, g, t)]

LEMMA SolutionGrows ==
    ASSUME NEW k \in Nat, NEW p, NEW s, NEW base, NEW g, Solves(p, base, s, g, k)
    PROVE  \E h : Solves(p, base, s, h, k + 1)
<1> DEFINE h == [t \in SUBSET (1 .. k + 1) |-> Rest(p, base, s, g, t)]
<1>1. \A u \in SUBSET (1 .. k) : u \in SUBSET (1 .. k + 1)
  <2>1. 1 .. k \subseteq 1 .. k + 1
    OBVIOUS
  <2> QED BY <2>1
<1>2. \A u \in SUBSET (1 .. k) : h[u] = g[u]
  <2> TAKE u \in SUBSET (1 .. k)
  <2>1. g[u] = Rest(p, base, s, g, u)
    BY DEF Solves
  <2>2. h[u] = Rest(p, base, s, g, u)
    BY <1>1
  <2> QED BY <2>1, <2>2
<1>3. \A t \in SUBSET (1 .. k + 1) : t # {} => t \ {Max(t)} \in SUBSET (1 .. k)
  <2> TAKE t \in SUBSET (1 .. k + 1)
  <2> HAVE t # {}
  <2>1. Max(t) \in t /\ \A i \in t : i <= Max(t)
    <3>1. k + 1 \in Nat
      OBVIOUS
    <3> QED BY <3>1, MaxOfInterval
  <2>2. \A i \in t : i \in 1 .. k + 1
    OBVIOUS
  <2>3. ASSUME NEW i \in t \ {Max(t)}
        PROVE  i \in 1 .. k
    <3>1. i \in 1 .. k + 1 /\ Max(t) \in 1 .. k + 1 /\ i <= Max(t) /\ i # Max(t)
      BY <2>1, <2>2
    <3> HIDE DEF h
    <3> QED BY <3>1, SMT
  <2> QED BY <2>3
<1>4. \A t \in SUBSET (1 .. k + 1) : Rest(p, base, s, g, t) = Rest(p, base, s, h, t)
  <2> HIDE DEF h
  <2> QED BY <1>2, <1>3 DEF Rest
<1>5. h = [t \in SUBSET (1 .. k + 1) |-> Rest(p, base, s, h, t)]
  <2> DEFINE G(t) == Rest(p, base, s, g, t)
             H(t) == Rest(p, base, s, h, t)
  <2>1. \A t \in SUBSET (1 .. k + 1) : G(t) = H(t)
    BY <1>4
  <2>2. h = [t \in SUBSET (1 .. k + 1) |-> G(t)]
    OBVIOUS
  <2> HIDE DEF G, H, h
  <2>3. h = [t \in SUBSET (1 .. k + 1) |-> H(t)]
    BY <2>1, <2>2
  <2> QED BY <2>3 DEF H
<1> QED BY <1>5 DEF Solves

LEMMA FoldIsDefined ==
    ASSUME NEW n \in Nat, NEW p, NEW s, NEW base
    PROVE  \E g : Solves(p, base, s, g, n)
<1> DEFINE P == {k \in Nat : \E g : Solves(p, base, s, g, k)}
<1>1. 0 \in P
  <2> DEFINE g == [t \in SUBSET (1 .. 0) |-> base]
  <2>1. \A t \in SUBSET (1 .. 0) : Rest(p, base, s, g, t) = base
    BY DEF Rest
  <2>2. Solves(p, base, s, g, 0)
    BY <2>1 DEF Solves
  <2> QED BY <2>2
<1>2. ASSUME NEW k \in 0 .. n - 1, k \in P
      PROVE  k + 1 \in P
  <2>1. k \in Nat /\ k + 1 \in Nat
    OBVIOUS
  <2> QED BY <1>2, <2>1, SolutionGrows
<1>3. n \in P
  <2> HIDE DEF P
  <2> QED BY <1>1, <1>2, IntervalInduction
<1> QED BY <1>3

(* FoldLeft goes through the sequence from its first element to its last:    *)
(* the states it goes through, and the one it ends in.                       *)
LEMMA FoldSteps ==
    \A p, base, s : Len(s) \in Nat /\ DOMAIN s = 1 .. Len(s) =>
        \E f : /\ f[0] = base
               /\ \A i \in 0 .. Len(s) - 1 : f[i + 1] = op(p, f[i], s[i + 1])
               /\ Fold(p, base, s) = f[Len(s)]
<1> TAKE p, base, s
<1> HAVE Len(s) \in Nat /\ DOMAIN s = 1 .. Len(s)
<1> DEFINE n == Len(s)
           iter == CHOOSE g : Solves(p, base, s, g, n)
           f == [i \in 0 .. n |-> iter[1 .. i]]
<1>1. Solves(p, base, s, iter, n)
  BY FoldIsDefined
<1>2. Fold(p, base, s) = iter[1 .. n]
  BY DEF Fold, MapThenFoldSet, Solves, Rest
<1> HIDE DEF iter, n
<1>3. n \in Nat /\ n = Len(s)
  BY DEF n
<1>4. \A t \in SUBSET (1 .. n) : iter[t] = Rest(p, base, s, iter, t)
  BY <1>1 DEF Solves
<1>5. f[0] = base
  <2>1. 1 .. 0 = {} /\ {} \in SUBSET (1 .. n) /\ 0 \in 0 .. n
    BY <1>3
  <2> QED BY <1>4, <2>1 DEF Rest
<1>6. ASSUME NEW i \in 0 .. n - 1
      PROVE  f[i + 1] = op(p, f[i], s[i + 1])
  <2>1. i \in Nat /\ i + 1 \in Nat /\ i + 1 <= n /\ i \in 0 .. n /\ i + 1 \in 0 .. n
    BY <1>3
  <2>2. 1 .. i + 1 \subseteq 1 .. n /\ 1 .. i + 1 # {}
    <3>1. 1 \in 1 .. i + 1
      BY <2>1
    <3>2. \A j \in 1 .. i + 1 : j \in 1 .. n
      BY <1>3, <2>1
    <3> QED BY <3>1, <3>2
  <2>3. Max(1 .. i + 1) = i + 1
    <3>1. Max(1 .. i + 1) \in 1 .. i + 1 /\ \A j \in 1 .. i + 1 : j <= Max(1 .. i + 1)
      BY <2>1, <2>2, MaxOfInterval
    <3>2. i + 1 \in 1 .. i + 1
      BY <2>1
    <3> HIDE DEF f
    <3> QED BY <2>1, <3>1, <3>2
  <2>4. (1 .. i + 1) \ {i + 1} = 1 .. i
    BY <2>1
  <2>5. iter[1 .. i + 1] = op(p, iter[1 .. i], s[i + 1])
    <3>1. 1 .. i + 1 \in SUBSET (1 .. n)
      BY <2>2
    <3>2. iter[1 .. i + 1] = Rest(p, base, s, iter, 1 .. i + 1)
      BY <1>4, <3>1
    <3> QED BY <2>2, <2>3, <2>4, <3>2 DEF Rest
  <2> QED BY <2>1, <2>5
<1>7. f[n] = iter[1 .. n]
  BY <1>3
<1> HIDE DEF f
<1> QED BY <1>2, <1>3, <1>5, <1>6, <1>7

-----------------------------------------------------------------------------
(* Folds over sets.                                                          *)
SetFold(p, base, S) == FoldSet(LAMBDA x, y : op(p, y, x), base, S)

(* The recursion by which FoldSet is defined, over the subsets of S, has a   *)
(* solution.                                                                 *)
Pick(t) == CHOOSE x \in t : TRUE
Less(p, base, g, t) == IF t = {} THEN base ELSE op(p, g[t \ {Pick(t)}], Pick(t))
SolvesSet(p, base, S, g) == g = [t \in SUBSET S |-> Less(p, base, g, t)]

(* Taking the chosen element away.                                           *)
LEMMA Picking ==
    ASSUME NEW S, IsFiniteSet(S), NEW t \in SUBSET S
    PROVE  /\ IsFiniteSet(t) /\ Cardinality(t) \in Nat
           /\ Cardinality(t) = 0 <=> t = {}
           /\ t # {} => /\ Pick(t) \in t /\ t \ {Pick(t)} \in SUBSET S
                        /\ Cardinality(t \ {Pick(t)}) = Cardinality(t) - 1
<1>1. IsFiniteSet(t)
  BY FS_Subset
<1>2. Cardinality(t) \in Nat /\ (Cardinality(t) = 0 <=> t = {})
  BY <1>1, FS_CardinalityType, FS_EmptySet
<1>3. ASSUME t # {}
      PROVE  Pick(t) \in t
  BY <1>3 DEF Pick
<1>4. ASSUME t # {}
      PROVE  Cardinality(t \ {Pick(t)}) = Cardinality(t) - 1
  BY <1>1, <1>3, <1>4, FS_RemoveElement
<1> QED BY <1>1, <1>2, <1>3, <1>4

LEMMA SetFoldIsDefined ==
    ASSUME NEW S, IsFiniteSet(S), NEW p, NEW base
    PROVE  \E g : SolvesSet(p, base, S, g)
<1> DEFINE n == Cardinality(S)
           Upto(g, k) == /\ g = [t \in SUBSET S |-> g[t]]
                         /\ \A t \in SUBSET S : Cardinality(t) <= k => g[t] = Less(p, base, g, t)
           P == {k \in Nat : \E g : Upto(g, k)}
<1>1. n \in Nat
  BY FS_CardinalityType
<1>2. 0 \in P
  <2> DEFINE g == [t \in SUBSET S |-> base]
  <2>1. ASSUME NEW t \in SUBSET S, Cardinality(t) <= 0
        PROVE  t = {}
    <3>1. Cardinality(t) \in Nat /\ (Cardinality(t) = 0 <=> t = {})
      BY Picking
    <3> QED BY <2>1, <3>1
  <2>2. Upto(g, 0)
    BY <2>1 DEF Less
  <2> HIDE DEF g, Upto
  <2> QED BY <2>2
<1>3. ASSUME NEW k \in 0 .. n - 1, k \in P
      PROVE  k + 1 \in P
  <2>1. PICK g : Upto(g, k)
    BY <1>3
  <2> DEFINE h == [t \in SUBSET S |-> IF Cardinality(t) <= k THEN g[t] ELSE Less(p, base, g, t)]
  <2>2. ASSUME NEW t \in SUBSET S, Cardinality(t) <= k + 1
        PROVE  h[t] = Less(p, base, h, t)
    <3>1. h[t] = Less(p, base, g, t)
      BY <2>1
    <3>2. t # {} => h[t \ {Pick(t)}] = g[t \ {Pick(t)}]
      <4> HAVE t # {}
      <4>1. /\ t \ {Pick(t)} \in SUBSET S /\ Cardinality(t \ {Pick(t)}) = Cardinality(t) - 1
            /\ Cardinality(t) \in Nat
        BY Picking
      <4>2. Cardinality(t \ {Pick(t)}) <= k
        BY <1>1, <2>2, <4>1
      <4> QED BY <4>1, <4>2
    <3> HIDE DEF h
    <3> QED BY <3>1, <3>2 DEF Less
  <2>3. Upto(h, k + 1)
    <3>1. h = [t \in SUBSET S |-> h[t]]
      OBVIOUS
    <3> HIDE DEF h
    <3> QED BY <2>2, <3>1
  <2> HIDE DEF Upto, h
  <2> QED BY <1>1, <2>3
<1>4. n \in P
  <2> HIDE DEF P, n
  <2> QED BY <1>1, <1>2, <1>3, IntervalInduction
<1>5. PICK g : Upto(g, n)
  BY <1>4
<1>6. \A t \in SUBSET S : Cardinality(t) <= n
  BY FS_Subset
<1>7. \A t \in SUBSET S : g[t] = Less(p, base, g, t)
  BY <1>5, <1>6
<1>8. g = [t \in SUBSET S |-> g[t]]
  BY <1>5
<1>9. SolvesSet(p, base, S, g)
  <2> HIDE DEF Upto
  <2> QED BY <1>7, <1>8 DEF SolvesSet
<1> QED BY <1>9

(* FoldSet goes through the elements of a finite set, each once, in some     *)
(* order: the order, the states it goes through, and the one it ends in.     *)
LEMMA SetFoldSteps ==
    \A p, base, S : IsFiniteSet(S) =>
        \E e, f : /\ e \in [1 .. Cardinality(S) -> S]
                  /\ \A i, j \in 1 .. Cardinality(S) : e[i] = e[j] => i = j
                  /\ \A x \in S : \E i \in 1 .. Cardinality(S) : e[i] = x
                  /\ f[0] = base
                  /\ \A i \in 0 .. Cardinality(S) - 1 : f[i + 1] = op(p, f[i], e[i + 1])
                  /\ SetFold(p, base, S) = f[Cardinality(S)]
<1> TAKE p, base, S
<1> HAVE IsFiniteSet(S)
<1> DEFINE n == Cardinality(S)
           iter == CHOOSE g : SolvesSet(p, base, S, g)
           Goes(t, k, e, f) == /\ e \in [1 .. k -> t]
                               /\ \A i, j \in 1 .. k : e[i] = e[j] => i = j
                               /\ \A x \in t : \E i \in 1 .. k : e[i] = x
                               /\ f[0] = base
                               /\ \A i \in 0 .. k - 1 : f[i + 1] = op(p, f[i], e[i + 1])
                               /\ iter[t] = f[k]
           P == {k \in Nat : \A t \in SUBSET S : Cardinality(t) = k => \E e, f : Goes(t, k, e, f)}
<1>1. SolvesSet(p, base, S, iter)
  BY SetFoldIsDefined
<1>2. SetFold(p, base, S) = iter[S]
  BY DEF SetFold, FoldSet, MapThenFoldSet, SolvesSet, Less, Pick
<1> HIDE DEF iter
<1>3. \A t \in SUBSET S : iter[t] = Less(p, base, iter, t)
  BY <1>1 DEF SolvesSet
<1>4. n \in Nat
  BY FS_CardinalityType
<1>5. 0 \in P
  <2> SUFFICES ASSUME NEW t \in SUBSET S, Cardinality(t) = 0
               PROVE  \E e, f : Goes(t, 0, e, f)
    OBVIOUS
  <2> DEFINE e == [i \in 1 .. 0 |-> base]
             f == [i \in {0} |-> base]
  <2>1. t = {}
    BY Picking
  <2>2. Goes(t, 0, e, f)
    BY <1>3, <2>1 DEF Less
  <2> HIDE DEF Goes, e, f
  <2> QED BY <2>2
<1>6. ASSUME NEW k \in 0 .. n - 1, k \in P
      PROVE  k + 1 \in P
  <2>0. k \in Nat
    BY <1>4
  <2> SUFFICES ASSUME NEW t \in SUBSET S, Cardinality(t) = k + 1
               PROVE  \E e, f : Goes(t, k + 1, e, f)
    BY <2>0
  <2> DEFINE x == Pick(t)
             u == t \ {x}
  <2>1. x \in t /\ u \in SUBSET S /\ Cardinality(u) = k
    BY <2>0, Picking
  <2>2. PICK c, g : Goes(u, k, c, g)
    BY <1>6, <2>1
  <2> DEFINE e == [i \in 1 .. k + 1 |-> IF i = k + 1 THEN x ELSE c[i]]
             f == [i \in 0 .. k + 1 |-> IF i = k + 1 THEN op(p, g[k], x) ELSE g[i]]
  <2>3. iter[t] = op(p, iter[u], x)
    BY <1>3, <2>1 DEF Less
  <2> HIDE DEF x
  <2>4. \A i \in 1 .. k + 1 : i = k + 1 \/ i \in 1 .. k
    BY <2>0
  <2>5. /\ c \in [1 .. k -> u] /\ \A i, j \in 1 .. k : c[i] = c[j] => i = j
        /\ \A y \in u : \E i \in 1 .. k : c[i] = y
    BY <2>2
  <2>6. e \in [1 .. k + 1 -> t]
    BY <2>1, <2>4, <2>5
  <2>7. \A i \in 1 .. k : e[i] = c[i] /\ e[i] \in u /\ i \in 1 .. k + 1
    BY <2>0, <2>5
  <2>8. e[k + 1] = x /\ x \notin u /\ k + 1 \in 1 .. k + 1
    BY <2>0
  <2>9. t = u \cup {x}
    BY <2>1
  <2>10. /\ f[0] = base
         /\ \A i \in 0 .. k : f[i + 1] = op(p, f[i], e[i + 1])
         /\ iter[t] = f[k + 1]
    <3>1. /\ g[0] = base /\ iter[u] = g[k]
          /\ \A i \in 0 .. k - 1 : g[i + 1] = op(p, g[i], c[i + 1])
      BY <2>2
    <3>2. /\ \A i \in 0 .. k : f[i] = g[i]
          /\ f[k + 1] = op(p, g[k], x)
      BY <2>0
    <3>3. ASSUME NEW i \in 0 .. k
          PROVE  f[i + 1] = op(p, f[i], e[i + 1])
      <4>1. CASE i = k
        BY <2>8, <3>2, <4>1
      <4>2. CASE i # k
        <5>1. i \in 0 .. k - 1 /\ i + 1 \in 0 .. k /\ i + 1 \in 1 .. k
          BY <2>0, <4>2
        <5> HIDE DEF f, e
        <5> QED BY <2>7, <3>1, <3>2, <5>1
      <4> QED BY <4>1, <4>2
    <3>4. 0 \in 0 .. k
      BY <2>0
    <3> HIDE DEF f, e
    <3> QED BY <2>3, <3>1, <3>2, <3>3, <3>4
  <2> HIDE DEF e, f, u
  <2>11. \A i, j \in 1 .. k + 1 : e[i] = e[j] => i = j
    BY <2>4, <2>5, <2>7, <2>8
  <2>12. \A y \in t : \E i \in 1 .. k + 1 : e[i] = y
    BY <2>5, <2>7, <2>8, <2>9
  <2>13. (k + 1) - 1 = k
    BY <2>0
  <2>14. Goes(t, k + 1, e, f)
    BY <2>6, <2>10, <2>11, <2>12, <2>13
  <2> HIDE DEF Goes
  <2> QED BY <2>14
<1>7. n \in P
  <2> HIDE DEF P, n
  <2> QED BY <1>4, <1>5, <1>6, IntervalInduction
<1>8. PICK e, f : Goes(S, n, e, f)
  BY <1>7
<1>9. /\ e \in [1 .. n -> S]
      /\ \A i, j \in 1 .. n : e[i] = e[j] => i = j
      /\ \A x \in S : \E i \in 1 .. n : e[i] = x
      /\ f[0] = base
      /\ \A i \in 0 .. n - 1 : f[i + 1] = op(p, f[i], e[i + 1])
      /\ SetFold(p, base, S) = f[n]
  BY <1>2, <1>8
<1> QED BY <1>9, Zenon

(* On the subsets of two sets that they have in common, the solutions agree. *)
LEMMA SolutionsAgree ==
    ASSUME NEW S, IsFiniteSet(S), NEW T \in SUBSET S, NEW p, NEW base, NEW g, NEW h,
           SolvesSet(p, base, S, g), SolvesSet(p, base, T, h)
    PROVE  \A t \in SUBSET T : g[t] = h[t]
<1> DEFINE n == Cardinality(T)
           P == {k \in Nat : \A t \in SUBSET T : Cardinality(t) <= k => g[t] = h[t]}
<1>1. IsFiniteSet(T) /\ n \in Nat
  BY FS_Subset, FS_CardinalityType
<1>2. \A t \in SUBSET T : /\ t \in SUBSET S /\ g[t] = Less(p, base, g, t)
                          /\ h[t] = Less(p, base, h, t)
  BY DEF SolvesSet
<1>3. 0 \in P
  <2> SUFFICES ASSUME NEW t \in SUBSET T, Cardinality(t) <= 0
               PROVE  g[t] = h[t]
    OBVIOUS
  <2>1. Cardinality(t) \in Nat /\ (Cardinality(t) = 0 <=> t = {})
    BY <1>1, Picking
  <2>2. t = {}
    BY <2>1
  <2> QED BY <1>2, <2>2 DEF Less
<1>4. ASSUME NEW k \in 0 .. n - 1, k \in P
      PROVE  k + 1 \in P
  <2>0. k \in Nat
    BY <1>1
  <2> SUFFICES ASSUME NEW t \in SUBSET T, Cardinality(t) <= k + 1
               PROVE  g[t] = h[t]
    BY <2>0
  <2>1. CASE t = {}
    BY <1>2, <2>1 DEF Less
  <2>2. CASE t # {}
    <3>1. /\ t \ {Pick(t)} \in SUBSET T /\ Cardinality(t \ {Pick(t)}) = Cardinality(t) - 1
          /\ Cardinality(t) \in Nat
      BY <1>1, <2>2, Picking
    <3>2. Cardinality(t \ {Pick(t)}) <= k
      BY <2>0, <3>1
    <3>3. g[t \ {Pick(t)}] = h[t \ {Pick(t)}]
      BY <1>4, <3>1, <3>2
    <3> QED BY <1>2, <2>2, <3>3 DEF Less
  <2> QED BY <2>1, <2>2
<1>5. n \in P
  <2> HIDE DEF P, n
  <2> QED BY <1>1, <1>3, <1>4, IntervalInduction
<1> TAKE t \in SUBSET T
<1>6. Cardinality(t) <= n
  BY <1>1, FS_Subset
<1> QED BY <1>5, <1>6

(* A fold over a set whose steps may change places may take any element      *)
(* last.                                                                     *)
StepsChangePlaces(p, base, S, Typ) ==
    /\ IsFiniteSet(S) /\ base \in Typ
    /\ \A v \in Typ, x \in S : op(p, v, x) \in Typ
    /\ \A v \in Typ, x, y \in S : op(p, op(p, v, x), y) = op(p, op(p, v, y), x)

LEMMA SetFoldAnyOrder ==
    \A p, base, S, Typ : StepsChangePlaces(p, base, S, Typ) =>
        /\ SetFold(p, base, {}) = base
        /\ SetFold(p, base, S) \in Typ
        /\ \A x \in S : SetFold(p, base, S) = op(p, SetFold(p, base, S \ {x}), x)
<1> TAKE p, base, S, Typ
<1> HAVE StepsChangePlaces(p, base, S, Typ)
<1>0. /\ IsFiniteSet(S) /\ base \in Typ
      /\ \A v \in Typ, x \in S : op(p, v, x) \in Typ
      /\ \A v \in Typ, x, y \in S : op(p, op(p, v, x), y) = op(p, op(p, v, y), x)
  BY DEF StepsChangePlaces
<1> USE <1>0
<1> DEFINE n == Cardinality(S)
           iter(T) == CHOOSE g : SolvesSet(p, base, T, g)
           g == iter(S)
           P == {k \in Nat : \A t \in SUBSET S : Cardinality(t) <= k =>
                   g[t] \in Typ /\ \A x \in t : g[t] = op(p, g[t \ {x}], x)}
<1>1. \A T \in SUBSET S : SolvesSet(p, base, T, iter(T)) /\ SetFold(p, base, T) = iter(T)[T]
  <2> TAKE T \in SUBSET S
  <2>1. IsFiniteSet(T)
    BY FS_Subset
  <2>2. SolvesSet(p, base, T, iter(T))
    BY <2>1, SetFoldIsDefined
  <2>3. SetFold(p, base, T) = iter(T)[T]
    BY DEF SetFold, FoldSet, MapThenFoldSet, SolvesSet, Less, Pick
  <2> QED BY <2>2, <2>3
<1> HIDE DEF iter
<1>2. \A T \in SUBSET S : SetFold(p, base, T) = g[T]
  <2> TAKE T \in SUBSET S
  <2>1. SolvesSet(p, base, S, iter(S)) /\ SolvesSet(p, base, T, iter(T)) /\ T \in SUBSET T
    BY <1>1
  <2>2. iter(S)[T] = iter(T)[T]
    BY <2>1, SolutionsAgree
  <2> QED BY <1>1, <2>2
<1>3. \A t \in SUBSET S : g[t] = Less(p, base, g, t)
  <2>1. SolvesSet(p, base, S, g)
    BY <1>1
  <2> HIDE DEF g
  <2> QED BY <2>1 DEF SolvesSet
<1> HIDE DEF g
<1>4. n \in Nat
  BY FS_CardinalityType
<1>5. 0 \in P
  <2> SUFFICES ASSUME NEW t \in SUBSET S, Cardinality(t) <= 0
               PROVE  g[t] \in Typ /\ \A x \in t : g[t] = op(p, g[t \ {x}], x)
    OBVIOUS
  <2>1. Cardinality(t) \in Nat /\ (Cardinality(t) = 0 <=> t = {})
    BY Picking
  <2>2. t = {}
    BY <2>1
  <2> QED BY <1>3, <2>2 DEF Less
<1>6. ASSUME NEW k \in 0 .. n - 1, k \in P
      PROVE  k + 1 \in P
  <2>0. k \in Nat
    BY <1>4
  <2> SUFFICES ASSUME NEW t \in SUBSET S, Cardinality(t) <= k + 1
               PROVE  g[t] \in Typ /\ \A x \in t : g[t] = op(p, g[t \ {x}], x)
    BY <2>0
  <2>1. CASE t = {}
    BY <1>3, <2>1 DEF Less
  <2>2. CASE t # {}
    <3> DEFINE y == Pick(t)
    <3>1. /\ y \in t /\ Cardinality(t) \in Nat /\ g[t] = op(p, g[t \ {y}], y)
      BY <1>3, <2>2, Picking DEF Less
    <3> HIDE DEF y
    <3>2. \A x \in t : /\ t \ {x} \in SUBSET S /\ Cardinality(t \ {x}) <= k
                       /\ IsFiniteSet(t \ {x})
      <4> TAKE x \in t
      <4>1. IsFiniteSet(t)
        BY FS_Subset
      <4>2. Cardinality(t \ {x}) = Cardinality(t) - 1 /\ IsFiniteSet(t \ {x})
        BY <4>1, FS_RemoveElement, FS_Subset
      <4> QED BY <2>0, <3>1, <4>2
    <3>3. \A x \in t : g[t \ {x}] \in Typ /\ \A z \in t \ {x} : g[t \ {x}] = op(p, g[(t \ {x}) \ {z}], z)
      BY <1>6, <3>2
    <3>4. ASSUME NEW x \in t, x # y
          PROVE  g[t] = op(p, g[t \ {x}], x)
      <4> DEFINE u == (t \ {x}) \ {y}
      <4>1. (t \ {y}) \ {x} = u
        OBVIOUS
      <4>a. y \in t /\ y \in t \ {x} /\ x \in t \ {y}
        BY <3>1, <3>4
      <4>b. g[t \ {x}] = op(p, g[u], y)
        BY <3>3, <4>a
      <4>c. g[t \ {y}] = op(p, g[(t \ {y}) \ {x}], x)
        BY <3>3, <4>a
      <4>2. g[t \ {y}] = op(p, g[u], x) /\ g[t \ {x}] = op(p, g[u], y)
        BY <4>1, <4>b, <4>c
      <4>3. g[u] \in Typ
        <5>1. u \in SUBSET S /\ u \subseteq t \ {x}
          OBVIOUS
        <5>2. Cardinality(u) \in Nat /\ Cardinality(t \ {x}) \in Nat
              /\ Cardinality(u) <= Cardinality(t \ {x})
          BY <3>2, <5>1, FS_Subset, FS_CardinalityType
        <5>3. Cardinality(u) <= k
          BY <2>0, <3>2, <5>2
        <5> QED BY <1>6, <5>1, <5>3
      <4> HIDE DEF u
      <4>4. op(p, op(p, g[u], x), y) = op(p, op(p, g[u], y), x)
        BY <3>1, <4>3
      <4> QED BY <3>1, <4>2, <4>4
    <3>5. g[t] \in Typ
      BY <3>1, <3>3
    <3>6. \A x \in t : g[t] = op(p, g[t \ {x}], x)
      BY <3>1, <3>4
    <3> QED BY <3>5, <3>6
  <2> QED BY <2>1, <2>2
<1>7. n \in P
  <2> HIDE DEF P, n
  <2> QED BY <1>4, <1>5, <1>6, IntervalInduction
<1>8. g[S] \in Typ /\ \A x \in S : g[S] = op(p, g[S \ {x}], x)
  <2>1. S \in SUBSET S /\ Cardinality(S) <= n
    BY <1>4
  <2> QED BY <1>7, <2>1
<1>9. g[{}] = base
  BY <1>3 DEF Less
<1> QED BY <1>2, <1>8, <1>9

=============================================================================
