---------------------------- MODULE Engine_proofs ----------------------------
(***************************************************************************)
(* What the engine keeps right.  First, of the operations of KVBlocks and  *)
(* PrefixCache, for any pool and any tree: each block is in the free list, *)
(* once, or in use, and no node is referred to that is not there.  Then of *)
(* the engine, for any requests, prompts and sizes, whatever the tree and  *)
(* the pool do: a request is in one list at most and holds blocks only     *)
(* while it is admitted, its future is settled once, and the counters      *)
(* agree with the futures.  Last, that the engine implements Service.      *)
(* EngineData_proofs says what becomes of its data.                        *)
(***************************************************************************)
EXTENDS Engine, FiniteSetTheorems, TLAPS

-----------------------------------------------------------------------------
(* The pool.  Every block is in the free list, once, or in use.              *)
EachFreeOrUsed(p) == IsInjective(p.free) /\ ToSet(p.free) = Blocks \ p.used

PoolFields == {"ref", "free", "used", "err"}

IsPool(p) ==
    /\ DOMAIN p = PoolFields /\ p = [f \in PoolFields |-> p[f]]
    /\ p.ref \in [Blocks -> Int]
    /\ p.free \in Seq(Blocks)
    /\ p.used \subseteq Blocks
    /\ p.err \in BOOLEAN
    /\ EachFreeOrUsed(p)

(* What inc_ref leaves alone: all but the counts.                            *)
SameLists(p, q) == q.free = p.free /\ q.used = p.used /\ q.err = p.err

(* A list without repetition, with one more, and without its first ones.     *)
LEMMA OneMore ==
    ASSUME NEW S, NEW s \in Seq(S), IsInjective(s), NEW x \in S, x \notin ToSet(s)
    PROVE  /\ Append(s, x) \in Seq(S) /\ IsInjective(Append(s, x))
           /\ ToSet(Append(s, x)) = ToSet(s) \cup {x}
<1> DEFINE t == Append(s, x)
<1>1. /\ t \in Seq(S) /\ Len(s) \in Nat
      /\ DOMAIN t = 1 .. Len(s) + 1 /\ DOMAIN s = 1 .. Len(s)
      /\ t[Len(s) + 1] = x /\ \A i \in 1 .. Len(s) : t[i] = s[i]
  OBVIOUS
<1> HIDE DEF t
<1>2. \A i \in DOMAIN t : i \in DOMAIN s \/ i = Len(s) + 1
  BY <1>1
<1>3. \A i \in DOMAIN s : i \in DOMAIN t /\ t[i] = s[i] /\ s[i] # x
  BY <1>1 DEF ToSet
<1>4. Len(s) + 1 \in DOMAIN t
  BY <1>1
<1>5. IsInjective(t)
  BY <1>1, <1>2, <1>3 DEF IsInjective
<1>6. ToSet(t) = ToSet(s) \cup {x}
  BY <1>1, <1>2, <1>3, <1>4 DEF ToSet
<1> QED BY <1>1, <1>5, <1>6 DEF t

LEMMA WithoutFirst ==
    ASSUME NEW S, NEW s \in Seq(S), NEW l \in 0 .. Len(s)
    PROVE  LET t == SubSeq(s, l + 1, Len(s))
           IN  /\ t \in Seq(S) /\ Len(t) = Len(s) - l /\ DOMAIN t = 1 .. Len(s) - l
               /\ \A i \in 1 .. Len(s) - l : t[i] = s[l + i] /\ l + i \in DOMAIN s
<1> DEFINE n == Len(s)
           t == SubSeq(s, l + 1, n)
<1>1. n \in Nat /\ l \in Nat /\ l <= n /\ DOMAIN s = 1 .. n /\ \A i \in 1 .. n : s[i] \in S
  OBVIOUS
<1>2. t = [i \in 1 .. 1 + n - (l + 1) |-> s[i + (l + 1) - 1]]
  OBVIOUS
<1> HIDE DEF n, t
<1>3. 1 + n - (l + 1) = n - l /\ n - l \in Nat
  BY <1>1
<1>4. \A i \in 1 .. n - l : l + i \in 1 .. n /\ i + (l + 1) - 1 = l + i
  BY <1>1
<1>5. /\ DOMAIN t = 1 .. n - l /\ t \in [1 .. n - l -> S]
      /\ \A i \in 1 .. n - l : t[i] = s[l + i] /\ l + i \in DOMAIN s
  BY <1>1, <1>2, <1>3, <1>4
<1>6. t \in Seq(S) /\ Len(t) = n - l
  BY <1>3, <1>5
<1> QED BY <1>5, <1>6 DEF t, n

(* What makes a pool of a record.                                            *)
LEMMA PoolParts ==
    ASSUME NEW p, IsPool(p)
    PROVE  /\ p.ref \in [Blocks -> Int] /\ p.free \in Seq(Blocks) /\ p.used \subseteq Blocks
           /\ IsInjective(p.free) /\ ToSet(p.free) = Blocks \ p.used
           /\ Len(p.free) \in Nat /\ DOMAIN p.free = 1 .. Len(p.free)
<1>1. p.free \in Seq(Blocks)
  BY DEF IsPool
<1>2. Len(p.free) \in Nat /\ DOMAIN p.free = 1 .. Len(p.free)
  BY <1>1
<1> QED BY <1>2 DEF IsPool, EachFreeOrUsed

LEMMA NewPoolIsPool == IsPool(NewPool)
<1>1. NewPool.free \in Seq(Blocks)
  <2>1. NumBlocks \in Nat /\ \A i \in 1 .. NumBlocks : i - 1 \in Blocks
    BY BlocksAssumption DEF Blocks
  <2> QED BY <2>1 DEF NewPool
<1>2. IsInjective(NewPool.free)
  BY BlocksAssumption DEF NewPool, IsInjective
<1>3. ToSet(NewPool.free) = Blocks
  <2>1. \A b \in Blocks : b + 1 \in 1 .. NumBlocks /\ (b + 1) - 1 = b
    BY BlocksAssumption DEF Blocks
  <2>2. \A i \in 1 .. NumBlocks : i - 1 \in Blocks
    BY BlocksAssumption DEF Blocks
  <2> QED BY <2>1, <2>2 DEF NewPool, ToSet
<1>4. NewPool = [f \in PoolFields |-> NewPool[f]] /\ DOMAIN NewPool = PoolFields
  BY DEF NewPool, PoolFields
<1>5. NewPool.ref \in [Blocks -> Int] /\ NewPool.used = {} /\ NewPool.err = FALSE
  BY DEF NewPool
<1> QED BY <1>1, <1>2, <1>3, <1>4, <1>5 DEF IsPool, EachFreeOrUsed

LEMMA IncRefIsPool ==
    ASSUME NEW p, IsPool(p), NEW b \in Blocks
    PROVE  IsPool(IncRef(p, b)) /\ SameLists(p, IncRef(p, b))
<1> DEFINE q == IncRef(p, b)
<1>1. /\ DOMAIN q = PoolFields /\ q = [f \in PoolFields |-> q[f]]
      /\ q.ref = [p.ref EXCEPT ![b] = @ + 1] /\ SameLists(p, q)
  BY DEF IsPool, IncRef, PoolFields, SameLists
<1> DEFINE r == p.ref
<1>2. r \in [Blocks -> Int]
  BY DEF IsPool
<1> HIDE DEF q, r
<1>3. [r EXCEPT ![b] = @ + 1] \in [Blocks -> Int]
  BY <1>2
<1>4. q.ref \in [Blocks -> Int]
  BY <1>1, <1>3 DEF r
<1> QED BY <1>1, <1>4 DEF IsPool, SameLists, EachFreeOrUsed, q

IncOf(param, p, b) == IncRef(p, b)
IncsOf == INSTANCE Folding WITH op <- IncOf

(* inc_ref on some blocks.                                                   *)
LEMMA IncRefsIsPool ==
    ASSUME NEW p, IsPool(p), NEW s \in Seq(Blocks)
    PROVE  IsPool(IncRefs(p, s)) /\ SameLists(p, IncRefs(p, s))
<1>1. Len(s) \in Nat /\ DOMAIN s = 1 .. Len(s) /\ \A i \in 1 .. Len(s) : s[i] \in Blocks
  OBVIOUS
<1>2. IncRefs(p, s) = IncsOf!Fold(0, p, s)
  BY DEF IncRefs, IncOf, IncsOf!Fold, FoldLeft,
         IncsOf!MapThenFoldSet, MapThenFoldSet, IncsOf!Max, Max
<1>3. PICK f : /\ f[0] = p
               /\ \A i \in 0 .. Len(s) - 1 : f[i + 1] = IncRef(f[i], s[i + 1])
               /\ IncRefs(p, s) = f[Len(s)]
  BY <1>1, <1>2, IncsOf!FoldSteps DEF IncOf
<1> DEFINE P == {i \in 0 .. Len(s) : IsPool(f[i]) /\ SameLists(p, f[i])}
<1>4. 0 \in P
  BY <1>1, <1>3 DEF SameLists
<1>5. ASSUME NEW i \in 0 .. Len(s) - 1, i \in P
      PROVE  i + 1 \in P
  <2>1. i + 1 \in 1 .. Len(s) /\ i + 1 \in 0 .. Len(s)
    BY <1>1
  <2>2. IsPool(IncRef(f[i], s[i + 1])) /\ SameLists(f[i], IncRef(f[i], s[i + 1]))
    BY <1>1, <1>5, <2>1, IncRefIsPool
  <2> QED BY <1>3, <1>5, <2>1, <2>2 DEF SameLists
<1> HIDE DEF P
<1>6. Len(s) \in Nat
  BY <1>1
<1>7. \A i \in 0 .. Len(s) : i \in P
  BY <1>4, <1>5, <1>6, IncsOf!IntervalInduction
<1> QED BY <1>3, <1>6, <1>7 DEF P

LEMMA DecRefIsPool ==
    ASSUME NEW p, IsPool(p), NEW b \in Blocks
    PROVE  IsPool(DecRef(p, b))
<1> DEFINE q == DecRef(p, b)
<1>1. CASE p.ref[b] # 1
  <2>1. /\ DOMAIN q = PoolFields /\ q = [f \in PoolFields |-> q[f]]
        /\ q.ref = [p.ref EXCEPT ![b] = @ - 1] /\ SameLists(p, q)
    BY <1>1 DEF IsPool, DecRef, PoolFields, SameLists
  <2> HIDE DEF q
  <2>2. q.ref \in [Blocks -> Int]
    BY <2>1, PoolParts
  <2> QED BY <2>1, <2>2 DEF IsPool, SameLists, EachFreeOrUsed, q
<1>2. CASE p.ref[b] = 1 /\ b \notin p.used
  <2>1. /\ DOMAIN q = PoolFields /\ q = [f \in PoolFields |-> q[f]]
        /\ q.ref = [p.ref EXCEPT ![b] = 0]
        /\ q.free = p.free /\ q.used = p.used /\ q.err = TRUE
    BY <1>2 DEF IsPool, DecRef, PoolFields
  <2> HIDE DEF q
  <2>2. q.ref \in [Blocks -> Int]
    BY <2>1, PoolParts
  <2> QED BY <2>1, <2>2 DEF IsPool, EachFreeOrUsed, q
<1>3. CASE p.ref[b] = 1 /\ b \in p.used
  <2>1. /\ DOMAIN q = PoolFields /\ q = [f \in PoolFields |-> q[f]]
        /\ q.ref = [p.ref EXCEPT ![b] = 0]
        /\ q.free = Append(p.free, b) /\ q.used = p.used \ {b} /\ q.err = p.err
    BY <1>3 DEF IsPool, DecRef, PoolFields
  <2> HIDE DEF q
  <2>2. q.ref \in [Blocks -> Int] /\ q.used \subseteq Blocks
    <3>1. p.ref \in [Blocks -> Int] /\ p.used \subseteq Blocks
      BY PoolParts
    <3> QED BY <2>1, <3>1
  <2>3. /\ p.free \in Seq(Blocks) /\ IsInjective(p.free) /\ b \notin ToSet(p.free)
        /\ ToSet(p.free) = Blocks \ p.used
    BY <1>3, PoolParts
  <2>4. /\ q.free \in Seq(Blocks) /\ IsInjective(q.free)
        /\ ToSet(q.free) = ToSet(p.free) \cup {b}
    <3>1. q.free = Append(p.free, b)
      BY <2>1
    <3>2. /\ Append(p.free, b) \in Seq(Blocks) /\ IsInjective(Append(p.free, b))
          /\ ToSet(Append(p.free, b)) = ToSet(p.free) \cup {b}
      BY <2>3, OneMore
    <3> QED BY <3>1, <3>2
  <2>5. ToSet(q.free) = Blocks \ q.used
    <3>1. q.used = p.used \ {b}
      BY <2>1
    <3> QED BY <1>3, <2>3, <2>4, <3>1
  <2>6. q.err \in BOOLEAN
    BY <2>1 DEF IsPool
  <2> QED BY <2>1, <2>2, <2>4, <2>5, <2>6 DEF IsPool, EachFreeOrUsed, q
<1> QED BY <1>1, <1>2, <1>3

DecOf(param, p, b) == DecRef(p, b)
DecsOf == INSTANCE Folding WITH op <- DecOf

(* dec_ref on some blocks.                                                   *)
LEMMA DecRefsIsPool ==
    ASSUME NEW p, IsPool(p), NEW s \in Seq(Blocks)
    PROVE  IsPool(DecRefs(p, s))
<1>1. Len(s) \in Nat /\ DOMAIN s = 1 .. Len(s) /\ \A i \in 1 .. Len(s) : s[i] \in Blocks
  OBVIOUS
<1>2. DecRefs(p, s) = DecsOf!Fold(0, p, s)
  BY DEF DecRefs, DecOf, DecsOf!Fold, FoldLeft,
         DecsOf!MapThenFoldSet, MapThenFoldSet, DecsOf!Max, Max
<1>3. PICK f : /\ f[0] = p
               /\ \A i \in 0 .. Len(s) - 1 : f[i + 1] = DecRef(f[i], s[i + 1])
               /\ DecRefs(p, s) = f[Len(s)]
  BY <1>1, <1>2, DecsOf!FoldSteps DEF DecOf
<1> DEFINE P == {i \in 0 .. Len(s) : IsPool(f[i])}
<1>4. 0 \in P
  BY <1>1, <1>3
<1>5. ASSUME NEW i \in 0 .. Len(s) - 1, i \in P
      PROVE  i + 1 \in P
  <2>1. i + 1 \in 1 .. Len(s) /\ i + 1 \in 0 .. Len(s)
    BY <1>1
  <2>2. IsPool(DecRef(f[i], s[i + 1]))
    BY <1>1, <1>5, <2>1, DecRefIsPool
  <2> QED BY <1>3, <2>1, <2>2
<1> HIDE DEF P
<1>6. Len(s) \in Nat
  BY <1>1
<1>7. \A i \in 0 .. Len(s) : i \in P
  BY <1>4, <1>5, <1>6, DecsOf!IntervalInduction
<1> QED BY <1>3, <1>6, <1>7 DEF P

(* allocate(), when there are enough free blocks.                            *)
LEMMA AllocateIsPool ==
    ASSUME NEW p, IsPool(p), NEW len \in Nat, NEW n \in Nat, CanAllocate(p, len, n)
    PROVE  IsPool(Allocate(p, len, n)) /\ Allocated(p, len, n) \in Seq(Blocks)
<1> DEFINE k == NumNeed(len, n)
           got == Allocated(p, len, n)
           q == IncRefs(p, got)
           t == Allocate(p, len, n)
<1>1. k \in Int /\ Len(p.free) \in Nat /\ k <= Len(p.free) /\ p.free \in Seq(Blocks)
      /\ DOMAIN p.free = 1 .. Len(p.free)
  <2>1. n + BlockSize - 1 \in Int /\ BlockSize \in Nat /\ BlockSize > 0
    BY BlocksAssumption
  <2>2. k \in Int
    BY <2>1 DEF NumNeed, CeilDiv
  <2> QED BY <2>2, PoolParts DEF CanAllocate
<1>2. got = SubSeq(p.free, 1, k)
  BY DEF Allocated
<1> HIDE DEF k
<1> DEFINE l == IF k <= 0 THEN 0 ELSE k
<1>3. /\ l \in 0 .. Len(p.free) /\ got \in Seq(Blocks) /\ Len(got) = l
      /\ DOMAIN got = 1 .. l /\ \A i \in 1 .. l : got[i] = p.free[i]
  <2>1. CASE k <= 0
    <3>1. got = <<>>
      BY <1>1, <1>2, <2>1
    <3> QED BY <1>1, <2>1, <3>1
  <2>2. CASE k > 0
    BY <1>1, <1>2, <2>2
  <2> QED BY <1>1, <2>1, <2>2
<1>4. IsPool(q) /\ SameLists(p, q)
  BY <1>3, IncRefsIsPool
<1>5. t = [q EXCEPT !.free = SubSeq(@, Len(got) + 1, Len(@)), !.used = @ \cup ToSet(got)]
  BY DEF Allocate
<1> HIDE DEF got, q, l, t
<1>6. /\ DOMAIN t = PoolFields /\ t = [f \in PoolFields |-> t[f]]
      /\ t.ref = q.ref /\ t.err = q.err /\ t.used = p.used \cup ToSet(got)
      /\ t.free = SubSeq(p.free, l + 1, Len(p.free))
  BY <1>3, <1>4, <1>5 DEF IsPool, PoolFields, SameLists
<1>7. /\ t.free \in Seq(Blocks) /\ Len(t.free) = Len(p.free) - l
      /\ DOMAIN t.free = 1 .. Len(p.free) - l
      /\ \A i \in 1 .. Len(p.free) - l : t.free[i] = p.free[l + i]
  <2>1. l \in 0 .. Len(p.free) /\ p.free \in Seq(Blocks)
    BY <1>1, <1>3
  <2> DEFINE u == SubSeq(p.free, l + 1, Len(p.free))
  <2>2. /\ u \in Seq(Blocks) /\ Len(u) = Len(p.free) - l /\ DOMAIN u = 1 .. Len(p.free) - l
        /\ \A i \in 1 .. Len(p.free) - l : u[i] = p.free[l + i]
    BY <2>1, WithoutFirst
  <2> HIDE DEF u
  <2>3. t.free = u
    BY <1>6 DEF u
  <2> QED BY <2>2, <2>3
<1>8. ToSet(got) \subseteq Blocks
  BY <1>3 DEF ToSet
<1>9. IsInjective(t.free)
  <2> SUFFICES ASSUME NEW i \in DOMAIN t.free, NEW j \in DOMAIN t.free, t.free[i] = t.free[j]
               PROVE  i = j
    BY DEF IsInjective
  <2>a. /\ i \in 1 .. Len(p.free) - l /\ j \in 1 .. Len(p.free) - l
        /\ l \in 0 .. Len(p.free) /\ Len(p.free) \in Nat
    BY <1>1, <1>3, <1>7
  <2>1. l + i \in DOMAIN p.free /\ l + j \in DOMAIN p.free /\ i \in Nat /\ j \in Nat /\ l \in Nat
    BY <1>1, <2>a
  <2>2. l + i = l + j
    BY <1>7, <2>1, PoolParts DEF IsInjective
  <2> QED BY <2>1, <2>2
<1>10. ToSet(t.free) = ToSet(p.free) \ ToSet(got)
  <2>1. ASSUME NEW i \in DOMAIN t.free
        PROVE  t.free[i] \in ToSet(p.free) /\ t.free[i] \notin ToSet(got)
    <3>1. l + i \in DOMAIN p.free /\ i \in Nat /\ l \in Nat /\ i > 0
      BY <1>1, <1>3, <1>7
    <3>2. \A j \in DOMAIN got : j \in DOMAIN p.free /\ j # l + i /\ got[j] = p.free[j]
      BY <1>1, <1>3, <3>1
    <3>3. \A j \in DOMAIN got : got[j] # p.free[l + i]
      BY <3>1, <3>2, PoolParts DEF IsInjective
    <3> QED BY <1>7, <3>1, <3>3 DEF ToSet
  <2>2. ASSUME NEW i \in DOMAIN p.free, p.free[i] \notin ToSet(got)
        PROVE  p.free[i] \in ToSet(t.free)
    <3>1. i \notin DOMAIN got
      BY <1>3, <2>2 DEF ToSet
    <3>2. i - l \in 1 .. Len(p.free) - l /\ l + (i - l) = i
      BY <1>1, <1>3, <3>1
    <3>3. t.free[i - l] = p.free[i]
      BY <1>7, <3>2
    <3> QED BY <1>7, <3>2, <3>3 DEF ToSet
  <2> QED BY <2>1, <2>2 DEF ToSet
<1>11. ToSet(t.free) = Blocks \ t.used
  BY <1>6, <1>10, PoolParts
<1>12. t.ref \in [Blocks -> Int] /\ t.used \subseteq Blocks /\ t.err \in BOOLEAN
  <2>1. q.err \in BOOLEAN
    BY <1>4 DEF IsPool
  <2> QED BY <1>4, <1>6, <1>8, <2>1, PoolParts
<1>13. IsPool(t)
  BY <1>6, <1>7, <1>9, <1>11, <1>12 DEF IsPool, EachFreeOrUsed
<1> QED BY <1>3, <1>13 DEF t, got

LEMMA ReleasedIsPool ==
    ASSUME NEW p, IsPool(p)
    PROVE  IsPool(ReleaseAllBlocks(p))
<1> DEFINE q == ReleaseAllBlocks(p)
<1>1. /\ DOMAIN q = PoolFields /\ q = [f \in PoolFields |-> q[f]]
      /\ q.ref = NewPool.ref /\ q.free = NewPool.free /\ q.used = NewPool.used /\ q.err = p.err
  BY DEF ReleaseAllBlocks, NewPool, PoolFields
<1> HIDE DEF q
<1> QED BY <1>1, NewPoolIsPool DEF IsPool, EachFreeOrUsed, q

-----------------------------------------------------------------------------
(* Numbers.                                                                  *)
(* A set of naturals has a least element, and a finite one a greatest.       *)
LEMMA LeastNatural ==
    ASSUME NEW S, S \subseteq Nat, S # {}
    PROVE  \E m \in S : \A k \in S : m <= k
<1> DEFINE R == OpToRel(<, Nat)
<1>1. PICK m \in S : \A k \in S : ~ (<<k, m>> \in R)
  <2> HIDE DEF R
  <2> QED BY WFMin, NatLessThanWellFounded DEF R
<1>2. \A k \in S : k \in Nat /\ m \in Nat /\ (k < m => <<k, m>> \in R)
  BY DEF OpToRel
<1> HIDE DEF R
<1>3. ASSUME NEW k \in S PROVE m <= k
  <2>1. k \in Nat /\ m \in Nat /\ ~ (k < m)
    BY <1>1, <1>2
  <2> QED BY <2>1
<1> QED BY <1>3

LEMMA GreatestNatural ==
    ASSUME NEW S, IsFiniteSet(S), S \subseteq Nat, S # {}
    PROVE  Max(S) \in S /\ Max(S) \in Nat /\ \A k \in S : k <= Max(S)
<1> DEFINE n == Cardinality(S)
           P == {k \in Nat : \A t \in SUBSET S :
                                Cardinality(t) <= k /\ t # {} => \E m \in t : \A x \in t : m >= x}
<1>1. n \in Nat /\ \A t \in SUBSET S : IsFiniteSet(t) /\ Cardinality(t) \in Nat
                                       /\ Cardinality(t) <= n
                                       /\ (Cardinality(t) = 0 <=> t = {})
  <2>1. \A t \in SUBSET S : IsFiniteSet(t) /\ Cardinality(t) <= Cardinality(S)
    BY FS_Subset
  <2>2. \A t \in SUBSET S : Cardinality(t) \in Nat /\ (Cardinality(t) = 0 <=> t = {})
    BY <2>1, FS_CardinalityType, FS_EmptySet
  <2> QED BY <2>1, <2>2
<1>2. 0 \in P
  <2>1. ASSUME NEW t \in SUBSET S, Cardinality(t) <= 0
        PROVE  t = {}
    <3>1. Cardinality(t) \in Nat /\ (Cardinality(t) = 0 <=> t = {})
      BY <1>1
    <3> QED BY <2>1, <3>1
  <2> QED BY <2>1
<1>3. ASSUME NEW k \in 0 .. n - 1, k \in P
      PROVE  k + 1 \in P
  <2>0. k \in Nat
    BY <1>1
  <2> SUFFICES ASSUME NEW t \in SUBSET S, Cardinality(t) <= k + 1, t # {}
               PROVE  \E m \in t : \A x \in t : m >= x
    BY <2>0
  <2>1. PICK y \in t : TRUE
    OBVIOUS
  <2>2. t \ {y} \in SUBSET S /\ Cardinality(t \ {y}) = Cardinality(t) - 1
    BY <1>1, FS_RemoveElement
  <2>3. Cardinality(t \ {y}) <= k
    BY <1>1, <2>0, <2>2
  <2>4. CASE t \ {y} = {}
    <3>1. \A x \in t : y >= x
      BY <2>4
    <3> QED BY <3>1
  <2>5. CASE t \ {y} # {}
    <3>1. PICK m \in t \ {y} : \A x \in t \ {y} : m >= x
      BY <1>3, <2>2, <2>3, <2>5
    <3>2. CASE y >= m
      <4>1. \A x \in t : y >= x
        BY <3>1, <3>2
      <4> QED BY <4>1
    <3>3. CASE ~ (y >= m)
      <4>1. \A x \in t : m >= x
        BY <3>1, <3>3
      <4> QED BY <4>1
    <3> QED BY <3>2, <3>3
  <2> QED BY <2>4, <2>5
<1>4. n \in P
  <2> HIDE DEF P, n
  <2> QED BY <1>1, <1>2, <1>3, DecsOf!IntervalInduction
<1>5. \E m \in S : \A x \in S : m >= x
  BY <1>1, <1>4
<1>6. Max(S) \in S /\ \A x \in S : Max(S) >= x
  BY <1>5 DEF Max
<1> QED BY <1>6

(* Slices of lists.                                                          *)
LEMMA Slice ==
    ASSUME NEW S, NEW s \in Seq(S), NEW a \in Nat \ {0}, NEW b \in Int, b <= Len(s)
    PROVE  SubSeq(s, a, b) \in Seq(S)
           /\ Len(SubSeq(s, a, b)) = IF b < a THEN 0 ELSE b - a + 1
<1>1. CASE b < a
  <2>1. SubSeq(s, a, b) = <<>>
    BY <1>1
  <2> QED BY <1>1, <2>1
<1>2. CASE b >= a
  BY <1>2
<1> QED BY <1>1, <1>2

LEMMA FirstOnes ==
    ASSUME NEW S, NEW s \in Seq(S), NEW n \in Nat
    PROVE  UpTo(s, n) \in Seq(S) /\ Len(UpTo(s, n)) = Min({n, Len(s)})
           /\ Min({n, Len(s)}) \in 0 .. Len(s)
<1> DEFINE k == Min({n, Len(s)})
<1>1. Len(s) \in Nat
  OBVIOUS
<1>2. k \in {n, Len(s)} /\ k <= n /\ k <= Len(s)
  <2>1. \E m \in {n, Len(s)} : \A x \in {n, Len(s)} : m =< x
    BY <1>1
  <2>2. k \in {n, Len(s)} /\ \A x \in {n, Len(s)} : k =< x
    BY <2>1 DEF Min
  <2> QED BY <2>2
<1> HIDE DEF k
<1>3. k \in Nat
  BY <1>1, <1>2
<1>4. SubSeq(s, 1, k) \in Seq(S) /\ Len(SubSeq(s, 1, k)) = k
  BY <1>1, <1>2, <1>3, Slice
<1>5. k \in 0 .. Len(s)
  BY <1>1, <1>2, <1>3
<1>6. UpTo(s, n) = SubSeq(s, 1, k) /\ k = Min({n, Len(s)})
  BY DEF UpTo, k
<1> QED BY <1>4, <1>5, <1>6

(* The longest common prefix of two lists is one, and none is longer.        *)
LEMMA LongestCommon ==
    ASSUME NEW S, NEW s \in Seq(S), NEW t \in Seq(S)
    PROVE  LET c == LongestCommonPrefix({s, t})
           IN  /\ Len(c) \in Nat /\ Len(c) <= Len(s) /\ Len(c) <= Len(t)
               /\ c \in CommonPrefixes({s, t})
               /\ \A q \in CommonPrefixes({s, t}) : Len(q) <= Len(c)
<1> DEFINE Q == CommonPrefixes({s, t})
           c == LongestCommonPrefix({s, t})
           L == {Len(q) : q \in Q}
<1>1. <<>> \in Q
  <2>1. <<>> \in Prefixes(s)
    <3>1. SubSeq(s, 1, 0) = <<>> /\ 0 \in 0 .. Len(s)
      OBVIOUS
    <3> QED BY <3>1 DEF Prefixes
  <2>2. IsPrefix(<<>>, s) /\ IsPrefix(<<>>, t)
    BY DEF IsPrefix
  <2> QED BY <2>1, <2>2 DEF CommonPrefixes
<1>2. \A q \in Q : Len(q) \in Nat /\ Len(q) <= Len(s) /\ Len(q) <= Len(t)
  <2> SUFFICES ASSUME NEW q \in Q
               PROVE  Len(q) \in Nat /\ Len(q) <= Len(s) /\ Len(q) <= Len(t)
    OBVIOUS
  <2>1. (q \in Prefixes(s) \/ q \in Prefixes(t)) /\ IsPrefix(q, s) /\ IsPrefix(q, t)
    BY DEF CommonPrefixes
  <2>2. \A u \in {s, t} : \A l \in 0 .. Len(u) : Len(SubSeq(u, 1, l)) = l
    BY Slice
  <2>3. Len(q) \in Nat
    BY <2>1, <2>2 DEF Prefixes
  <2> QED BY <2>1, <2>3 DEF IsPrefix
<1> HIDE DEF Q
<1>3. L \subseteq 0 .. Len(s) /\ L # {} /\ L \subseteq Nat
  <2>1. Len(s) \in Nat
    OBVIOUS
  <2>2. \A q \in Q : Len(q) \in 0 .. Len(s) /\ Len(q) \in Nat
    BY <1>2, <2>1
  <2> QED BY <1>1, <2>2
<1>4. IsFiniteSet(L)
  <2>1. IsFiniteSet(0 .. Len(s))
    BY FS_Interval
  <2> QED BY <1>3, <2>1, FS_Subset
<1>5. Max(L) \in L /\ \A k \in L : k <= Max(L)
  <2> HIDE DEF L
  <2> QED BY <1>3, <1>4, GreatestNatural
<1>6. \E longest \in Q : \A other \in Q : Len(other) <= Len(longest)
  BY <1>5
<1>7. c \in Q /\ \A other \in Q : Len(other) <= Len(c)
  BY <1>6 DEF LongestCommonPrefix, Q
<1> QED BY <1>2, <1>7 DEF Q

(* It begins both.                                                           *)
LEMMA CommonBeginning ==
    ASSUME NEW S, NEW s \in Seq(S), NEW t \in Seq(S)
    PROVE  LET c == LongestCommonPrefix({s, t})
           IN  Len(c) \in Nat /\ Len(c) <= Len(s) /\ Len(c) <= Len(t)
BY LongestCommon

-----------------------------------------------------------------------------
(* The heap of nodes, over the tokens in V: no reference dangles.            *)
HeapFields == {"node", "dict", "clock"}
NodeOver(V, K) ==
    [edge : Seq(V), blocks : Seq(Blocks), offset : Int, last : Nat, kids : K]

IsHeap(V, T) ==
    /\ DOMAIN T = HeapFields /\ T = [f \in HeapFields |-> T[f]]
    /\ T.clock \in Nat
    /\ IsFiniteSet(DOMAIN T.node) /\ DOMAIN T.node \subseteq Nat /\ Root \in DOMAIN T.node
    /\ T.node \in [DOMAIN T.node -> NodeOver(V, DOMAIN T.dict)]
    /\ T.dict = [d \in DOMAIN T.dict |-> T.dict[d]]
    /\ \A d \in DOMAIN T.dict : Range(T.dict[d]) \subseteq DOMAIN T.node

(* A heap put together from its parts.                                       *)
LEMMA HeapOf ==
    ASSUME NEW V, NEW D, NEW K, NEW node, NEW dict, NEW clock,
           clock \in Nat, IsFiniteSet(D), D \subseteq Nat, Root \in D,
           node \in [D -> NodeOver(V, K)], DOMAIN dict = K, dict = [d \in K |-> dict[d]],
           \A d \in K : Range(dict[d]) \subseteq D
    PROVE  IsHeap(V, [node |-> node, dict |-> dict, clock |-> clock])
<1> DEFINE T == [node |-> node, dict |-> dict, clock |-> clock]
<1>1. DOMAIN T = HeapFields /\ T = [f \in HeapFields |-> T[f]]
  BY DEF HeapFields
<1>2. T.node = node /\ T.dict = dict /\ T.clock = clock
  OBVIOUS
<1> HIDE DEF T
<1>3. DOMAIN T.node = D
  BY <1>2
<1>4. T.node \in [DOMAIN T.node -> NodeOver(V, DOMAIN T.dict)]
  BY <1>2, <1>3
<1>5. T.dict = [d \in DOMAIN T.dict |-> T.dict[d]]
  BY <1>2
<1>6. IsHeap(V, T)
  BY <1>1, <1>2, <1>3, <1>4, <1>5 DEF IsHeap
<1> QED BY <1>6 DEF T

LEMMA HeapParts ==
    ASSUME NEW V, NEW T, IsHeap(V, T)
    PROVE  /\ T = [node |-> T.node, dict |-> T.dict, clock |-> T.clock]
           /\ T.node \in [DOMAIN T.node -> NodeOver(V, DOMAIN T.dict)]
           /\ \A n \in DOMAIN T.node :
                 /\ T.node[n] \in NodeOver(V, DOMAIN T.dict)
                 /\ T.node[n].edge \in Seq(V) /\ T.node[n].blocks \in Seq(Blocks)
                 /\ T.node[n].offset \in Int /\ T.node[n].last \in Nat
                 /\ T.node[n].kids \in DOMAIN T.dict
                 /\ Range(Children(T, n)) \subseteq DOMAIN T.node
<1>1. T = [node |-> T.node, dict |-> T.dict, clock |-> T.clock]
  <2>1. T = [f \in HeapFields |-> T[f]]
    BY DEF IsHeap
  <2>2. [f \in HeapFields |-> T[f]] = [node |-> T.node, dict |-> T.dict, clock |-> T.clock]
    BY DEF HeapFields
  <2> QED BY <2>1, <2>2
<1>2. T.node \in [DOMAIN T.node -> NodeOver(V, DOMAIN T.dict)]
  BY DEF IsHeap
<1>3. ASSUME NEW n \in DOMAIN T.node
      PROVE  /\ T.node[n] \in NodeOver(V, DOMAIN T.dict)
             /\ T.node[n].edge \in Seq(V) /\ T.node[n].blocks \in Seq(Blocks)
             /\ T.node[n].offset \in Int /\ T.node[n].last \in Nat
             /\ T.node[n].kids \in DOMAIN T.dict
             /\ Range(Children(T, n)) \subseteq DOMAIN T.node
  <2>1. T.node[n] \in NodeOver(V, DOMAIN T.dict)
    BY <1>2
  <2> DEFINE x == T.node[n]
  <2>2. /\ x.edge \in Seq(V) /\ x.blocks \in Seq(Blocks)
        /\ x.offset \in Int /\ x.last \in Nat /\ x.kids \in DOMAIN T.dict
    <3> HIDE DEF x
    <3>1. x \in NodeOver(V, DOMAIN T.dict)
      BY <2>1 DEF x
    <3> QED BY <3>1 DEF NodeOver
  <2>3. Range(Children(T, n)) \subseteq DOMAIN T.node
    BY <2>2 DEF IsHeap, Children
  <2> QED BY <2>1, <2>2, <2>3
<1> QED BY <1>1, <1>2, <1>3

LEMMA EmptyHeap == ASSUME NEW V PROVE IsHeap(V, EmptyTree)
<1> DEFINE node == [n \in {Root} |-> RadixNode(<<>>, <<>>, 0, 0, Root)]
           dict == [d \in {Root} |-> <<>>]
<1>1. Root \in Nat /\ IsFiniteSet({Root})
  BY FS_Singleton DEF Root
<1>2. RadixNode(<<>>, <<>>, 0, 0, Root) \in NodeOver(V, {Root})
  BY DEF RadixNode, NodeOver
<1>3. node \in [{Root} -> NodeOver(V, {Root})]
  BY <1>2
<1>4. DOMAIN dict = {Root} /\ dict = [d \in {Root} |-> dict[d]] /\ dict[Root] = <<>>
  OBVIOUS
<1>5. Range(<<>>) = {}
  BY DEF Range
<1> HIDE DEF node, dict
<1>6. \A d \in {Root} : Range(dict[d]) \subseteq {Root}
  BY <1>4, <1>5
<1>7. {Root} \subseteq Nat
  BY <1>1
<1>8. IsHeap(V, [node |-> node, dict |-> dict, clock |-> 0])
  BY <1>1, <1>3, <1>4, <1>6, <1>7, HeapOf
<1> QED BY <1>8 DEF EmptyTree, node, dict

-----------------------------------------------------------------------------
(* What ReachableFrom finds: the least set that has S and, with a node, its  *)
(* children.                                                                 *)
Spread(T, R) == R \cup UNION {Range(Children(T, n)) : n \in R}
ReachOf(T, R, i) == Spread(T, R)
Reaching == INSTANCE Folding WITH op <- ReachOf

IsClosed(T, R) == \A n \in R : Range(Children(T, n)) \subseteq R

LEMMA Reachable ==
    ASSUME NEW V, NEW T, IsHeap(V, T), NEW S, S \subseteq DOMAIN T.node, S # {}
    PROVE  /\ S \subseteq ReachableFrom(T, S)
           /\ ReachableFrom(T, S) \subseteq DOMAIN T.node
           /\ IsClosed(T, ReachableFrom(T, S))
           /\ \A R : S \subseteq R /\ IsClosed(T, R) => ReachableFrom(T, S) \subseteq R
<1> DEFINE D == DOMAIN T.node
           n == Cardinality(D)
<1>1. IsFiniteSet(D) /\ n \in Nat /\ \A x \in D : Range(Children(T, x)) \subseteq D
  BY HeapParts, FS_CardinalityType DEF IsHeap
<1>2. ReachableFrom(T, S) = Reaching!SetFold(T, S, D)
  BY DEF ReachableFrom, Reaching!SetFold, ReachOf, Spread, Reaching!FoldSet, FoldSet,
         Reaching!MapThenFoldSet, MapThenFoldSet
<1> HIDE DEF D
<1>a. Reaching!IsFiniteSet(D) /\ Reaching!Cardinality(D) = n
  BY <1>1 DEF IsFiniteSet, Reaching!IsFiniteSet, Cardinality, Reaching!Cardinality
<1>3. PICK e, f : /\ e \in [1 .. n -> D]
                  /\ f[0] = S
                  /\ \A i \in 0 .. n - 1 : f[i + 1] = ReachOf(T, f[i], e[i + 1])
                  /\ ReachableFrom(T, S) = f[n]
  BY <1>2, <1>a, Reaching!SetFoldSteps
<1>4. \A i \in 0 .. n - 1 : f[i + 1] = Spread(T, f[i])
  BY <1>3 DEF ReachOf
<1> DEFINE P == {i \in 0 .. n : /\ S \subseteq f[i] /\ f[i] \subseteq D
                                /\ IsClosed(T, f[i]) \/ Cardinality(f[i]) >= i + 1
                                /\ \A R : S \subseteq R /\ IsClosed(T, R) => f[i] \subseteq R}
<1>5. 0 \in P
  <2>1. IsFiniteSet(S) /\ Cardinality(S) \in Nat /\ Cardinality(S) # 0
    BY <1>1, FS_Subset, FS_CardinalityType, FS_EmptySet DEF D
  <2>2. Cardinality(S) >= 0 + 1
    BY <2>1
  <2> QED BY <1>1, <1>3, <2>2 DEF D
<1>6. ASSUME NEW i \in 0 .. n - 1, i \in P
      PROVE  i + 1 \in P
  <2>1. i + 1 \in 0 .. n /\ i \in Nat
    BY <1>1
  <2>2. /\ f[i + 1] = Spread(T, f[i]) /\ S \subseteq f[i] /\ f[i] \subseteq D
        /\ IsClosed(T, f[i]) \/ Cardinality(f[i]) >= i + 1
    BY <1>4, <1>6
  <2>3. f[i + 1] \subseteq D /\ f[i] \subseteq f[i + 1]
    BY <1>1, <2>2 DEF Spread
  <2>4. \A R : S \subseteq R /\ IsClosed(T, R) => f[i + 1] \subseteq R
    <3> TAKE R
    <3> HAVE S \subseteq R /\ IsClosed(T, R)
    <3>1. f[i] \subseteq R
      BY <1>6
    <3> QED BY <2>2, <3>1 DEF Spread, IsClosed
  <2>5. IsClosed(T, f[i + 1]) \/ Cardinality(f[i + 1]) >= i + 2
    <3>1. CASE IsClosed(T, f[i])
      <4>1. f[i + 1] = f[i]
        BY <2>2, <3>1 DEF Spread, IsClosed
      <4> QED BY <3>1, <4>1
    <3>2. CASE ~ IsClosed(T, f[i])
      <4>1. f[i + 1] # f[i]
        BY <2>2, <3>2 DEF Spread, IsClosed
      <4>2. IsFiniteSet(f[i + 1]) /\ IsFiniteSet(f[i])
        BY <1>1, <2>2, <2>3, FS_Subset
      <4>3. Cardinality(f[i]) \in Nat /\ Cardinality(f[i + 1]) \in Nat
        BY <4>2, FS_CardinalityType
      <4>4. Cardinality(f[i]) <= Cardinality(f[i + 1]) /\ Cardinality(f[i]) # Cardinality(f[i + 1])
        BY <2>3, <4>1, <4>2, FS_Subset
      <4>5. Cardinality(f[i]) >= i + 1
        BY <2>2, <3>2
      <4> QED BY <2>1, <4>3, <4>4, <4>5
    <3> QED BY <3>1, <3>2
  <2>6. i + 2 = (i + 1) + 1
    BY <2>1
  <2> QED BY <2>1, <2>2, <2>3, <2>4, <2>5, <2>6
<1>7. n \in P
  <2> HIDE DEF P, n
  <2> QED BY <1>1, <1>5, <1>6, DecsOf!IntervalInduction
<1>8. f[n] \subseteq D /\ IsFiniteSet(D) /\ (IsClosed(T, f[n]) \/ Cardinality(f[n]) >= n + 1)
  BY <1>1, <1>7
<1>9. Cardinality(f[n]) <= n /\ Cardinality(f[n]) \in Nat
  BY <1>8, FS_Subset, FS_CardinalityType
<1>10. IsClosed(T, f[n])
  BY <1>1, <1>8, <1>9
<1> QED BY <1>3, <1>7, <1>10 DEF D

(* U has the nodes of T, with the tokens and blocks they have there.         *)
HasNodesOf(U, T) ==
    /\ DOMAIN T.node \subseteq DOMAIN U.node
    /\ \A n \in DOMAIN T.node : U.node[n].edge = T.node[n].edge

(* Collecting what is not referred to leaves no reference dangling.          *)
LEMMA CollectIsHeap ==
    ASSUME NEW V, NEW T, IsHeap(V, T), NEW S, S \subseteq DOMAIN T.node
    PROVE  /\ IsHeap(V, Collect(T, S))
           /\ S \subseteq DOMAIN Collect(T, S).node
           /\ HasNodesOf(T, Collect(T, S))
<1> DEFINE live == ReachableFrom(T, {Root} \cup S)
           K == {T.node[n].kids : n \in live}
           node == Restrict(T.node, live)
           dict == Restrict(T.dict, K)
<1>1. {Root} \cup S \subseteq DOMAIN T.node /\ {Root} \cup S # {}
  BY DEF IsHeap
<1>2. {Root} \cup S \subseteq live /\ live \subseteq DOMAIN T.node /\ IsClosed(T, live)
  BY <1>1, Reachable
<1>3. Collect(T, S) = [node |-> node, dict |-> dict, clock |-> T.clock]
  <2>1. T = [node |-> T.node, dict |-> T.dict, clock |-> T.clock]
    BY HeapParts
  <2>2. Collect(T, S) = [T EXCEPT !.node = node, !.dict = dict]
    BY DEF Collect
  <2> HIDE DEF node, dict
  <2> QED BY <2>1, <2>2
<1> HIDE DEF live
<1>4. /\ IsFiniteSet(live) /\ live \subseteq Nat /\ Root \in live /\ T.clock \in Nat
  BY <1>2, FS_Subset DEF IsHeap
<1>5. \A n \in live : T.node[n] \in NodeOver(V, K)
  <2> TAKE n \in live
  <2> DEFINE x == T.node[n]
  <2>1. x \in NodeOver(V, DOMAIN T.dict) /\ x.kids \in K
    BY <1>2, HeapParts
  <2> HIDE DEF x, K
  <2>2. x \in NodeOver(V, K)
    BY <2>1 DEF NodeOver
  <2> QED BY <2>2 DEF x
<1>6. node \in [live -> NodeOver(V, K)]
  <2> HIDE DEF K
  <2> QED BY <1>5 DEF Restrict
<1>7. DOMAIN dict = K /\ dict = [d \in K |-> dict[d]] /\ \A d \in K : dict[d] = T.dict[d]
  BY DEF Restrict
<1>8. \A d \in K : Range(dict[d]) \subseteq live
  <2>1. \A n \in live : Range(T.dict[T.node[n].kids]) \subseteq live
    BY <1>2 DEF IsClosed, Children
  <2> HIDE DEF dict
  <2> QED BY <1>7, <2>1
<1>9. DOMAIN node = live /\ \A n \in live : node[n] = T.node[n]
  BY DEF Restrict
<1> HIDE DEF node, dict, K
<1>10. IsHeap(V, [node |-> node, dict |-> dict, clock |-> T.clock])
  BY <1>4, <1>6, <1>7, <1>8, HeapOf
<1>11. Collect(T, S).node = node
  BY <1>3
<1> QED BY <1>2, <1>3, <1>9, <1>10, <1>11 DEF HasNodesOf

-----------------------------------------------------------------------------
(* Nodes and tables are added one by one.                                    *)
LEMMA SetItemIs ==
    ASSUME NEW f, NEW k, NEW v
    PROVE  /\ DOMAIN SetItem(f, k, v) = DOMAIN f \cup {k}
           /\ SetItem(f, k, v) = [x \in DOMAIN f \cup {k} |-> SetItem(f, k, v)[x]]
           /\ SetItem(f, k, v)[k] = v
           /\ \A x \in DOMAIN f \ {k} : SetItem(f, k, v)[x] = f[x]
           /\ \A x \in DOMAIN f \cup {k} : SetItem(f, k, v)[x] = IF x = k THEN v ELSE f[x]
           /\ Range(SetItem(f, k, v)) \subseteq Range(f) \cup {v}
BY DEF SetItem, Range

LEMMA NodeOverMore ==
    ASSUME NEW V, NEW K, NEW L, K \subseteq L
    PROVE  \A D : \A f \in [D -> NodeOver(V, K)] : f \in [D -> NodeOver(V, L)]
<1>1. \A x \in NodeOver(V, K) : x \in NodeOver(V, L)
  <2> TAKE x \in NodeOver(V, K)
  <2>1. /\ x.edge \in Seq(V) /\ x.blocks \in Seq(Blocks) /\ x.offset \in Int
        /\ x.last \in Nat /\ x.kids \in L
        /\ x = [edge |-> x.edge, blocks |-> x.blocks, offset |-> x.offset,
                last |-> x.last, kids |-> x.kids]
    BY DEF NodeOver
  <2> QED BY <2>1 DEF NodeOver
<1> QED BY <1>1

(* The clock ticks when a node is used.                                      *)
LEMMA TouchIsHeap ==
    ASSUME NEW V, NEW T, IsHeap(V, T), NEW n \in DOMAIN T.node
    PROVE  /\ IsHeap(V, Touch(T, n))
           /\ DOMAIN Touch(T, n).node = DOMAIN T.node
           /\ HasNodesOf(Touch(T, n), T) /\ HasNodesOf(T, Touch(T, n))
<1> DEFINE D == DOMAIN T.node
           K == DOMAIN T.dict
           x == T.node[n]
           y == [x EXCEPT !.last = T.clock + 1]
           node == [T.node EXCEPT ![n] = y]
<1>1. Touch(T, n) = [node |-> node, dict |-> T.dict, clock |-> T.clock + 1]
  <2>1. T = [node |-> T.node, dict |-> T.dict, clock |-> T.clock]
    BY HeapParts
  <2>2. Touch(T, n) = [T EXCEPT !.clock = T.clock + 1, !.node = node]
    BY DEF Touch
  <2> HIDE DEF node
  <2> QED BY <2>1, <2>2
<1>2. x \in NodeOver(V, K) /\ T.clock + 1 \in Nat /\ T.node \in [D -> NodeOver(V, K)]
  BY HeapParts DEF IsHeap
<1>3. y \in NodeOver(V, K) /\ y.edge = x.edge
  <2> HIDE DEF x
  <2> QED BY <1>2 DEF NodeOver
<1> HIDE DEF y
<1>4. node \in [D -> NodeOver(V, K)] /\ \A z \in D : node[z].edge = T.node[z].edge
  BY <1>2, <1>3
<1>5. /\ IsFiniteSet(D) /\ D \subseteq Nat /\ Root \in D /\ T.dict = [d \in K |-> T.dict[d]]
      /\ \A d \in K : Range(T.dict[d]) \subseteq D
  BY DEF IsHeap
<1> HIDE DEF node
<1>6. IsHeap(V, [node |-> node, dict |-> T.dict, clock |-> T.clock + 1])
  <2> HIDE DEF D
  <2> QED BY <1>2, <1>4, <1>5, HeapOf
<1>7. Touch(T, n).node = node /\ DOMAIN node = D
  BY <1>1, <1>4
<1> QED BY <1>1, <1>4, <1>6, <1>7 DEF HasNodesOf

-----------------------------------------------------------------------------
(* What a match result may say of a heap, and what the loop of match() keeps *)
(* right: its references are nodes, and the edge to be split is longer than  *)
(* the part of it that was matched.                                          *)
IsMatch(T, tokens, m) ==
    /\ m.node \in DOMAIN T.node /\ m.child \in DOMAIN T.node
    /\ m.pos \in 0 .. Len(tokens)
    /\ m.blocks \in Seq(Blocks)
    /\ m.common \in Nat
    /\ m.split => m.common < Len(T.node[m.child].edge)

MatchFields ==
    {"tree", "node", "pos", "blocks", "offset", "split", "child", "common", "done"}

IsWalk(V, T, tokens, m) ==
    /\ DOMAIN m = MatchFields
    /\ IsHeap(V, m.tree)
    /\ DOMAIN m.tree.node = DOMAIN T.node
    /\ HasNodesOf(m.tree, T)
    /\ IsMatch(m.tree, tokens, m)

(* A match result is as good for any heap with the nodes it refers to.       *)
LEMMA MatchStays ==
    ASSUME NEW T, NEW U, NEW tokens, NEW m, IsMatch(T, tokens, m),
           HasNodesOf(U, T) \/ (HasNodesOf(T, U) /\ {m.node, m.child} \subseteq DOMAIN U.node)
    PROVE  IsMatch(U, tokens, m)
BY DEF IsMatch, HasNodesOf

LEMMA StartIsMatch ==
    ASSUME NEW V, NEW T, IsHeap(V, T), NEW tokens \in Seq(V)
    PROVE  IsWalk(V, T, tokens, MatchStart(T))
<1> DEFINE m == MatchStart(T)
<1>1. /\ DOMAIN m = MatchFields /\ m.tree = T /\ m.node = Root /\ m.child = Root
      /\ m.pos = 0 /\ m.blocks = <<>> /\ m.common = 0 /\ m.split = FALSE
  BY DEF MatchStart, MatchFields
<1> HIDE DEF m
<1>2. Root \in DOMAIN T.node /\ Len(tokens) \in Nat
  BY DEF IsHeap
<1> QED BY <1>1, <1>2 DEF IsWalk, IsMatch, HasNodesOf, m

(* The blocks that n tokens fill.                                            *)
LEMMA WholeBlocks ==
    ASSUME NEW n \in Nat
    PROVE  /\ n \div BlockSize \in Nat /\ (n \div BlockSize) * BlockSize \in Nat
           /\ (n \div BlockSize) * BlockSize <= n
<1>1. BlockSize \in Nat /\ BlockSize > 0
  BY BlocksAssumption
<1> QED BY <1>1

(* One turn of the loop.                                                     *)
LEMMA DescendIsMatch ==
    ASSUME NEW V, NEW T, NEW tokens \in Seq(V), NEW m, IsWalk(V, T, tokens, m)
    PROVE  IsWalk(V, T, tokens, Descend(tokens, m))
<1> DEFINE rest == SubSeq(tokens, m.pos + 1, Len(tokens))
           kids == Children(m.tree, m.node)
           c == kids[Head(rest)]
           edge == m.tree.node[c].edge
           common == Len(LongestCommonPrefix({rest, edge}))
           w == WholeEdge(m, c)
           q == PartOfEdge(m, c, common)
           U == Touch(m.tree, c)
<1>1. ASSUME NEW t, t = m \/ t = [m EXCEPT !.done = TRUE]
      PROVE  IsWalk(V, T, tokens, t)
  <2>1. /\ DOMAIN t = DOMAIN m /\ t.tree = m.tree /\ t.node = m.node /\ t.child = m.child
        /\ t.pos = m.pos /\ t.blocks = m.blocks /\ t.common = m.common /\ t.split = m.split
    BY <1>1 DEF IsWalk, MatchFields
  <2> QED BY <2>1 DEF IsWalk, IsMatch
<1>2. /\ Len(tokens) \in Nat /\ m.pos \in Nat /\ m.pos <= Len(tokens)
      /\ rest \in Seq(V) /\ Len(rest) = Len(tokens) - m.pos
  <2>1. Len(tokens) \in Nat /\ m.pos \in Nat /\ m.pos <= Len(tokens)
    BY DEF IsWalk, IsMatch
  <2>2. m.pos + 1 \in Nat \ {0} /\ Len(tokens) \in Int
    BY <2>1
  <2>3. rest \in Seq(V)
        /\ Len(rest) = IF Len(tokens) < m.pos + 1 THEN 0 ELSE Len(tokens) - (m.pos + 1) + 1
    BY <2>2, Slice
  <2> HIDE DEF rest
  <2> QED BY <2>1, <2>3
<1>3. ASSUME Head(rest) \in DOMAIN kids
      PROVE  /\ c \in DOMAIN m.tree.node /\ edge \in Seq(V)
             /\ m.tree.node[c].blocks \in Seq(Blocks)
             /\ common \in Nat /\ common <= Len(rest) /\ common <= Len(edge)
  <2>1. c \in Range(kids)
    BY <1>3 DEF Range
  <2>2. c \in DOMAIN m.tree.node
    BY <2>1, HeapParts DEF IsWalk, IsMatch
  <2>3. edge \in Seq(V) /\ m.tree.node[c].blocks \in Seq(Blocks)
    BY <2>2, HeapParts DEF IsWalk
  <2> HIDE DEF rest, edge
  <2> QED BY <1>2, <2>2, <2>3, CommonBeginning
<1>4. ASSUME NEW t, DOMAIN t = MatchFields, t.tree = U, c \in DOMAIN m.tree.node,
             IsMatch(U, tokens, t)
      PROVE  IsWalk(V, T, tokens, t)
  <2>1. IsHeap(V, U) /\ DOMAIN U.node = DOMAIN m.tree.node /\ HasNodesOf(U, m.tree)
    BY <1>4, TouchIsHeap DEF IsWalk
  <2> HIDE DEF U
  <2>2. DOMAIN U.node = DOMAIN T.node /\ HasNodesOf(U, T)
    BY <2>1 DEF IsWalk, HasNodesOf
  <2> QED BY <1>4, <2>1, <2>2 DEF IsWalk
<1>5. ASSUME Head(rest) \in DOMAIN kids
      PROVE  /\ IsHeap(V, U) /\ DOMAIN U.node = DOMAIN m.tree.node
             /\ \A n \in DOMAIN m.tree.node : U.node[n].edge = m.tree.node[n].edge
  <2>1. c \in DOMAIN m.tree.node /\ IsHeap(V, m.tree)
    BY <1>3, <1>5 DEF IsWalk
  <2> HIDE DEF c
  <2>2. IsHeap(V, U) /\ DOMAIN U.node = DOMAIN m.tree.node /\ HasNodesOf(U, m.tree)
    BY <2>1, TouchIsHeap
  <2> HIDE DEF U
  <2> QED BY <2>2 DEF HasNodesOf
<1>6. ASSUME Head(rest) \in DOMAIN kids, common = Len(edge)
      PROVE  IsWalk(V, T, tokens, w)
  <2>1. /\ DOMAIN w = DOMAIN m /\ w.tree = U /\ w.node = c /\ w.child = m.child
        /\ w.pos = m.pos + Len(edge) /\ w.blocks = m.blocks \o m.tree.node[c].blocks
        /\ w.common = m.common /\ w.split = m.split
    BY DEF WholeEdge, IsWalk, MatchFields
  <2>2. /\ c \in DOMAIN m.tree.node /\ m.tree.node[c].blocks \in Seq(Blocks)
        /\ Len(edge) \in Nat /\ Len(edge) <= Len(rest)
    BY <1>3, <1>6
  <2> HIDE DEF w, U, c, edge, rest
  <2>3. w.pos \in 0 .. Len(tokens)
    BY <1>2, <2>1, <2>2
  <2>4. w.blocks \in Seq(Blocks)
    BY <2>1, <2>2 DEF IsWalk, IsMatch
  <2>5. IsMatch(U, tokens, w)
    BY <1>5, <1>6, <2>1, <2>2, <2>3, <2>4 DEF IsWalk, IsMatch
  <2> QED BY <1>4, <2>1, <2>2, <2>5 DEF IsWalk
<1>7. ASSUME Head(rest) \in DOMAIN kids, common # Len(edge)
      PROVE  IsWalk(V, T, tokens, q)
  <2> DEFINE k == common \div BlockSize
             reused == UpTo(m.tree.node[c].blocks, k)
  <2>1. /\ DOMAIN q = DOMAIN m /\ q.tree = U /\ q.node = m.node /\ q.child = c
        /\ q.pos = m.pos + k * BlockSize /\ q.blocks = m.blocks \o reused
        /\ q.common = common /\ q.split = TRUE
    BY DEF PartOfEdge, IsWalk, MatchFields
  <2>2. /\ c \in DOMAIN m.tree.node /\ m.tree.node[c].blocks \in Seq(Blocks)
        /\ Len(edge) \in Nat /\ common \in Nat /\ common <= Len(rest) /\ common < Len(edge)
    <3> HIDE DEF common, edge, rest, c
    <3>1. /\ c \in DOMAIN m.tree.node /\ edge \in Seq(V)
          /\ m.tree.node[c].blocks \in Seq(Blocks)
          /\ common \in Nat /\ common <= Len(rest) /\ common <= Len(edge)
      BY <1>3, <1>7
    <3>2. Len(edge) \in Nat
      BY <3>1
    <3> QED BY <1>7, <3>1, <3>2
  <2> HIDE DEF common
  <2>3. k \in Nat /\ k * BlockSize \in Nat /\ k * BlockSize <= common
    BY <2>2, WholeBlocks
  <2> HIDE DEF k
  <2>4. reused \in Seq(Blocks)
    BY <2>2, <2>3, FirstOnes
  <2> HIDE DEF q, U, c, edge, rest, reused
  <2>5. q.pos \in 0 .. Len(tokens)
    <3> DEFINE kb == k * BlockSize
    <3>1. kb \in Nat /\ kb <= common /\ q.pos = m.pos + kb
      BY <2>1, <2>3
    <3> HIDE DEF kb
    <3> QED BY <1>2, <2>2, <3>1
  <2>6. q.blocks \in Seq(Blocks)
    BY <2>1, <2>4 DEF IsWalk, IsMatch
  <2>7. U.node[q.child].edge = edge
    BY <1>5, <1>7, <2>1, <2>2 DEF edge
  <2>8. IsMatch(U, tokens, q)
    BY <1>5, <1>7, <2>1, <2>2, <2>5, <2>6, <2>7 DEF IsWalk, IsMatch
  <2> QED BY <1>4, <2>1, <2>2, <2>8 DEF IsWalk
<1> HIDE DEF rest, kids, edge, common, w, q
<1>8. \/ Descend(tokens, m) = m
      \/ Descend(tokens, m) = [m EXCEPT !.done = TRUE]
      \/ Head(rest) \in DOMAIN kids /\ common = Len(edge) /\ Descend(tokens, m) = w
      \/ Head(rest) \in DOMAIN kids /\ common # Len(edge) /\ Descend(tokens, m) = q
  BY DEF Descend, rest, kids, edge, common, w, q
<1> QED BY <1>1, <1>6, <1>7, <1>8

MatchOf(tokens, m, t) == Descend(tokens, m)
MatchingOf == INSTANCE Folding WITH op <- MatchOf

(* All of match().                                                           *)
LEMMA MatchIsSound ==
    ASSUME NEW V, NEW T, IsHeap(V, T), NEW tokens \in Seq(V)
    PROVE  IsWalk(V, T, tokens, Match(T, tokens))
<1>1. Len(tokens) \in Nat /\ DOMAIN tokens = 1 .. Len(tokens)
  OBVIOUS
<1>2. Match(T, tokens) = MatchingOf!Fold(tokens, MatchStart(T), tokens)
  BY DEF Match, MatchOf, MatchingOf!Fold, FoldLeft,
         MatchingOf!MapThenFoldSet, MapThenFoldSet, MatchingOf!Max, Max
<1>3. PICK f : /\ f[0] = MatchStart(T)
               /\ \A i \in 0 .. Len(tokens) - 1 : f[i + 1] = MatchOf(tokens, f[i], tokens[i + 1])
               /\ Match(T, tokens) = f[Len(tokens)]
  BY <1>1, <1>2, MatchingOf!FoldSteps
<1>4. \A i \in 0 .. Len(tokens) - 1 : f[i + 1] = Descend(tokens, f[i])
  BY <1>3 DEF MatchOf
<1> DEFINE P == {i \in 0 .. Len(tokens) : IsWalk(V, T, tokens, f[i])}
<1>5. 0 \in P
  BY <1>1, <1>3, StartIsMatch
<1>6. ASSUME NEW i \in 0 .. Len(tokens) - 1, i \in P
      PROVE  i + 1 \in P
  <2>1. i + 1 \in 0 .. Len(tokens)
    BY <1>1
  <2>2. IsWalk(V, T, tokens, Descend(tokens, f[i]))
    BY <1>6, DescendIsMatch
  <2> QED BY <1>4, <2>1, <2>2
<1> HIDE DEF P
<1>7. \A i \in 0 .. Len(tokens) : i \in P
  BY <1>1, <1>5, <1>6, DecsOf!IntervalInduction
<1> QED BY <1>1, <1>3, <1>7 DEF P

-----------------------------------------------------------------------------
(* insert(): what is not matched, and the blocks of it.                      *)
LEMMA RestOfMatch ==
    ASSUME NEW V, NEW T, NEW tokens \in Seq(V), NEW m, IsMatch(T, tokens, m),
           NEW table \in Seq(Blocks)
    PROVE  Remaining(tokens, m) \in Seq(V) /\ NewBlocks(table, m) \in Seq(Blocks)
<1>1. m.pos + 1 \in Nat \ {0} /\ Len(tokens) \in Int /\ Len(tokens) <= Len(tokens)
  BY DEF IsMatch
<1>2. Len(m.blocks) + 1 \in Nat \ {0} /\ Len(table) \in Int /\ Len(table) <= Len(table)
  BY DEF IsMatch
<1> QED BY <1>1, <1>2, Slice DEF Remaining, NewBlocks

(* Tables of children, and nodes, that are added to a heap.                  *)
IsTables(dict, K, E) ==
    DOMAIN dict = K /\ dict = [d \in K |-> dict[d]] /\ \A d \in K : Range(dict[d]) \subseteq E

LEMMA TablesGrow ==
    ASSUME NEW dict, NEW K, NEW E, IsTables(dict, K, E), NEW k, NEW v, Range(v) \subseteq E
    PROVE  IsTables(SetItem(dict, k, v), K \cup {k}, E)
<1> DEFINE g == SetItem(dict, k, v)
<1>1. DOMAIN dict = K /\ \A d \in K : Range(dict[d]) \subseteq E
  BY DEF IsTables
<1>2. g = [d \in K \cup {k} |-> IF d = k THEN v ELSE dict[d]]
  BY <1>1 DEF SetItem
<1>3. /\ DOMAIN g = K \cup {k} /\ g = [d \in K \cup {k} |-> g[d]]
      /\ \A d \in K \cup {k} : g[d] = IF d = k THEN v ELSE dict[d]
  BY <1>2
<1> HIDE DEF g
<1>4. \A d \in K \cup {k} : Range(g[d]) \subseteq E
  BY <1>1, <1>3
<1>5. IsTables(g, K \cup {k}, E)
  BY <1>3, <1>4 DEF IsTables
<1> QED BY <1>5 DEF g

(* What insert() is given.                                                   *)
LEMMA Given ==
    ASSUME NEW V, NEW T, IsHeap(V, T), NEW tokens, NEW m, IsMatch(T, tokens, m)
    PROVE  LET D == DOMAIN T.node
               K == DOMAIN T.dict
               parent == T.node[m.node].kids
           IN  /\ IsFiniteSet(D) /\ D \subseteq Nat /\ Root \in D /\ T.clock + 1 \in Nat
               /\ T.node \in [D -> NodeOver(V, K)] /\ IsTables(T.dict, K, D)
               /\ m.node \in D /\ m.child \in D /\ parent \in K
               /\ Range(T.dict[parent]) \subseteq D
               /\ Max(D) \in Nat /\ \A k \in D : k \in Nat /\ k <= Max(D)
<1>1. m.node \in DOMAIN T.node /\ m.child \in DOMAIN T.node
  BY DEF IsMatch
<1>2. T.node[m.node].kids \in DOMAIN T.dict
  BY <1>1, HeapParts
<1>3. /\ IsFiniteSet(DOMAIN T.node) /\ DOMAIN T.node \subseteq Nat /\ Root \in DOMAIN T.node
      /\ T.node \in [DOMAIN T.node -> NodeOver(V, DOMAIN T.dict)]
      /\ T.clock + 1 \in Nat
  BY DEF IsHeap
<1>4. IsTables(T.dict, DOMAIN T.dict, DOMAIN T.node)
  BY DEF IsHeap, IsTables
<1>5. Max(DOMAIN T.node) \in Nat /\ \A k \in DOMAIN T.node : k \in Nat /\ k <= Max(DOMAIN T.node)
  BY <1>3, GreatestNatural
<1>6. Range(T.dict[T.node[m.node].kids]) \subseteq DOMAIN T.node
  BY <1>2, <1>4 DEF IsTables
<1> QED BY <1>1, <1>2, <1>3, <1>4, <1>5, <1>6

LEMMA AddBranchIsHeap ==
    ASSUME NEW V, NEW T, IsHeap(V, T), NEW tokens \in Seq(V), NEW m, IsMatch(T, tokens, m),
           NEW table \in Seq(Blocks)
    PROVE  IsHeap(V, AddBranch(T, tokens, table, m))
           /\ HasNodesOf(AddBranch(T, tokens, table, m), T)
<1> DEFINE D == DOMAIN T.node
           K == DOMAIN T.dict
           id == Max(D) + 1
           rest == Remaining(tokens, m)
           branch == RadixNode(rest, NewBlocks(table, m), 0, T.clock + 1, id)
           parent == T.node[m.node].kids
           node == SetItem(T.node, id, branch)
           kids == SetItem(T.dict[parent], Head(rest), id)
           dict == SetItem(SetItem(T.dict, id, <<>>), parent, kids)
           E == D \cup {id}
           L == K \cup {id}
<1>1. /\ IsFiniteSet(D) /\ D \subseteq Nat /\ Root \in D /\ T.clock + 1 \in Nat
      /\ T.node \in [D -> NodeOver(V, K)] /\ IsTables(T.dict, K, D)
      /\ parent \in K /\ Range(T.dict[parent]) \subseteq D
      /\ Max(D) \in Nat /\ \A k \in D : k \in Nat /\ k <= Max(D)
  BY Given
<1>2. rest \in Seq(V) /\ NewBlocks(table, m) \in Seq(Blocks)
  BY RestOfMatch
<1>3. AddBranch(T, tokens, table, m) = [node |-> node, dict |-> dict, clock |-> T.clock + 1]
  BY DEF AddBranch
<1> HIDE DEF D, K, parent, rest
<1>4. id \in Nat /\ id \notin D
  BY <1>1
<1> HIDE DEF id
<1>5. branch \in NodeOver(V, L)
  BY <1>1, <1>2 DEF RadixNode, NodeOver
<1>6. T.node \in [D -> NodeOver(V, L)]
  BY <1>1, NodeOverMore
<1> HIDE DEF branch
<1>7. node \in [E -> NodeOver(V, L)] /\ \A n \in D : node[n] = T.node[n]
  <2> DEFINE B == NodeOver(V, L)
  <2>1. T.node \in [D -> B] /\ branch \in B /\ D \subseteq D /\ id \notin D
    BY <1>4, <1>5, <1>6
  <2> HIDE DEF L, B
  <2>2. SetItem(T.node, id, branch) \in [D \cup {id} -> B]
        /\ \A n \in D : SetItem(T.node, id, branch)[n] = T.node[n]
    BY <2>1 DEF SetItem
  <2> QED BY <2>2 DEF B
<1>8. Range(kids) \subseteq E
  <2>1. Range(kids) \subseteq Range(T.dict[parent]) \cup {id}
    BY SetItemIs
  <2> HIDE DEF kids
  <2> QED BY <1>1, <2>1
<1>9. Range(<<>>) \subseteq E
  BY DEF Range
<1>10. IsTables(T.dict, K, E)
  BY <1>1 DEF IsTables
<1>11. IsTables(SetItem(T.dict, id, <<>>), L, E)
  <2> HIDE DEF E
  <2> QED BY <1>9, <1>10, TablesGrow
<1>12. IsTables(dict, L, E)
  <2>1. L \cup {parent} = L
    BY <1>1
  <2> HIDE DEF kids, L, E
  <2>2. IsTables(dict, L \cup {parent}, E)
    BY <1>8, <1>11, TablesGrow
  <2> QED BY <2>1, <2>2
<1>13. IsFiniteSet(E) /\ E \subseteq Nat /\ Root \in E /\ D \subseteq E
  BY <1>1, <1>4, FS_AddElement
<1> HIDE DEF E, L, node, dict
<1>14. IsHeap(V, [node |-> node, dict |-> dict, clock |-> T.clock + 1])
  BY <1>1, <1>7, <1>12, <1>13, HeapOf DEF IsTables
<1>15. DOMAIN node = E
  BY <1>7
<1> QED BY <1>3, <1>7, <1>13, <1>14, <1>15 DEF HasNodesOf, D

LEMMA SplitEdgeIsHeap ==
    ASSUME NEW V, NEW T, IsHeap(V, T), NEW tokens \in Seq(V), NEW m, IsMatch(T, tokens, m),
           NEW table \in Seq(Blocks), m.split
    PROVE  IsHeap(V, SplitEdge(T, tokens, table, m))
           /\ HasNodesOf(SplitEdge(T, tokens, table, m), T)
<1> DEFINE D == DOMAIN T.node
           K == DOMAIN T.dict
           id == Max(D)
           top == id + 1
           tail == id + 2
           branch == id + 3
           child == T.node[m.child]
           rest == Remaining(tokens, m)
           topNode == RadixNode(SubSeq(child.edge, 1, Aligned(m)),
                                UpTo(child.blocks, FloorBlocks(m)),
                                child.offset, child.last, top)
           tailNode == RadixNode(SubSeq(child.edge, m.common + 1, Len(child.edge)),
                                 SubSeq(child.blocks, FloorBlocks(m) + 1, Len(child.blocks)),
                                 m.common - Aligned(m), child.last, child.kids)
           newNode == RadixNode(rest, NewBlocks(table, m), 0, T.clock + 1, branch)
           toTail == SetItem(<<>>, child.edge[m.common + 1], tail)
           topKids == IF rest = <<>> THEN toTail ELSE SetItem(toTail, Head(rest), branch)
           parent == T.node[m.node].kids
           node1 == SetItem(T.node, top, topNode)
           node2 == SetItem(node1, tail, tailNode)
           node == SetItem(node2, branch, newNode)
           dict1 == SetItem(T.dict, top, topKids)
           dict2 == SetItem(dict1, branch, <<>>)
           kids == SetItem(T.dict[parent], Head(child.edge), top)
           dict == SetItem(dict2, parent, kids)
           E == ((D \cup {top}) \cup {tail}) \cup {branch}
           L == (K \cup {top}) \cup {branch}
<1>1. /\ IsFiniteSet(D) /\ D \subseteq Nat /\ Root \in D /\ T.clock + 1 \in Nat
      /\ T.node \in [D -> NodeOver(V, K)] /\ IsTables(T.dict, K, D)
      /\ m.child \in D /\ parent \in K /\ Range(T.dict[parent]) \subseteq D
      /\ Max(D) \in Nat /\ \A k \in D : k \in Nat /\ k <= Max(D)
  <2> HIDE DEF topNode, tailNode, newNode, topKids, node1, node2, node, dict1, dict2, kids, dict
  <2> QED BY Given
<1>2. SplitEdge(T, tokens, table, m) = [node |-> node, dict |-> dict, clock |-> T.clock + 1]
  BY DEF SplitEdge
<1>3. rest \in Seq(V) /\ NewBlocks(table, m) \in Seq(Blocks)
  BY RestOfMatch
<1> HIDE DEF node1, node2, node, dict1, dict2, kids, dict, topKids, topNode, tailNode, newNode
<1>4. /\ child.edge \in Seq(V) /\ child.blocks \in Seq(Blocks) /\ child.offset \in Int
      /\ child.last \in Nat /\ child.kids \in K
  BY <1>1, HeapParts
<1>5. m.common \in Nat /\ m.common < Len(child.edge)
  BY DEF IsMatch
<1> HIDE DEF D, K, rest, child, parent
<1>6. Len(child.edge) \in Nat /\ Len(child.blocks) \in Nat
  BY <1>4
<1>7. FloorBlocks(m) \in Nat /\ Aligned(m) \in Nat /\ Aligned(m) <= m.common
  BY <1>5, WholeBlocks DEF FloorBlocks, Aligned
<1>8. /\ {top, tail, branch} \subseteq Nat /\ {top, tail, branch} \cap D = {}
  <2>1. id \in Nat /\ \A k \in D : k <= id /\ k \in Nat
    BY <1>1
  <2> HIDE DEF id
  <2> QED BY <2>1
<1> HIDE DEF id, top, tail, branch
<1>9. /\ SubSeq(child.edge, 1, Aligned(m)) \in Seq(V)
      /\ UpTo(child.blocks, FloorBlocks(m)) \in Seq(Blocks)
  <2>1. Aligned(m) \in Int /\ Aligned(m) <= Len(child.edge) /\ 1 \in Nat \ {0}
    BY <1>5, <1>6, <1>7
  <2> QED BY <1>4, <1>7, <2>1, Slice, FirstOnes
<1>10. /\ SubSeq(child.edge, m.common + 1, Len(child.edge)) \in Seq(V)
       /\ SubSeq(child.blocks, FloorBlocks(m) + 1, Len(child.blocks)) \in Seq(Blocks)
       /\ m.common - Aligned(m) \in Int
  <2>1. /\ m.common + 1 \in Nat \ {0} /\ FloorBlocks(m) + 1 \in Nat \ {0}
        /\ Len(child.edge) \in Int /\ Len(child.edge) <= Len(child.edge)
        /\ Len(child.blocks) \in Int /\ Len(child.blocks) <= Len(child.blocks)
    BY <1>5, <1>6, <1>7
  <2>2. m.common - Aligned(m) \in Int
    BY <1>5, <1>7
  <2> QED BY <1>4, <2>1, <2>2, Slice
<1>11. topNode \in NodeOver(V, L)
  BY <1>4, <1>9 DEF RadixNode, NodeOver, topNode
<1>12. tailNode \in NodeOver(V, L)
  BY <1>4, <1>10 DEF RadixNode, NodeOver, tailNode
<1>13. newNode \in NodeOver(V, L)
  BY <1>1, <1>3 DEF RadixNode, NodeOver, newNode
<1>14. T.node \in [D -> NodeOver(V, L)]
  <2>1. K \subseteq L
    OBVIOUS
  <2> HIDE DEF L
  <2> QED BY <1>1, <2>1, NodeOverMore
<1>15. node \in [E -> NodeOver(V, L)] /\ \A n \in D : node[n] = T.node[n]
  <2> DEFINE B == NodeOver(V, L)
             D1 == D \cup {top}
             D2 == D1 \cup {tail}
  <2>1. /\ top \notin D /\ tail \notin D /\ branch \notin D
        /\ D \subseteq D /\ D \subseteq D1 /\ D \subseteq D2
        /\ T.node \in [D -> B] /\ topNode \in B /\ tailNode \in B /\ newNode \in B
        /\ E = D2 \cup {branch}
    BY <1>8, <1>11, <1>12, <1>13, <1>14
  <2> HIDE DEF L, B, E, D2
  <2>2. /\ SetItem(T.node, top, topNode) \in [D \cup {top} -> B]
        /\ \A n \in D : SetItem(T.node, top, topNode)[n] = T.node[n]
    BY <2>1 DEF SetItem
  <2>3. node1 \in [D1 -> B] /\ \A n \in D : node1[n] = T.node[n]
    BY <2>2 DEF node1
  <2> HIDE DEF D1
  <2>4. /\ SetItem(node1, tail, tailNode) \in [D1 \cup {tail} -> B]
        /\ \A n \in D : SetItem(node1, tail, tailNode)[n] = node1[n]
    BY <2>1, <2>3 DEF SetItem
  <2>5. node2 \in [D2 -> B] /\ \A n \in D : node2[n] = node1[n]
    BY <2>4 DEF node2, D2
  <2>6. /\ SetItem(node2, branch, newNode) \in [D2 \cup {branch} -> B]
        /\ \A n \in D : SetItem(node2, branch, newNode)[n] = node2[n]
    BY <2>1, <2>5 DEF SetItem
  <2>7. node \in [E -> B] /\ \A n \in D : node[n] = node2[n]
    BY <2>1, <2>6 DEF node
  <2> QED BY <2>3, <2>5, <2>7 DEF B
<1>16. Range(<<>>) = {}
  BY DEF Range
<1>17. Range(topKids) \subseteq E
  <2>1. Range(toTail) \subseteq {tail}
    BY <1>16, SetItemIs
  <2> HIDE DEF toTail
  <2>2. Range(SetItem(toTail, Head(rest), branch)) \subseteq Range(toTail) \cup {branch}
    BY SetItemIs
  <2> QED BY <2>1, <2>2 DEF topKids
<1>18. Range(kids) \subseteq E
  <2>1. Range(kids) \subseteq Range(T.dict[parent]) \cup {top}
    BY SetItemIs DEF kids
  <2> QED BY <1>1, <2>1
<1>19. IsTables(T.dict, K, E) /\ Range(<<>>) \subseteq E
  BY <1>1, <1>16 DEF IsTables
<1>20. IsTables(dict, L, E)
  <2>1. L \cup {parent} = L
    BY <1>1
  <2> HIDE DEF E
  <2>2. IsTables(dict1, K \cup {top}, E)
    BY <1>17, <1>19, TablesGrow DEF dict1
  <2>3. IsTables(dict2, L, E)
    BY <1>19, <2>2, TablesGrow DEF dict2
  <2> HIDE DEF L
  <2>4. IsTables(dict, L \cup {parent}, E)
    BY <1>18, <2>3, TablesGrow DEF dict
  <2> QED BY <2>1, <2>4
<1>21. IsFiniteSet(E) /\ E \subseteq Nat /\ Root \in E /\ D \subseteq E
  <2>1. IsFiniteSet(E)
    BY <1>1, FS_AddElement
  <2> QED BY <1>1, <1>8, <2>1
<1> HIDE DEF E, L
<1>22. IsHeap(V, [node |-> node, dict |-> dict, clock |-> T.clock + 1])
  BY <1>1, <1>15, <1>20, <1>21, HeapOf DEF IsTables
<1>23. DOMAIN node = E
  BY <1>15
<1> QED BY <1>2, <1>15, <1>21, <1>22, <1>23 DEF HasNodesOf, D

(* All of insert().                                                          *)
LEMMA InsertIsSound ==
    ASSUME NEW V, NEW T, IsHeap(V, T), NEW tokens \in Seq(V), NEW m, IsMatch(T, tokens, m),
           NEW table \in Seq(Blocks)
    PROVE  /\ IsHeap(V, Insert(T, tokens, table, m).tree)
           /\ HasNodesOf(Insert(T, tokens, table, m).tree, T)
           /\ Insert(T, tokens, table, m).new \in Seq(Blocks)
<1>1. NewBlocks(table, m) \in Seq(Blocks) /\ <<>> \in Seq(Blocks)
  <2>1. NewBlocks(table, m) \in Seq(Blocks)
    BY RestOfMatch
  <2> QED BY <2>1
<1>2. CASE m.split
  BY <1>1, <1>2, SplitEdgeIsHeap DEF Insert
<1>3. CASE ~ m.split /\ Remaining(tokens, m) = <<>>
  BY <1>1, <1>3 DEF Insert, HasNodesOf
<1>4. CASE ~ m.split /\ Remaining(tokens, m) # <<>>
  BY <1>1, <1>4, AddBranchIsHeap DEF Insert
<1> QED BY <1>2, <1>3, <1>4

-----------------------------------------------------------------------------
(* evict(): a leaf leaves the tree, and stays in the heap.                   *)
LEMMA WithoutIsHeap ==
    ASSUME NEW V, NEW T, IsHeap(V, T), NEW leaf
    PROVE  IsHeap(V, Without(T, leaf)) /\ Without(T, leaf).node = T.node
<1> DEFINE D == DOMAIN T.node
           K == DOMAIN T.dict
           dict == [d \in K |-> Restrict(T.dict[d], {t \in DOMAIN T.dict[d] : T.dict[d][t] # leaf})]
<1>1. Without(T, leaf) = [node |-> T.node, dict |-> dict, clock |-> T.clock]
  <2>1. T = [node |-> T.node, dict |-> T.dict, clock |-> T.clock]
    BY HeapParts
  <2>2. Without(T, leaf) = [T EXCEPT !.dict = dict]
    BY DEF Without
  <2> HIDE DEF dict
  <2> QED BY <2>1, <2>2
<1>2. /\ IsFiniteSet(D) /\ D \subseteq Nat /\ Root \in D /\ T.clock \in Nat
      /\ T.node \in [D -> NodeOver(V, K)] /\ \A d \in K : Range(T.dict[d]) \subseteq D
  BY DEF IsHeap
<1>3. \A d \in K : Range(dict[d]) \subseteq D
  <2> TAKE d \in K
  <2>1. Range(dict[d]) \subseteq Range(T.dict[d])
    BY DEF Range, Restrict
  <2> QED BY <1>2, <2>1
<1>4. DOMAIN dict = K /\ dict = [d \in K |-> dict[d]]
  OBVIOUS
<1> HIDE DEF D, K, dict
<1>5. IsHeap(V, [node |-> T.node, dict |-> dict, clock |-> T.clock])
  BY <1>2, <1>3, <1>4, HeapOf
<1> QED BY <1>1, <1>5

(* There is a leaf that was used longest ago.                                *)
LEMMA OldestLeaf ==
    ASSUME NEW V, NEW T, IsHeap(V, T), Leaves(T) # {}
    PROVE  /\ LRULeaf(T) \in Leaves(T) /\ LRULeaf(T) \in DOMAIN T.node
           /\ \A o \in Leaves(T) : T.node[LRULeaf(T)].last <= T.node[o].last
<1>1. Leaves(T) \subseteq DOMAIN T.node
  <2>1. {Root} \subseteq DOMAIN T.node /\ {Root} # {}
    BY DEF IsHeap
  <2>2. InTree(T) \subseteq DOMAIN T.node
    BY <2>1, Reachable DEF InTree
  <2> QED BY <2>2 DEF Leaves
<1> DEFINE ages == {T.node[n].last : n \in Leaves(T)}
<1>2. ages \subseteq Nat /\ ages # {}
  BY <1>1, HeapParts
<1>3. \E a \in ages : \A b \in ages : a <= b
  <2> HIDE DEF ages
  <2> QED BY <1>2, LeastNatural
<1>4. \E n \in Leaves(T) : \A o \in Leaves(T) : T.node[n].last <= T.node[o].last
  BY <1>3
<1>5. LRULeaf(T) \in Leaves(T) /\ \A o \in Leaves(T) : T.node[LRULeaf(T)].last <= T.node[o].last
  BY <1>4 DEF LRULeaf
<1> QED BY <1>1, <1>5

(* What evicting until there is room keeps right: every node is still there  *)
(* for those who refer to it.                                                *)
IsRoomFor(V, T, s) == IsHeap(V, s.tree) /\ s.tree.node = T.node /\ IsPool(s.pool)

LEMMA EvictOnceIsSound ==
    ASSUME NEW V, NEW T, NEW s, IsRoomFor(V, T, s), NEW len, NEW n
    PROVE  IsRoomFor(V, T, EvictOnce(s, len, n))
<1>1. CASE CanAllocate(s.pool, len, n) \/ Leaves(s.tree) = {}
  BY <1>1 DEF EvictOnce
<1>2. CASE ~ CanAllocate(s.pool, len, n) /\ Leaves(s.tree) # {}
  <2> DEFINE leaf == LRULeaf(s.tree)
             t == [tree |-> Without(s.tree, leaf),
                   pool |-> DecRefs(s.pool, s.tree.node[leaf].blocks)]
  <2>1. EvictOnce(s, len, n) = t
    BY <1>2 DEF EvictOnce
  <2>2. leaf \in DOMAIN s.tree.node
    BY <1>2, OldestLeaf DEF IsRoomFor
  <2>3. s.tree.node[leaf].blocks \in Seq(Blocks)
    BY <2>2, HeapParts DEF IsRoomFor
  <2>4. IsPool(t.pool)
    BY <2>3, DecRefsIsPool DEF IsRoomFor
  <2>5. IsHeap(V, t.tree) /\ t.tree.node = T.node
    BY WithoutIsHeap DEF IsRoomFor
  <2> QED BY <2>1, <2>4, <2>5 DEF IsRoomFor
<1> QED BY <1>1, <1>2

EvictOf(wanted, s, i) == EvictOnce(s, wanted[1], wanted[2])
EvictingOf == INSTANCE Folding WITH op <- EvictOf

LEMMA RoomIsSound ==
    ASSUME NEW V, NEW T, IsHeap(V, T), NEW p, IsPool(p), NEW len, NEW n
    PROVE  IsRoomFor(V, T, EvictUntilRoom(T, p, len, n))
<1> DEFINE D == DOMAIN T.node
           k == Cardinality(D)
           start == [tree |-> T, pool |-> p]
           room == EvictUntilRoom(T, p, len, n)
<1>1. IsFiniteSet(D) /\ k \in Nat
  BY FS_CardinalityType DEF IsHeap
<1>2. room = EvictingOf!SetFold(<<len, n>>, start, D)
  BY DEF EvictUntilRoom, EvictingOf!SetFold, EvictOf, EvictingOf!FoldSet, FoldSet,
         EvictingOf!MapThenFoldSet, MapThenFoldSet
<1>3. EvictingOf!IsFiniteSet(D) /\ EvictingOf!Cardinality(D) = k
  BY <1>1 DEF IsFiniteSet, EvictingOf!IsFiniteSet, Cardinality, EvictingOf!Cardinality
<1>4. IsRoomFor(V, T, start)
  BY DEF IsRoomFor
<1> HIDE DEF D, start, room
<1>5. PICK e, f : /\ f[0] = start
                  /\ \A i \in 0 .. k - 1 : f[i + 1] = EvictOf(<<len, n>>, f[i], e[i + 1])
                  /\ room = f[k]
  BY <1>2, <1>3, EvictingOf!SetFoldSteps
<1>6. \A i \in 0 .. k - 1 : f[i + 1] = EvictOnce(f[i], len, n)
  BY <1>5 DEF EvictOf
<1> DEFINE P == {i \in 0 .. k : IsRoomFor(V, T, f[i])}
<1>7. 0 \in P
  BY <1>1, <1>4, <1>5
<1>8. ASSUME NEW i \in 0 .. k - 1, i \in P
      PROVE  i + 1 \in P
  <2>1. i + 1 \in 0 .. k
    BY <1>1
  <2>2. IsRoomFor(V, T, EvictOnce(f[i], len, n))
    BY <1>8, EvictOnceIsSound
  <2> QED BY <1>6, <2>1, <2>2
<1> HIDE DEF P, k
<1>9. k \in P
  BY <1>1, <1>7, <1>8, DecsOf!IntervalInduction
<1> QED BY <1>5, <1>9 DEF P, room

-----------------------------------------------------------------------------
(* Lists of requests without repetition.                                     *)
IsList(s) == s \in Seq(Requests) /\ IsInjective(s)

(* What ToSet and Contains say of a list.                                    *)
LEMMA ListLength ==
    ASSUME NEW s \in Seq(Requests)
    PROVE  /\ Len(s) \in Nat /\ DOMAIN s = 1 .. Len(s)
           /\ \A i \in 1 .. Len(s) : s[i] \in Requests /\ s[i] \in ToSet(s)
           /\ ToSet(s) \subseteq Requests
           /\ \A r : Contains(s, r) <=> r \in ToSet(s)
BY DEF ToSet, Contains

(* A list grows by one, and is one still if the request is a new one.        *)
LEMMA Appending ==
    ASSUME NEW s, IsList(s), NEW r \in Requests
    PROVE  /\ Append(s, r) \in Seq(Requests)
           /\ Len(Append(s, r)) = Len(s) + 1
           /\ ToSet(Append(s, r)) = ToSet(s) \cup {r}
           /\ r \notin ToSet(s) => IsList(Append(s, r))
<1> DEFINE t == Append(s, r)
<1>1. /\ t \in Seq(Requests) /\ Len(t) = Len(s) + 1 /\ Len(s) \in Nat
      /\ DOMAIN t = 1 .. Len(s) + 1 /\ DOMAIN s = 1 .. Len(s)
      /\ t[Len(s) + 1] = r /\ \A i \in 1 .. Len(s) : t[i] = s[i]
  BY DEF IsList
<1> HIDE DEF t
<1>2. ToSet(t) = ToSet(s) \cup {r}
  <2>1. ASSUME NEW i \in DOMAIN t PROVE t[i] \in ToSet(s) \cup {r}
    BY <1>1 DEF ToSet
  <2>2. ASSUME NEW x \in ToSet(s) PROVE x \in ToSet(t)
    <3>1. PICK i \in DOMAIN s : x = s[i]
      BY DEF ToSet
    <3>2. i \in DOMAIN t /\ t[i] = x
      BY <1>1, <3>1
    <3> QED BY <3>2 DEF ToSet
  <2>3. r \in ToSet(t)
    BY <1>1 DEF ToSet
  <2> QED BY <2>1, <2>2, <2>3 DEF ToSet
<1>3. ASSUME r \notin ToSet(s) PROVE IsInjective(t)
  BY <1>1, <1>3 DEF IsInjective, ToSet, IsList
<1> QED BY <1>1, <1>2, <1>3 DEF IsList, t

(* Two lists one after the other.                                            *)
LEMMA Joining ==
    ASSUME NEW s \in Seq(Requests), NEW t \in Seq(Requests)
    PROVE  /\ s \o t \in Seq(Requests)
           /\ Len(s \o t) = Len(s) + Len(t)
           /\ ToSet(s \o t) = ToSet(s) \cup ToSet(t)
           /\ IsList(s) /\ IsList(t) /\ ToSet(s) \cap ToSet(t) = {} => IsList(s \o t)
<1> DEFINE u == s \o t
<1>1. /\ u \in Seq(Requests) /\ Len(u) = Len(s) + Len(t) /\ Len(s) \in Nat /\ Len(t) \in Nat
      /\ DOMAIN u = 1 .. Len(s) + Len(t) /\ DOMAIN s = 1 .. Len(s) /\ DOMAIN t = 1 .. Len(t)
      /\ \A i \in 1 .. Len(s) : u[i] = s[i]
      /\ \A i \in 1 .. Len(t) : u[Len(s) + i] = t[i]
  OBVIOUS
<1> HIDE DEF u
<1>2. \A i \in DOMAIN u : i \in DOMAIN s \/ (i - Len(s) \in DOMAIN t /\ u[i] = t[i - Len(s)])
  <2> TAKE i \in DOMAIN u
  <2>1. CASE i <= Len(s)
    BY <1>1, <2>1
  <2>2. CASE i > Len(s)
    <3>1. i - Len(s) \in 1 .. Len(t) /\ Len(s) + (i - Len(s)) = i
      BY <1>1, <2>2
    <3> QED BY <1>1, <3>1
  <2> QED BY <1>1, <2>1, <2>2
<1>3. ToSet(u) = ToSet(s) \cup ToSet(t)
  <2>1. ASSUME NEW i \in DOMAIN u PROVE u[i] \in ToSet(s) \cup ToSet(t)
    BY <1>1, <1>2 DEF ToSet
  <2>2. ASSUME NEW x \in ToSet(s) PROVE x \in ToSet(u)
    <3>1. PICK i \in DOMAIN s : x = s[i]
      BY DEF ToSet
    <3>2. i \in DOMAIN u /\ u[i] = x
      BY <1>1, <3>1
    <3> QED BY <3>2 DEF ToSet
  <2>3. ASSUME NEW x \in ToSet(t) PROVE x \in ToSet(u)
    <3>1. PICK i \in DOMAIN t : x = t[i]
      BY DEF ToSet
    <3>2. Len(s) + i \in DOMAIN u /\ u[Len(s) + i] = x
      BY <1>1, <3>1
    <3> QED BY <3>2 DEF ToSet
  <2> QED BY <2>1, <2>2, <2>3 DEF ToSet
<1>4. ASSUME IsList(s), IsList(t), ToSet(s) \cap ToSet(t) = {}
      PROVE  IsInjective(u)
  <2> SUFFICES ASSUME NEW i \in DOMAIN u, NEW j \in DOMAIN u, u[i] = u[j]
               PROVE  i = j
    BY DEF IsInjective
  <2>1. CASE i \in DOMAIN s /\ j \in DOMAIN s
    BY <1>1, <1>4, <2>1 DEF IsList, IsInjective
  <2>2. CASE i \notin DOMAIN s /\ j \notin DOMAIN s
    <3>1. i - Len(s) = j - Len(s)
      BY <1>2, <1>4, <2>2 DEF IsList, IsInjective
    <3> QED BY <1>1, <3>1
  <2>3. ASSUME NEW k \in DOMAIN u, NEW l \in DOMAIN u, u[k] = u[l],
               k \in DOMAIN s, l \notin DOMAIN s
        PROVE  FALSE
    <3>1. u[k] \in ToSet(s) /\ u[l] \in ToSet(t)
      BY <1>1, <1>2, <2>3 DEF ToSet
    <3> QED BY <1>4, <2>3, <3>1
  <2> QED BY <2>1, <2>2, <2>3
<1> QED BY <1>1, <1>3, <1>4 DEF IsList, u

(* A list without its first.                                                 *)
LEMMA Heading ==
    ASSUME NEW s, IsList(s), s # <<>>
    PROVE  /\ IsList(Tail(s)) /\ Head(s) \in ToSet(s)
           /\ ToSet(Tail(s)) = ToSet(s) \ {Head(s)}
<1> DEFINE t == Tail(s)
<1>1. /\ s \in Seq(Requests) /\ Len(s) \in Nat /\ DOMAIN s = 1 .. Len(s) /\ Len(s) > 0
      /\ Head(s) = s[1] /\ t \in Seq(Requests) /\ Len(t) = Len(s) - 1
      /\ DOMAIN t = 1 .. Len(s) - 1
      /\ \A i \in 1 .. Len(s) - 1 : t[i] = s[i + 1]
  BY DEF IsList
<1> HIDE DEF t
<1>2. IsInjective(t)
  BY <1>1 DEF IsList, IsInjective
<1>3. 1 \in DOMAIN s
  BY <1>1
<1>4. ToSet(t) = ToSet(s) \ {s[1]}
  <2>1. ASSUME NEW i \in DOMAIN t PROVE t[i] \in ToSet(s) \ {s[1]}
    <3>1. i + 1 \in DOMAIN s /\ i + 1 # 1 /\ t[i] = s[i + 1]
      BY <1>1
    <3> QED BY <1>3, <3>1 DEF IsList, IsInjective, ToSet
  <2>2. ASSUME NEW x \in ToSet(s), x # s[1] PROVE x \in ToSet(t)
    <3>1. PICK i \in DOMAIN s : x = s[i]
      BY DEF ToSet
    <3>2. i - 1 \in DOMAIN t /\ t[i - 1] = x
      BY <1>1, <2>2, <3>1
    <3> QED BY <3>2 DEF ToSet
  <2> QED BY <2>1, <2>2 DEF ToSet
<1> QED BY <1>1, <1>2, <1>3, <1>4 DEF IsList, t, ToSet

KeepOf == INSTANCE Folding WITH op <- Keep

(* Only, as the fold it is.                                                  *)
LEMMA OnlySteps ==
    ASSUME NEW list \in Seq(Requests), NEW S
    PROVE  \E f : /\ f[0] = <<>>
                  /\ \A i \in 0 .. Len(list) - 1 : f[i + 1] = Keep(S, f[i], list[i + 1])
                  /\ Only(list, S) = f[Len(list)]
<1>1. Only(list, S) = KeepOf!Fold(S, <<>>, list)
  BY DEF Only, KeepOf!Fold, FoldLeft, KeepOf!MapThenFoldSet, MapThenFoldSet,
       KeepOf!Max, Max
<1>2. Len(list) \in Nat /\ DOMAIN list = 1 .. Len(list)
  OBVIOUS
<1> QED BY <1>1, <1>2, KeepOf!FoldSteps

(* Only takes those of S out of a list, in a list.                           *)
LEMMA OnlyThose ==
    ASSUME NEW list, IsList(list), NEW S
    PROVE  /\ IsList(Only(list, S))
           /\ ToSet(Only(list, S)) = ToSet(list) \cap S
           /\ Len(Only(list, S)) <= Len(list)
<1>1. /\ Len(list) \in Nat /\ DOMAIN list = 1 .. Len(list) /\ list \in Seq(Requests)
      /\ \A i \in 1 .. Len(list) : list[i] \in Requests
  BY ListLength DEF IsList
<1>2. PICK f : /\ f[0] = <<>>
               /\ \A i \in 0 .. Len(list) - 1 : f[i + 1] = Keep(S, f[i], list[i + 1])
               /\ Only(list, S) = f[Len(list)]
  BY <1>1, OnlySteps
<1> DEFINE First(i) == {list[j] : j \in 1 .. i}
           P == {i \in 0 .. Len(list) : /\ IsList(f[i])
                                        /\ ToSet(f[i]) = First(i) \cap S
                                        /\ Len(f[i]) <= i}
<1>3. 0 \in P
  <2>1. IsList(<<>>) /\ ToSet(<<>>) = {} /\ Len(<<>>) = 0
    BY DEF IsList, ToSet, IsInjective
  <2>2. First(0) = {}
    OBVIOUS
  <2> HIDE DEF First
  <2> QED BY <1>1, <1>2, <2>1, <2>2
<1>4. ASSUME NEW i \in 0 .. Len(list) - 1, i \in P
      PROVE  i + 1 \in P
  <2> DEFINE r == list[i + 1]
  <2>1. /\ i + 1 \in 0 .. Len(list) /\ i + 1 \in 1 .. Len(list) /\ i \in Nat
        /\ r \in Requests
    BY <1>1
  <2>2. First(i + 1) = First(i) \cup {r}
    <3>1. 1 .. i + 1 = (1 .. i) \cup {i + 1}
      BY <2>1
    <3> QED BY <3>1
  <2>3. r \notin First(i)
    BY <1>1, <2>1 DEF IsList, IsInjective
  <2>4. f[i + 1] = Keep(S, f[i], r)
    BY <1>2
  <2>5. IsList(f[i]) /\ ToSet(f[i]) = First(i) \cap S /\ Len(f[i]) <= i /\ Len(f[i]) \in Nat
    BY <1>4, ListLength DEF IsList
  <2> HIDE DEF First, P, r
  <2>6. /\ IsList(f[i + 1])
        /\ ToSet(f[i + 1]) = First(i + 1) \cap S
        /\ Len(f[i + 1]) <= i + 1
    <3>1. CASE r \in S
      <4>1. f[i + 1] = Append(f[i], r) /\ r \notin ToSet(f[i])
        BY <2>3, <2>4, <2>5, <3>1 DEF Keep
      <4>2. /\ IsList(f[i + 1]) /\ Len(f[i + 1]) = Len(f[i]) + 1
            /\ ToSet(f[i + 1]) = ToSet(f[i]) \cup {r}
        BY <2>1, <2>5, <4>1, Appending
      <4> QED BY <2>1, <2>2, <2>5, <3>1, <4>2
    <3>2. CASE r \notin S
      <4>1. f[i + 1] = f[i]
        BY <2>4, <3>2 DEF Keep
      <4> QED BY <2>1, <2>2, <2>5, <3>2, <4>1
    <3> QED BY <3>1, <3>2
  <2> QED BY <2>1, <2>6 DEF P
<1>5. Len(list) \in P
  <2> HIDE DEF P, First
  <2>1. Len(list) \in Nat
    BY <1>1
  <2>2. \A i \in 0 .. Len(list) : i \in P
    BY <1>3, <1>4, <2>1, KeepOf!IntervalInduction
  <2> QED BY <2>1, <2>2
<1>6. First(Len(list)) = ToSet(list)
  BY <1>1 DEF ToSet
<1> HIDE DEF First
<1> QED BY <1>2, <1>5, <1>6

-----------------------------------------------------------------------------
(* The fields of a request, of which the proofs need few.                    *)
Fields == {"prompt", "max", "table", "offset", "match", "progress", "gen"}
RequestsAreTyped ==
    /\ DOMAIN req = Requests
    /\ \A r \in Requests : /\ DOMAIN req[r] = Fields
                           /\ req[r].max \in Nat /\ req[r].gen \in Nat

GrowOf(p, s, r) == Grow(s, r)
GrowingOf == INSTANCE Folding WITH op <- GrowOf

(* What growing leaves as it was.                                            *)
OnlyGrows(s) ==
    /\ DOMAIN s = {"tree", "pool", "req", "oom"}
    /\ DOMAIN s.req = Requests
    /\ \A r \in Requests : /\ DOMAIN s.req[r] = Fields
                           /\ s.req[r].prompt = req[r].prompt
                           /\ s.req[r].max = req[r].max
                           /\ s.req[r].gen = req[r].gen
                           /\ r \notin ToSet(running) => s.req[r].table = req[r].table
    /\ s.oom \in Seq(Requests) /\ ToSet(s.oom) \subseteq ToSet(running)

(* One step of the loop over the running requests.                           *)
LEMMA GrowStep ==
    ASSUME NEW s, OnlyGrows(s), NEW r \in Requests, r \in ToSet(running)
    PROVE  OnlyGrows(Grow(s, r))
<1> DEFINE len == Len(s.req[r].table)
           total == TotalTokens(s.req[r])
           room == EvictUntilRoom(s.tree, s.pool, len, total)
           roomy == [s EXCEPT !.tree = room.tree, !.pool = room.pool]
<1>1. CASE total <= Capacity(s.req[r])
  BY <1>1 DEF Grow
<1>2. OnlyGrows(roomy) /\ roomy.oom = s.oom /\ roomy.req = s.req
  <2> HIDE DEF room
  <2> QED BY DEF OnlyGrows
<1>3. CASE ~ (total <= Capacity(s.req[r])) /\ ~CanAllocate(room.pool, len, total)
  <2> DEFINE t == [roomy EXCEPT !.oom = Append(@, r)]
  <2>1. Grow(s, r) = t
    BY <1>3 DEF Grow
  <2> HIDE DEF roomy
  <2>2. OnlyGrows(t)
    <3>1. /\ DOMAIN t = DOMAIN roomy /\ t.req = roomy.req /\ t.oom = Append(roomy.oom, r)
      BY <1>2 DEF OnlyGrows
    <3>2. t.oom \in Seq(Requests) /\ ToSet(t.oom) \subseteq ToSet(running)
      <4>1. roomy.oom \in Seq(Requests) /\ ToSet(roomy.oom) \subseteq ToSet(running)
        BY <1>2 DEF OnlyGrows
      <4> HIDE DEF t
      <4> QED BY <3>1, <4>1 DEF ToSet
    <3>3. t.req = s.req /\ DOMAIN t = DOMAIN s
      BY <1>2, <3>1 DEF OnlyGrows
    <3> HIDE DEF t
    <3> QED BY <3>2, <3>3 DEF OnlyGrows
  <2> QED BY <2>1, <2>2
<1>4. CASE ~ (total <= Capacity(s.req[r])) /\ CanAllocate(room.pool, len, total)
  <2> DEFINE t == [roomy EXCEPT !.pool = Allocate(@, len, total),
                                !.req[r].table = @ \o Allocated(room.pool, len, total)]
  <2>1. Grow(s, r) = t
    BY <1>4 DEF Grow
  <2> HIDE DEF roomy, room, len, total
  <2>2. OnlyGrows(t)
    <3>1. /\ DOMAIN t = DOMAIN roomy /\ t.oom = roomy.oom /\ DOMAIN t.req = Requests
      BY <1>2 DEF OnlyGrows
    <3>2. \A q \in Requests :
              /\ DOMAIN t.req[q] = Fields
              /\ t.req[q].prompt = req[q].prompt
              /\ t.req[q].max = req[q].max
              /\ t.req[q].gen = req[q].gen
              /\ q \notin ToSet(running) => t.req[q].table = req[q].table
      BY <1>2 DEF OnlyGrows, Fields
    <3>3. DOMAIN t = DOMAIN s /\ t.oom = s.oom
      BY <1>2, <3>1 DEF OnlyGrows
    <3> HIDE DEF t
    <3> QED BY <3>1, <3>2, <3>3 DEF OnlyGrows
  <2> QED BY <2>1, <2>2
<1> QED BY <1>1, <1>3, <1>4

(* All of the loop.                                                          *)
LEMMA GrownOnlyGrows ==
    ASSUME RequestsAreTyped, running \in Seq(Requests)
    PROVE  OnlyGrows(Grown)
<1> DEFINE start == [tree |-> tree, pool |-> pool, req |-> req, oom |-> <<>>]
<1>1. /\ Len(running) \in Nat /\ DOMAIN running = 1 .. Len(running)
      /\ \A i \in 1 .. Len(running) : running[i] \in Requests /\ running[i] \in ToSet(running)
  BY ListLength
<1>2. Grown = GrowingOf!Fold(0, start, running)
  BY DEF Grown, GrowOf, GrowingOf!Fold, FoldLeft,
         GrowingOf!MapThenFoldSet, MapThenFoldSet, GrowingOf!Max, Max
<1>3. OnlyGrows(start)
  BY DEF OnlyGrows, RequestsAreTyped, ToSet
<1> HIDE DEF start
<1>4. PICK f : /\ f[0] = start
               /\ \A i \in 0 .. Len(running) - 1 : f[i + 1] = Grow(f[i], running[i + 1])
               /\ Grown = f[Len(running)]
  BY <1>1, <1>2, GrowingOf!FoldSteps DEF GrowOf
<1> DEFINE P == {i \in 0 .. Len(running) : OnlyGrows(f[i])}
<1>5. 0 \in P
  BY <1>1, <1>3, <1>4
<1>6. ASSUME NEW i \in 0 .. Len(running) - 1, i \in P
      PROVE  i + 1 \in P
  <2>1. i + 1 \in 1 .. Len(running) /\ i + 1 \in 0 .. Len(running)
    BY <1>1
  <2>2. OnlyGrows(Grow(f[i], running[i + 1]))
    BY <1>1, <1>6, <2>1, GrowStep
  <2> QED BY <1>4, <2>1, <2>2
<1> HIDE DEF P
<1>7. Len(running) \in Nat
  BY <1>1
<1>8. \A i \in 0 .. Len(running) : i \in P
  BY <1>5, <1>6, <1>7, GrowingOf!IntervalInduction
<1> QED BY <1>4, <1>7, <1>8 DEF P

GiveOf(p, s, r) == Give(s, r)
GivingOf == INSTANCE Folding WITH op <- GiveOf

(* Chunks are given to requests in prefill only.                             *)
LEMMA ChunksOfThePrefilling ==
    ASSUME prefilling \in Seq(Requests)
    PROVE  DOMAIN ChunkEnds \subseteq ToSet(prefilling)
<1> DEFINE start == [budget |-> MaxStep, end |-> <<>>]
<1>1. /\ Len(prefilling) \in Nat /\ DOMAIN prefilling = 1 .. Len(prefilling)
      /\ \A i \in 1 .. Len(prefilling) : prefilling[i] \in ToSet(prefilling)
  BY ListLength
<1>2. ChunkEnds = GivingOf!Fold(0, start, prefilling).end
  BY DEF ChunkEnds, GiveOf, GivingOf!Fold, FoldLeft,
         GivingOf!MapThenFoldSet, MapThenFoldSet, GivingOf!Max, Max
<1>3. start.end = <<>>
  OBVIOUS
<1> HIDE DEF start
<1>4. PICK f : /\ f[0] = start
               /\ \A i \in 0 .. Len(prefilling) - 1 : f[i + 1] = Give(f[i], prefilling[i + 1])
               /\ ChunkEnds = f[Len(prefilling)].end
  BY <1>1, <1>2, GivingOf!FoldSteps DEF GiveOf
<1> DEFINE P == {i \in 0 .. Len(prefilling) : DOMAIN f[i].end \subseteq ToSet(prefilling)}
<1>5. 0 \in P
  BY <1>1, <1>3, <1>4
<1>6. ASSUME NEW i \in 0 .. Len(prefilling) - 1, i \in P
      PROVE  i + 1 \in P
  <2>1. i + 1 \in 1 .. Len(prefilling) /\ i + 1 \in 0 .. Len(prefilling)
    BY <1>1
  <2>2. DOMAIN Give(f[i], prefilling[i + 1]).end \subseteq ToSet(prefilling)
    BY <1>1, <1>6, <2>1 DEF Give
  <2> QED BY <1>4, <2>1, <2>2
<1> HIDE DEF P
<1>7. Len(prefilling) \in Nat
  BY <1>1
<1>8. \A i \in 0 .. Len(prefilling) : i \in P
  BY <1>5, <1>6, <1>7, GivingOf!IntervalInduction
<1> QED BY <1>4, <1>7, <1>8 DEF P

-----------------------------------------------------------------------------
(* What a future may be, and where a request may be.                         *)
Outcomes == {"new", "pending"} \cup Settled
FuturesAreTyped == future \in [Requests -> Outcomes]

ListsAreTyped ==
    /\ IsList(queue) /\ IsList(prefilling) /\ IsList(running)
    /\ ToSet(queue) \cap ToSet(prefilling) = {}
    /\ ToSet(queue) \cap ToSet(running) = {}
    /\ ToSet(prefilling) \cap ToSet(running) = {}
    /\ Len(prefilling) + Len(running) <= MaxBatch

(* Who is in the engine waits for an answer, or did; tokens come with the    *)
(* running batch, and blocks with admission.                                 *)
IsInPlace(r) ==
    /\ r \in ToSet(queue) \cup ToSet(prefilling) \cup ToSet(running)
          => future[r] \in {"pending", "timeout"}
    /\ future[r] = "new" \/ r \in ToSet(queue) \cup ToSet(prefilling) => req[r].gen = 0
    /\ r \in ToSet(running) => req[r].gen > 0
    /\ req[r].table # <<>> => r \in ToSet(prefilling) \cup ToSet(running)
RequestsAreInPlace == \A r \in Requests : IsInPlace(r)

(* The inductive invariant.                                                  *)
EngineInv ==
    FuturesAreTyped /\ ListsAreTyped /\ RequestsAreTyped /\ RequestsAreInPlace

(* What set_result() may change.                                             *)
LEMMA SettleSettlesPending ==
    ASSUME FuturesAreTyped, NEW R, NEW v \in Settled
    PROVE  /\ Settle(R, v) \in [Requests -> Outcomes]
           /\ \A r \in Requests : future[r] \in Settled => Settle(R, v)[r] = future[r]
BY DEF FuturesAreTyped, Settle, Outcomes, Settled

(* One step: every way in which a future changes.                            *)
LEMMA Step ==
    ASSUME FuturesAreTyped, [Next]_vars
    PROVE  /\ FuturesAreTyped'
           /\ \A r \in Requests : future[r] \in Settled => future'[r] = future[r]
<1>1. CASE UNCHANGED future
  BY <1>1 DEF FuturesAreTyped
<1>2. ASSUME NEW R, NEW v \in Settled, future' = Settle(R, v)
      PROVE  /\ FuturesAreTyped'
             /\ \A r \in Requests : future[r] \in Settled => future'[r] = future[r]
  BY <1>2, SettleSettlesPending DEF FuturesAreTyped
<1>3. ASSUME NEW r \in Requests, NEW p \in Prompts, NEW n \in Limits, Submit(r, p, n)
      PROVE  /\ FuturesAreTyped'
             /\ \A q \in Requests : future[q] \in Settled => future'[q] = future[q]
  BY <1>3 DEF FuturesAreTyped, Submit, Outcomes, Settled
<1>4. ASSUME NEW r \in Requests, Timeout(r)
      PROVE  /\ FuturesAreTyped'
             /\ \A q \in Requests : future[q] \in Settled => future'[q] = future[q]
  BY <1>4 DEF FuturesAreTyped, Timeout, Outcomes, Settled
<1>5. ASSUME Shutdown
      PROVE  \E R : future' = Settle(R, "cancelled")
  BY <1>5 DEF Shutdown
<1>6. ASSUME NEW R, NEW S, future' = Answered(R, S)
      PROVE  /\ FuturesAreTyped'
             /\ \A r \in Requests : future[r] \in Settled => future'[r] = future[r]
  <2>1. "error" \in Settled /\ "result" \in Settled
    BY DEF Settled
  <2> QED BY <1>6, <2>1, SettleSettlesPending DEF FuturesAreTyped, Answered
<1>7. ASSUME Wake \/ Admit \/ AdmitNoMore \/ Prefill \/ Sleep
      PROVE  UNCHANGED future
  <2>1. CASE Wake
    BY <2>1 DEF Wake
  <2>2. CASE Admit
    BY <2>2 DEF Admit
  <2>3. CASE AdmitNoMore
    BY <2>3 DEF AdmitNoMore
  <2>4. CASE Prefill
    BY <2>4 DEF Prefill
  <2>5. CASE Sleep
    BY <2>5 DEF Sleep
  <2> QED BY <1>7, <2>1, <2>2, <2>3, <2>4, <2>5
<1>8. CASE Decode \/ DecodeNobody \/ Crash \/ FinishFails
  <2>1. CASE Decode
    <3>1. PICK g, alive, eos : DecodeFor(g, alive, eos)
      BY <2>1 DEF Decode
    <3> QED BY <1>6, <3>1 DEF DecodeFor
  <2>2. CASE DecodeNobody \/ Crash \/ FinishFails
    <3>1. PICK g, freed, done : FailAll(g, freed, done)
      BY <2>2 DEF DecodeNobody, Crash, FinishFails
    <3> QED BY <1>6, <3>1 DEF FailAll
  <2> QED BY <1>8, <2>1, <2>2
<1>9. "cancelled" \in Settled /\ "error" \in Settled
  BY DEF Settled
<1> QED BY <1>1, <1>2, <1>3, <1>4, <1>5, <1>7, <1>8, <1>9 DEF Next, Scheduler, vars

(* ch10:125: a future is settled once, whichever of the ways out of the      *)
(* engine a request takes and whether or not its client has given up.        *)
THEOREM FuturesAreSettledOnce == Spec => SettledOnce
<1>1. Init => FuturesAreTyped
  BY DEF Init, FuturesAreTyped, Outcomes
<1>2. FuturesAreTyped /\ [Next]_vars => FuturesAreTyped'
  BY Step
<1>3. FuturesAreTyped /\ [Next]_vars =>
          [\A r \in Requests : future[r] \in Settled => future'[r] = future[r]]_vars
  BY Step
<1> QED BY <1>1, <1>2, <1>3, PTL DEF Spec, SettledOnce

-----------------------------------------------------------------------------
(* The length of a list is the number of those in it.                        *)
LEMMA ListSize ==
    ASSUME NEW s, IsList(s)
    PROVE  IsFiniteSet(ToSet(s)) /\ Cardinality(ToSet(s)) = Len(s)
<1>1. Len(s) \in Nat /\ DOMAIN s = 1 .. Len(s) /\ s \in Seq(Requests)
  BY DEF IsList
<1>2. s \in Bijection(1 .. Len(s), ToSet(s))
  <2>1. s \in [1 .. Len(s) -> ToSet(s)]
    BY <1>1 DEF ToSet
  <2>2. s \in Injection(1 .. Len(s), ToSet(s))
    BY <1>1, <2>1 DEF Injection, IsInjective, IsList
  <2>3. s \in Surjection(1 .. Len(s), ToSet(s))
    BY <1>1, <2>1 DEF Surjection, ToSet
  <2> QED BY <2>2, <2>3 DEF Bijection
<1>3. IsFiniteSet(1 .. Len(s)) /\ Cardinality(1 .. Len(s)) = Len(s)
  BY <1>1, FS_Interval
<1> QED BY <1>2, <1>3, FS_Bijection DEF ExistsBijection

(* Everyone in one of the lists.                                             *)
LEMMA WhoIsOwned ==
    ASSUME ListsAreTyped
    PROVE  Owned = ToSet(queue) \cup ToSet(prefilling) \cup ToSet(running)
<1>1. /\ queue \in Seq(Requests) /\ prefilling \in Seq(Requests) /\ running \in Seq(Requests)
      /\ queue \o prefilling \in Seq(Requests)
  BY Joining DEF ListsAreTyped, IsList
<1>2. /\ ToSet(queue \o prefilling) = ToSet(queue) \cup ToSet(prefilling)
      /\ ToSet((queue \o prefilling) \o running) = ToSet(queue \o prefilling) \cup ToSet(running)
  BY <1>1, Joining
<1> QED BY <1>2 DEF Owned

(* What letting go of everything leaves, when the step has come to requests. *)
IsReqOf(requests) ==
    \A r \in Requests : /\ DOMAIN requests[r] = Fields
                        /\ requests[r].max \in Nat /\ requests[r].gen \in Nat
                        /\ r \notin ToSet(running) => requests[r].table = req[r].table

LEMMA AllIsLetGo ==
    ASSUME EngineInv, NEW p, NEW requests, NEW list, LetGo(p, requests, list),
           IsReqOf(requests)
    PROVE  /\ RequestsAreTyped' /\ ListsAreTyped' /\ queue' = <<>>
           /\ ToSet(queue') = {} /\ ToSet(prefilling') = {} /\ ToSet(running') = {}
           /\ \A r \in Requests : /\ req'[r].max = requests[r].max
                                  /\ req'[r].gen = requests[r].gen
                                  /\ req'[r].table = <<>>
<1>1. IsList(<<>>) /\ ToSet(<<>>) = {} /\ Len(<<>>) = 0
  BY DEF IsList, ToSet, IsInjective
<1>2. Owned = ToSet(queue) \cup ToSet(prefilling) \cup ToSet(running)
  BY WhoIsOwned DEF EngineInv
<1>3. MaxBatch \in Nat
  BY EngineAssumption
<1>4. ListsAreTyped' /\ queue' = <<>>
      /\ ToSet(queue') = {} /\ ToSet(prefilling') = {} /\ ToSet(running') = {}
  <2>1. queue' = <<>> /\ prefilling' = <<>> /\ running' = <<>>
    BY DEF LetGo
  <2> QED BY <1>1, <1>3, <2>1 DEF ListsAreTyped
<1>5. DOMAIN req' = Requests
  BY DEF LetGo
<1>6. ASSUME NEW r \in Requests
      PROVE  /\ DOMAIN req'[r] = Fields
             /\ req'[r].max = requests[r].max /\ req'[r].gen = requests[r].gen
             /\ req'[r].table = <<>>
  <2>1. DOMAIN requests[r] = Fields
    BY DEF IsReqOf
  <2>2. CASE r \in Owned
    <3>1. req'[r] = [requests[r] EXCEPT !.table = <<>>, !.match = NoMatch]
      BY <2>2 DEF LetGo
    <3> QED BY <2>1, <3>1 DEF Fields
  <2>3. CASE r \notin Owned
    <3>1. req'[r] = requests[r]
      BY <2>3 DEF LetGo
    <3> QED BY <1>2, <2>1, <2>3, <3>1 DEF EngineInv, RequestsAreInPlace, IsInPlace, IsReqOf
  <2> QED BY <2>2, <2>3
<1>7. RequestsAreTyped'
  BY <1>5, <1>6 DEF RequestsAreTyped, IsReqOf
<1> QED BY <1>4, <1>6, <1>7

(* Shutdown begins from what there is.                                       *)
LEMMA ReqIsReq == EngineInv => IsReqOf(req)
BY DEF EngineInv, RequestsAreTyped, IsReqOf

(* What prefill_step comes to for the lists: those of S join the batch, with *)
(* one token each.                                                           *)
Joins(S) ==
    /\ IsList(prefilling') /\ IsList(running')
    /\ ToSet(prefilling') = ToSet(prefilling) \ S
    /\ ToSet(running') = ToSet(running) \cup S
    /\ Len(prefilling') + Len(running') = Len(prefilling) + Len(running)
    /\ RequestsAreTyped'
    /\ \A r \in Requests :
          /\ req'[r].max = req[r].max /\ req'[r].table = req[r].table
          /\ req'[r].gen = IF r \in S THEN 1 ELSE req[r].gen

(* Each prefill is such a step, S being those whose last chunk it gave.      *)
LEMMA PrefillMoves ==
    ASSUME EngineInv, Prefill
    PROVE  \E S \in SUBSET ToSet(prefilling) : Joins(S)
<1> DEFINE end == ChunkEnds
           last == {r \in DOMAIN end : end[r] = Len(req[r].prompt)}
           done == Only(prefilling, last)
<1>1. /\ IsList(prefilling) /\ IsList(running)
      /\ ToSet(prefilling) \subseteq Requests /\ ToSet(running) \subseteq Requests
      /\ ToSet(prefilling) \cap ToSet(running) = {}
  BY ListLength DEF EngineInv, ListsAreTyped, IsList
<1>2. DOMAIN end \subseteq ToSet(prefilling)
  BY <1>1, ChunksOfThePrefilling DEF IsList
<1>3. /\ prefilling' = Only(prefilling, Requests \ last) /\ running' = running \o done
      /\ req' = [r \in Requests |->
                      IF r \notin DOMAIN end THEN req[r]
                      ELSE IF r \notin last THEN [req[r] EXCEPT !.progress = end[r]]
                      ELSE [req[r] EXCEPT !.progress = end[r], !.gen = 1, !.match = NoMatch]]
  BY DEF Prefill
<1>4. last \subseteq DOMAIN end
  OBVIOUS
<1>5. \A r \in Requests :
         /\ DOMAIN req[r] = Fields /\ req[r].max \in Nat /\ req[r].gen \in Nat
  BY DEF EngineInv, RequestsAreTyped
<1> HIDE DEF end, last
<1>6. last \in SUBSET ToSet(prefilling)
  BY <1>2, <1>4
<1>7. /\ IsList(prefilling') /\ ToSet(prefilling') = ToSet(prefilling) \ last
      /\ IsList(done) /\ ToSet(done) = last
  <2>1. ToSet(prefilling) \cap last = last
    BY <1>6
  <2>2. ToSet(prefilling) \cap (Requests \ last) = ToSet(prefilling) \ last
    BY <1>1
  <2> QED BY <1>1, <1>3, <2>1, <2>2, OnlyThose
<1> HIDE DEF done
<1>8. IsList(running') /\ ToSet(running') = ToSet(running) \cup last
  BY <1>1, <1>3, <1>6, <1>7, Joining DEF IsList
<1>9. Len(prefilling') + Len(running') = Len(prefilling) + Len(running)
  <2>1. /\ Len(prefilling') = Cardinality(ToSet(prefilling) \ last)
        /\ Len(prefilling) = Cardinality(ToSet(prefilling))
        /\ Len(done) = Cardinality(last)
        /\ IsFiniteSet(ToSet(prefilling) \ last) /\ IsFiniteSet(last)
    BY <1>1, <1>7, ListSize
  <2>2. /\ (ToSet(prefilling) \ last) \cup last = ToSet(prefilling)
        /\ (ToSet(prefilling) \ last) \cap last = {}
    BY <1>6
  <2>3. Len(prefilling) = Len(prefilling') + Len(done)
    <3>1. Cardinality(ToSet(prefilling)) =
              Cardinality(ToSet(prefilling) \ last) + Cardinality(last) - 0
      BY <2>1, <2>2, FS_Union, FS_EmptySet
    <3>2. Cardinality(ToSet(prefilling) \ last) \in Nat /\ Cardinality(last) \in Nat
      BY <2>1, FS_CardinalityType
    <3> QED BY <2>1, <3>1, <3>2
  <2>4. Len(running') = Len(running) + Len(done)
    BY <1>1, <1>3, <1>7, Joining DEF IsList
  <2>5. Len(running) \in Nat /\ Len(done) \in Nat /\ Len(prefilling') \in Nat
    BY <1>1, <1>7, ListLength DEF IsList
  <2> QED BY <2>3, <2>4, <2>5
<1>10. ASSUME NEW r \in Requests
       PROVE  /\ DOMAIN req'[r] = Fields
              /\ req'[r].max = req[r].max /\ req'[r].table = req[r].table
              /\ req'[r].gen = IF r \in last THEN 1 ELSE req[r].gen
  <2>1. DOMAIN req'[r] = Fields
    BY <1>3, <1>5
  <2>2. req'[r].max = req[r].max /\ req'[r].table = req[r].table
    BY <1>3, <1>4, <1>5 DEF Fields
  <2>3. req'[r].gen = IF r \in last THEN 1 ELSE req[r].gen
    BY <1>3, <1>4, <1>5 DEF Fields
  <2> QED BY <2>1, <2>2, <2>3
<1>11. RequestsAreTyped'
  <2>1. DOMAIN req' = Requests
    BY <1>3
  <2>2. \A r \in Requests : req'[r].max \in Nat /\ req'[r].gen \in Nat
    BY <1>5, <1>10
  <2> QED BY <1>10, <2>1, <2>2 DEF RequestsAreTyped
<1>12. Joins(last)
  BY <1>7, <1>8, <1>9, <1>10, <1>11 DEF Joins
<1> QED BY <1>6, <1>12

(* What decode_one_step comes to: everyone but D gets a token, and of those  *)
(* only F, with as many as they asked for, or at their end, leave with D.    *)
Serves(D, F) ==
    /\ D \cap F = {}
    /\ IsList(running') /\ Len(running') <= Len(running)
    /\ ToSet(running') = ToSet(running) \ (D \cup F)
    /\ RequestsAreTyped'
    /\ \A r \in Requests :
          /\ req'[r].max = req[r].max
          /\ req'[r].gen = IF r \in ToSet(running) \ D THEN req[r].gen + 1
                           ELSE req[r].gen
          /\ r \in D \cup F => req'[r].table = <<>>
          /\ r \notin ToSet(running) => req'[r].table = req[r].table
    /\ \A r \in ToSet(running) \ (D \cup F) : req'[r].gen < req[r].max
    /\ future' = Answered(D, F)
    /\ metrics' = CountEnds(D, F)

(* Each decode is such a step, D being those who were refused a block.       *)
LEMMA DecodeMoves ==
    ASSUME EngineInv, Decode
    PROVE  \E D, F \in SUBSET ToSet(running) : Serves(D, F)
<1> DEFINE g == Grown
           alive == Left(g)
<1>1. PICK eos \in SUBSET ToSet(alive) : DecodeFor(g, alive, eos)
  BY DEF Decode
<1>2. /\ IsList(running) /\ ToSet(running) \subseteq Requests
      /\ running \in Seq(Requests) /\ RequestsAreTyped
  BY ListLength DEF EngineInv, ListsAreTyped, IsList
<1>3. OnlyGrows(g)
  BY <1>2, GrownOnlyGrows
<1>4. alive = Only(running, Requests \ ToSet(g.oom))
  BY DEF Left
<1> HIDE DEF g, alive
<1> DEFINE D == ToSet(g.oom)
           finished == Finished(g, alive, eos)
           F == ToSet(finished)
           counted == Counted(g, alive)
<1>5. /\ running' = Only(alive, Requests \ F)
      /\ req' = Freed(counted, g.oom \o finished)
      /\ future' = Answered(D, F) /\ metrics' = CountEnds(D, F)
  BY <1>1 DEF DecodeFor
<1>6. IsList(alive) /\ ToSet(alive) = ToSet(running) \ D /\ Len(alive) <= Len(running)
  BY <1>2, <1>4, OnlyThose
<1>7. /\ finished = Only(alive, eos \cup {r \in Requests : g.req[r].gen + 1 >= g.req[r].max})
  BY DEF Finished
<1> HIDE DEF finished
<1>8. /\ IsList(finished)
      /\ F = ToSet(alive) \cap (eos \cup {r \in Requests : g.req[r].gen + 1 >= g.req[r].max})
  BY <1>6, <1>7, OnlyThose
<1>9. D \in SUBSET ToSet(running) /\ F \in SUBSET ToSet(running) /\ D \cap F = {}
  BY <1>3, <1>6, <1>8 DEF OnlyGrows
<1>10. ToSet(g.oom \o finished) = D \cup F
  BY <1>3, <1>8, Joining DEF OnlyGrows, IsList
<1> HIDE DEF D, F
<1>11. /\ IsList(running') /\ ToSet(running') = ToSet(running) \ (D \cup F)
       /\ Len(running') <= Len(running)
  <2>1. /\ IsList(running') /\ ToSet(running') = ToSet(alive) \cap (Requests \ F)
        /\ Len(running') <= Len(alive)
    BY <1>5, <1>6, OnlyThose
  <2>2. Len(running') \in Nat /\ Len(alive) \in Nat /\ Len(running) \in Nat
    BY <1>2, <1>6, <2>1, ListLength DEF IsList
  <2> QED BY <1>2, <1>6, <2>1, <2>2
<1>12. \A r \in Requests : Contains(alive, r) <=> r \in ToSet(running) \ D
  BY <1>6, ListLength DEF IsList
<1>13. \A r \in Requests :
          req'[r] = IF r \in D \cup F THEN [counted[r] EXCEPT !.table = <<>>] ELSE counted[r]
  BY <1>5, <1>10 DEF Freed
<1>14. \A r \in Requests :
          counted[r] = IF r \in ToSet(running) \ D THEN [g.req[r] EXCEPT !.gen = @ + 1]
                       ELSE g.req[r]
  BY <1>12 DEF Counted
<1>15. DOMAIN req' = Requests
  BY <1>5 DEF Freed
<1> HIDE DEF counted
<1>16. ASSUME NEW r \in Requests
       PROVE  /\ DOMAIN req'[r] = Fields
              /\ req'[r].max = req[r].max
              /\ req'[r].gen = IF r \in ToSet(running) \ D THEN req[r].gen + 1
                               ELSE req[r].gen
              /\ r \in D \cup F => req'[r].table = <<>>
              /\ r \notin ToSet(running) => req'[r].table = req[r].table
              /\ req[r].max \in Nat /\ req[r].gen \in Nat
  <2>1. /\ DOMAIN g.req[r] = Fields /\ g.req[r].max = req[r].max
        /\ g.req[r].gen = req[r].gen
        /\ r \notin ToSet(running) => g.req[r].table = req[r].table
    BY <1>3 DEF OnlyGrows
  <2>2. /\ DOMAIN counted[r] = Fields /\ counted[r].max = req[r].max
        /\ counted[r].gen = IF r \in ToSet(running) \ D THEN req[r].gen + 1 ELSE req[r].gen
        /\ r \notin ToSet(running) => counted[r].table = req[r].table
    BY <1>14, <2>1 DEF Fields
  <2>3. /\ DOMAIN req'[r] = Fields /\ req'[r].max = counted[r].max
        /\ req'[r].gen = counted[r].gen
        /\ r \in D \cup F => req'[r].table = <<>>
        /\ r \notin D \cup F => req'[r].table = counted[r].table
    BY <1>13, <2>2 DEF Fields
  <2>4. req[r].max \in Nat /\ req[r].gen \in Nat
    BY <1>2 DEF RequestsAreTyped
  <2> QED BY <1>9, <2>2, <2>3, <2>4
<1>17. RequestsAreTyped'
  BY <1>15, <1>16 DEF RequestsAreTyped
<1>18. ASSUME NEW r \in ToSet(running) \ (D \cup F)
       PROVE  req'[r].gen < req[r].max
  <2>1. r \in Requests /\ r \in ToSet(alive) /\ ~ (g.req[r].gen + 1 >= g.req[r].max)
    BY <1>2, <1>6, <1>8, <1>18
  <2>2. g.req[r].gen = req[r].gen /\ g.req[r].max = req[r].max
    BY <1>3, <2>1 DEF OnlyGrows
  <2>3. req'[r].gen = req[r].gen + 1 /\ req[r].gen \in Nat /\ req[r].max \in Nat
    BY <1>16, <2>1
  <2> QED BY <2>1, <2>2, <2>3
<1> QED BY <1>5, <1>9, <1>11, <1>16, <1>17, <1>18 DEF Serves

(* What a failure comes to: everyone is out, D having been refused a block   *)
(* and F having been answered before, and those of B with a token more.      *)
Fails(B, D, F) ==
    /\ D \cap F = {}
    /\ RequestsAreTyped' /\ ListsAreTyped' /\ queue' = <<>>
    /\ ToSet(queue') = {} /\ ToSet(prefilling') = {} /\ ToSet(running') = {}
    /\ \A r \in Requests :
          /\ req'[r].max = req[r].max /\ req'[r].table = <<>>
          /\ req'[r].gen = IF r \in B THEN req[r].gen + 1 ELSE req[r].gen
    /\ future' = Answered(Owned \ F, F)
    /\ metrics' = [CountEnds(D, F) EXCEPT !.oom = @ + Cardinality(Pending(Owned \ (D \cup F)))]

(* A step that fails while it decodes has grown tables, and counted tokens.  *)
LEMMA CountedIsReq ==
    ASSUME EngineInv, NEW g, OnlyGrows(g), NEW alive, alive = Left(g)
    PROVE  /\ IsList(alive) /\ ToSet(alive) = ToSet(running) \ ToSet(g.oom)
           /\ IsReqOf(g.req) /\ IsReqOf(Counted(g, alive))
           /\ \A r \in Requests :
                 /\ Counted(g, alive)[r].max = req[r].max
                 /\ Counted(g, alive)[r].gen =
                       IF r \in ToSet(running) \ ToSet(g.oom) THEN req[r].gen + 1 ELSE req[r].gen
<1>1. IsList(running) /\ ToSet(running) \subseteq Requests
  BY ListLength DEF EngineInv, ListsAreTyped, IsList
<1>2. IsList(alive) /\ ToSet(alive) = ToSet(running) \ ToSet(g.oom)
  BY <1>1, OnlyThose DEF Left
<1>3. \A r \in Requests : Contains(alive, r) <=> r \in ToSet(running) \ ToSet(g.oom)
  BY <1>2, ListLength DEF IsList
<1>4. \A r \in Requests :
          Counted(g, alive)[r] = IF r \in ToSet(running) \ ToSet(g.oom)
                                 THEN [g.req[r] EXCEPT !.gen = @ + 1] ELSE g.req[r]
  BY <1>3 DEF Counted
<1>5. \A r \in Requests :
          /\ DOMAIN g.req[r] = Fields /\ g.req[r].max = req[r].max
          /\ g.req[r].gen = req[r].gen /\ req[r].max \in Nat /\ req[r].gen \in Nat
          /\ r \notin ToSet(running) => g.req[r].table = req[r].table
  BY DEF OnlyGrows, EngineInv, RequestsAreTyped
<1>6. IsReqOf(g.req)
  BY <1>5 DEF IsReqOf
<1>7. ASSUME NEW r \in Requests
      PROVE  /\ DOMAIN Counted(g, alive)[r] = Fields
             /\ Counted(g, alive)[r].max = req[r].max
             /\ Counted(g, alive)[r].table = g.req[r].table
             /\ Counted(g, alive)[r].gen =
                   IF r \in ToSet(running) \ ToSet(g.oom) THEN req[r].gen + 1 ELSE req[r].gen
  <2> DEFINE c == Counted(g, alive)[r]
  <2>1. c = IF r \in ToSet(running) \ ToSet(g.oom)
            THEN [g.req[r] EXCEPT !.gen = @ + 1] ELSE g.req[r]
    BY <1>4
  <2> HIDE DEF c
  <2>2. /\ DOMAIN c = Fields /\ c.max = req[r].max /\ c.table = g.req[r].table
        /\ c.gen = IF r \in ToSet(running) \ ToSet(g.oom) THEN req[r].gen + 1 ELSE req[r].gen
    BY <1>5, <2>1 DEF Fields
  <2> QED BY <2>2 DEF c
<1>8. IsReqOf(Counted(g, alive))
  BY <1>5, <1>7 DEF IsReqOf
<1> QED BY <1>2, <1>6, <1>7, <1>8

(* Every failure is of this kind.                                            *)
LEMMA FailsLike ==
    ASSUME EngineInv, NEW g, NEW freed, NEW done, FailAll(g, freed, done),
           IsReqOf(g.req), NEW B, ToSet(g.oom) \cap ToSet(done) = {},
           ToSet(g.oom \o done) = ToSet(g.oom) \cup ToSet(done),
           \A r \in Requests :
              /\ g.req[r].max = req[r].max
              /\ g.req[r].gen = IF r \in B THEN req[r].gen + 1 ELSE req[r].gen
    PROVE  Fails(B, ToSet(g.oom), ToSet(done))
<1>1. LetGo(g.pool, g.req, freed \o prefilling \o Only(running, Requests \ ToSet(freed)))
  BY DEF FailAll
<1>2. /\ RequestsAreTyped' /\ ListsAreTyped' /\ queue' = <<>>
      /\ ToSet(queue') = {} /\ ToSet(prefilling') = {} /\ ToSet(running') = {}
      /\ \A r \in Requests : /\ req'[r].max = g.req[r].max
                             /\ req'[r].gen = g.req[r].gen
                             /\ req'[r].table = <<>>
  BY <1>1, AllIsLetGo
<1>3. /\ future' = Answered(Owned \ ToSet(done), ToSet(done))
      /\ metrics' = [CountEnds(ToSet(g.oom), ToSet(done)) EXCEPT
                        !.oom = @ + Cardinality(Pending(Owned \ (ToSet(g.oom) \cup ToSet(done))))]
  BY DEF FailAll
<1> QED BY <1>2, <1>3 DEF Fails

LEMMA FailureMoves ==
    ASSUME EngineInv, DecodeNobody \/ Crash \/ FinishFails
    PROVE  \E B, D, F \in SUBSET ToSet(running) :
              /\ Fails(B, D, F)
              /\ (B = {} /\ F = {}) \/ (B = ToSet(running) \ D /\ F \subseteq B)
<1>1. /\ IsList(running) /\ running \in Seq(Requests) /\ RequestsAreTyped
      /\ \A r \in Requests : req[r].gen \in Nat
  BY DEF EngineInv, ListsAreTyped, IsList, RequestsAreTyped
<1>2. OnlyGrows(Grown)
  BY <1>1, GrownOnlyGrows
<1>3. /\ <<>> \in Seq(Requests) /\ ToSet(<<>>) = {} /\ ToSet(<<>> \o <<>>) = {}
      /\ \A s \in Seq(Requests) : ToSet(s \o <<>>) = ToSet(s) \cup {}
  BY Joining DEF ToSet
<1>4. ASSUME NEW freed, FailAll(Grown, freed, <<>>)
      PROVE  \E D \in SUBSET ToSet(running) : Fails({}, D, {})
  <2> DEFINE g == Grown
  <2>1. IsReqOf(g.req)
    BY <1>2, CountedIsReq
  <2>2. \A r \in Requests :
           /\ g.req[r].max = req[r].max
           /\ g.req[r].gen = IF r \in {} THEN req[r].gen + 1 ELSE req[r].gen
    BY <1>2 DEF OnlyGrows
  <2>3. /\ ToSet(g.oom) \cap ToSet(<<>>) = {} /\ ToSet(g.oom) \in SUBSET ToSet(running)
        /\ ToSet(g.oom \o <<>>) = ToSet(g.oom) \cup ToSet(<<>>)
    BY <1>2, <1>3 DEF OnlyGrows
  <2>4. FailAll(g, freed, <<>>)
    BY <1>4
  <2> HIDE DEF g
  <2>5. Fails({}, ToSet(g.oom), ToSet(<<>>))
    BY <2>1, <2>2, <2>3, <2>4, FailsLike
  <2> QED BY <1>3, <2>3, <2>5
<1>5. CASE DecodeNobody
  BY <1>4, <1>5 DEF DecodeNobody
<1>6. CASE Crash
  <2> DEFINE g == [tree |-> tree, pool |-> pool, req |-> req, oom |-> <<>>]
  <2>1. CASE FailAll(g, <<>>, <<>>)
    <3>1. g.req = req /\ g.oom = <<>>
      OBVIOUS
    <3>2. IsReqOf(g.req)
      BY <3>1, ReqIsReq
    <3> HIDE DEF g
    <3>3. Fails({}, ToSet(g.oom), ToSet(<<>>))
      BY <1>3, <2>1, <3>1, <3>2, FailsLike
    <3> QED BY <1>3, <3>1, <3>3
  <2>2. CASE FailAll(Grown, Grown.oom, <<>>)
    BY <1>4, <2>2
  <2> QED BY <1>6, <2>1, <2>2 DEF Crash
<1>7. CASE FinishFails
  <2> DEFINE g == Grown
             alive == Left(g)
  <2>1. PICK eos \in SUBSET ToSet(alive) :
           \E k \in DOMAIN Finished(g, alive, eos) :
              FailAll([g EXCEPT !.req = Counted(g, alive)],
                      g.oom \o SubSeq(Finished(g, alive, eos), 1, k),
                      SubSeq(Finished(g, alive, eos), 1, k - 1))
    BY <1>7 DEF FinishFails
  <2>2. OnlyGrows(g)
    BY <1>2
  <2> HIDE DEF g, alive
  <2>3. alive = Left(g)
    BY DEF alive
  <2>4. /\ IsList(alive) /\ ToSet(alive) = ToSet(running) \ ToSet(g.oom)
        /\ IsReqOf(Counted(g, alive))
        /\ \A r \in Requests :
              /\ Counted(g, alive)[r].max = req[r].max
              /\ Counted(g, alive)[r].gen =
                    IF r \in ToSet(running) \ ToSet(g.oom) THEN req[r].gen + 1 ELSE req[r].gen
    BY <2>2, <2>3, CountedIsReq
  <2> DEFINE finished == Finished(g, alive, eos)
  <2>5. IsList(finished) /\ ToSet(finished) \subseteq ToSet(alive)
    BY <2>4, OnlyThose DEF Finished
  <2>6. PICK k \in DOMAIN finished :
           FailAll([g EXCEPT !.req = Counted(g, alive)],
                   g.oom \o SubSeq(finished, 1, k), SubSeq(finished, 1, k - 1))
    BY <2>1
  <2> HIDE DEF finished
  <2> DEFINE done == SubSeq(finished, 1, k - 1)
             h == [g EXCEPT !.req = Counted(g, alive)]
  <2>7. done \in Seq(Requests) /\ ToSet(done) \subseteq ToSet(finished)
    <3>1. /\ finished \in Seq(Requests) /\ DOMAIN finished = 1 .. Len(finished)
          /\ Len(finished) \in Nat
      BY <2>5, ListLength DEF IsList
    <3>2. k - 1 \in 0 .. Len(finished)
      BY <3>1
    <3> QED BY <3>1, <3>2 DEF ToSet
  <2>8. FailAll(h, g.oom \o SubSeq(finished, 1, k), done)
    BY <2>6
  <2>9. h.req = Counted(g, alive) /\ h.oom = g.oom
    BY <2>2 DEF OnlyGrows
  <2> HIDE DEF h, done
  <2>10. /\ g.oom \in Seq(Requests) /\ ToSet(g.oom) \in SUBSET ToSet(running)
         /\ ToSet(g.oom \o done) = ToSet(g.oom) \cup ToSet(done)
    BY <2>2, <2>7, Joining DEF OnlyGrows
  <2> DEFINE B == ToSet(running) \ ToSet(g.oom)
  <2>11. ToSet(g.oom) \cap ToSet(done) = {} /\ ToSet(done) \subseteq B
    BY <2>4, <2>5, <2>7
  <2>12. \A r \in Requests :
            /\ h.req[r].max = req[r].max
            /\ h.req[r].gen = IF r \in B THEN req[r].gen + 1 ELSE req[r].gen
    BY <2>4, <2>9
  <2> HIDE DEF B
  <2>13. /\ IsReqOf(h.req) /\ ToSet(h.oom) \cap ToSet(done) = {}
         /\ ToSet(h.oom \o done) = ToSet(h.oom) \cup ToSet(done)
    BY <2>4, <2>9, <2>10, <2>11
  <2>14. Fails(B, ToSet(h.oom), ToSet(done))
    BY <2>8, <2>12, <2>13, FailsLike
  <2>15. B = ToSet(running) \ ToSet(h.oom)
    BY <2>9 DEF B
  <2> QED BY <2>9, <2>10, <2>11, <2>14, <2>15
<1> QED BY <1>5, <1>6, <1>7

-----------------------------------------------------------------------------
(* Admission takes the first in line, whom it puts with those in prefill, or *)
(* drops.                                                                    *)
LEMMA AdmitMoves ==
    ASSUME EngineInv, Admit
    PROVE  /\ queue # <<>> /\ Head(queue) \in ToSet(queue)
           /\ IsList(queue') /\ ToSet(queue') = ToSet(queue) \ {Head(queue)}
           /\ Len(prefilling) + Len(running) < MaxBatch
           /\ RequestsAreTyped'
           /\ \A q \in Requests : /\ req'[q].max = req[q].max /\ req'[q].gen = req[q].gen
                                  /\ q # Head(queue) => req'[q].table = req[q].table
           /\ \/ req' = req /\ prefilling' = prefilling
              \/ /\ IsList(prefilling')
                 /\ ToSet(prefilling') = ToSet(prefilling) \cup {Head(queue)}
                 /\ Len(prefilling') = Len(prefilling) + 1
<1> DEFINE r == Head(queue)
           tokens == req[r].prompt
           m == Match(tree, tokens)
           start == [req[r] EXCEPT !.offset = m.offset,
                                   !.match = [m EXCEPT !.tree = EmptyTree],
                                   !.progress = m.pos]
<1>1. /\ MayAdmit /\ queue' = Tail(queue)
      /\ \/ \E table : req' = [req EXCEPT ![r] = [start EXCEPT !.table = table]]
                       /\ prefilling' = Append(prefilling, r)
         \/ req' = req /\ prefilling' = prefilling
  <2> HIDE DEF m, tokens
  <2> QED BY DEF Admit, m, tokens
<1>2. /\ IsList(queue) /\ IsList(prefilling) /\ IsList(running)
      /\ ToSet(queue) \subseteq Requests /\ RequestsAreTyped
      /\ ToSet(queue) \cap ToSet(prefilling) = {}
  BY ListLength DEF EngineInv, ListsAreTyped, IsList
<1>3. /\ queue # <<>> /\ r \in ToSet(queue) /\ IsList(queue')
      /\ ToSet(queue') = ToSet(queue) \ {r}
  BY <1>1, <1>2, Heading DEF MayAdmit
<1>4. Len(prefilling) + Len(running) < MaxBatch
  <2>1. /\ Len(prefilling) \in Nat /\ Len(running) \in Nat /\ MaxBatch \in Nat
    BY <1>2, ListLength, EngineAssumption DEF IsList
  <2>2. Len(running) + Len(prefilling) < MaxBatch
    BY <1>1 DEF MayAdmit
  <2> HIDE DEF r, start
  <2> QED BY <2>1, <2>2
<1>5. CASE req' = req /\ prefilling' = prefilling
  BY <1>2, <1>3, <1>4, <1>5 DEF RequestsAreTyped
<1>6. ASSUME NEW table, req' = [req EXCEPT ![r] = [start EXCEPT !.table = table]],
             prefilling' = Append(prefilling, r)
      PROVE  /\ RequestsAreTyped'
             /\ \A q \in Requests : /\ req'[q].max = req[q].max /\ req'[q].gen = req[q].gen
                                    /\ q # r => req'[q].table = req[q].table
             /\ IsList(prefilling')
             /\ ToSet(prefilling') = ToSet(prefilling) \cup {r}
             /\ Len(prefilling') = Len(prefilling) + 1
  <2>1. r \in Requests /\ r \notin ToSet(prefilling)
    BY <1>2, <1>3
  <2>2. /\ IsList(prefilling')
        /\ ToSet(prefilling') = ToSet(prefilling) \cup {r}
        /\ Len(prefilling') = Len(prefilling) + 1
    BY <1>2, <1>6, <2>1, Appending
  <2>3. DOMAIN req = Requests /\ \A q \in Requests :
          DOMAIN req[q] = Fields /\ req[q].max \in Nat /\ req[q].gen \in Nat
    BY <1>2 DEF RequestsAreTyped
  <2>4. /\ DOMAIN req' = Requests
        /\ \A q \in Requests : q # r => req'[q] = req[q]
        /\ req'[r] = [start EXCEPT !.table = table]
    <3> HIDE DEF start
    <3> QED BY <1>6, <2>1, <2>3
  <2>5. DOMAIN req'[r] = Fields /\ req'[r].max = req[r].max /\ req'[r].gen = req[r].gen
    <3>1. DOMAIN start = Fields /\ start.max = req[r].max /\ start.gen = req[r].gen
      <4> HIDE DEF m
      <4> QED BY <2>1, <2>3 DEF Fields
    <3> HIDE DEF start
    <3> QED BY <2>4, <3>1 DEF Fields
  <2> QED BY <2>2, <2>3, <2>4, <2>5 DEF RequestsAreTyped
<1> HIDE DEF r, start
<1> QED BY <1>1, <1>2, <1>3, <1>4, <1>5, <1>6 DEF r

(* The steps that touch none of it.                                          *)
LEMMA NothingMoves ==
    ASSUME EngineInv,
           UNCHANGED <<future, queue, prefilling, running, req>>
    PROVE  EngineInv'
BY DEF EngineInv, FuturesAreTyped, ListsAreTyped, RequestsAreTyped, RequestsAreInPlace, IsInPlace

(* The invariant is kept by every action: the clients,                       *)
LEMMA SubmitKeeps ==
    ASSUME EngineInv, NEW r \in Requests, NEW p \in Prompts, NEW n \in Limits, Submit(r, p, n)
    PROVE  EngineInv'
<1>1. /\ future \in [Requests -> Outcomes] /\ ListsAreTyped /\ RequestsAreTyped
      /\ RequestsAreInPlace
  BY DEF EngineInv, FuturesAreTyped
<1>2. /\ future' = [future EXCEPT ![r] = "pending"] /\ req' = [req EXCEPT ![r] = Request(p, n)]
      /\ queue' = Append(queue, r) /\ future[r] = "new"
      /\ prefilling' = prefilling /\ running' = running
  BY DEF Submit
<1>3. r \notin ToSet(queue) \cup ToSet(prefilling) \cup ToSet(running)
  BY <1>1, <1>2 DEF RequestsAreInPlace, IsInPlace
<1>4. IsList(queue') /\ ToSet(queue') = ToSet(queue) \cup {r}
  BY <1>1, <1>2, <1>3, Appending DEF ListsAreTyped
<1>5. FuturesAreTyped'
  BY <1>1, <1>2 DEF FuturesAreTyped, Outcomes
<1>6. ListsAreTyped'
  BY <1>1, <1>2, <1>3, <1>4 DEF ListsAreTyped
<1>7. /\ DOMAIN req' = Requests /\ req'[r] = Request(p, n)
      /\ \A q \in Requests : q # r => req'[q] = req[q]
  BY <1>1, <1>2 DEF RequestsAreTyped
<1>8. /\ DOMAIN Request(p, n) = Fields /\ Request(p, n).max = n
      /\ Request(p, n).gen = 0 /\ Request(p, n).table = <<>>
  BY DEF Request, Fields
<1>9. RequestsAreTyped'
  <2>1. n \in Nat
    BY EngineAssumption
  <2> QED BY <1>1, <1>7, <1>8, <2>1 DEF RequestsAreTyped
<1>10. RequestsAreInPlace'
  <2> SUFFICES ASSUME NEW q \in Requests PROVE IsInPlace(q)'
    BY DEF RequestsAreInPlace, IsInPlace
  <2>1. CASE q = r
    BY <1>1, <1>2, <1>3, <1>4, <1>7, <1>8, <2>1 DEF IsInPlace
  <2>2. CASE q # r
    BY <1>1, <1>2, <1>4, <1>7, <2>2 DEF RequestsAreInPlace, IsInPlace
  <2> QED BY <2>1, <2>2
<1> QED BY <1>5, <1>6, <1>9, <1>10 DEF EngineInv

LEMMA TimeoutKeeps ==
    ASSUME EngineInv, NEW r \in Requests, Timeout(r)
    PROVE  EngineInv'
BY DEF EngineInv, Timeout, FuturesAreTyped, ListsAreTyped, RequestsAreTyped,
       RequestsAreInPlace, IsInPlace, Outcomes, Settled

(* every end of the engine,                                                  *)
LEMMA ShutdownKeeps ==
    ASSUME EngineInv, Shutdown
    PROVE  EngineInv'
<1>1. LetGo(pool, req, prefilling \o running) /\ future' = Settle(Owned, "cancelled")
  BY DEF Shutdown
<1>2. FuturesAreTyped'
  <2>1. "cancelled" \in Settled
    BY DEF Settled
  <2> QED BY <1>1, <2>1, SettleSettlesPending DEF EngineInv, FuturesAreTyped
<1>3. \A r \in Requests : future'[r] = "new" => future[r] = "new"
  BY <1>1 DEF Settle, EngineInv, FuturesAreTyped
<1>4. /\ RequestsAreTyped' /\ ListsAreTyped'
      /\ ToSet(queue') = {} /\ ToSet(prefilling') = {} /\ ToSet(running') = {}
      /\ \A r \in Requests : req'[r].gen = req[r].gen /\ req'[r].table = <<>>
  BY <1>1, ReqIsReq, AllIsLetGo
<1>5. RequestsAreInPlace'
  BY <1>3, <1>4 DEF EngineInv, RequestsAreInPlace, IsInPlace
<1> QED BY <1>2, <1>4, <1>5 DEF EngineInv

LEMMA FailureKeeps ==
    ASSUME EngineInv, DecodeNobody \/ Crash \/ FinishFails
    PROVE  EngineInv'
<1>1. PICK B, D, F \in SUBSET ToSet(running) :
         /\ Fails(B, D, F)
         /\ (B = {} /\ F = {}) \/ (B = ToSet(running) \ D /\ F \subseteq B)
  BY FailureMoves
<1>2. future' = Answered(Owned \ F, F)
  BY <1>1 DEF Fails
<1>3. FuturesAreTyped'
  <2>1. "error" \in Settled /\ "result" \in Settled
    BY DEF Settled
  <2> QED BY <1>2, <2>1, SettleSettlesPending DEF EngineInv, FuturesAreTyped, Answered
<1>4. \A r \in Requests : future'[r] = "new" => future[r] = "new"
  BY <1>2 DEF Answered, Settle, EngineInv, FuturesAreTyped
<1>5. RequestsAreInPlace'
  BY <1>1, <1>4 DEF Fails, EngineInv, RequestsAreInPlace, IsInPlace
<1> QED BY <1>1, <1>3, <1>5 DEF EngineInv, Fails

(* admission,                                                                *)
LEMMA AdmitKeeps ==
    ASSUME EngineInv, Admit
    PROVE  EngineInv'
<1> DEFINE r == Head(queue)
<1>1. /\ future \in [Requests -> Outcomes] /\ ListsAreTyped /\ RequestsAreTyped
      /\ RequestsAreInPlace
  BY DEF EngineInv, FuturesAreTyped
<1>2. future' = future /\ running' = running
  BY DEF Admit
<1>3. /\ r \in ToSet(queue)
      /\ IsList(queue') /\ ToSet(queue') = ToSet(queue) \ {r}
      /\ RequestsAreTyped'
      /\ \A q \in Requests : /\ req'[q].max = req[q].max /\ req'[q].gen = req[q].gen
                             /\ q # r => req'[q].table = req[q].table
      /\ Len(prefilling) + Len(running) < MaxBatch
  BY AdmitMoves
<1>4. r \in Requests /\ r \notin ToSet(prefilling) /\ r \notin ToSet(running)
  BY <1>1, <1>3, ListLength DEF ListsAreTyped, IsList
<1>5. \/ req' = req /\ prefilling' = prefilling
      \/ /\ IsList(prefilling')
         /\ ToSet(prefilling') = ToSet(prefilling) \cup {r}
         /\ Len(prefilling') = Len(prefilling) + 1
  BY AdmitMoves
<1> HIDE DEF r
<1>6. Len(prefilling) \in Nat /\ Len(running) \in Nat /\ MaxBatch \in Nat
  BY <1>1, ListLength, EngineAssumption DEF ListsAreTyped, IsList
<1>7. CASE req' = req /\ prefilling' = prefilling
  <2>1. ListsAreTyped'
    BY <1>1, <1>2, <1>3, <1>7 DEF ListsAreTyped
  <2>2. RequestsAreInPlace'
    BY <1>1, <1>2, <1>3, <1>7 DEF RequestsAreInPlace, IsInPlace
  <2> QED BY <1>1, <1>2, <1>3, <2>1, <2>2 DEF EngineInv, FuturesAreTyped
<1>8. CASE /\ IsList(prefilling')
           /\ ToSet(prefilling') = ToSet(prefilling) \cup {r}
           /\ Len(prefilling') = Len(prefilling) + 1
  <2>1. ListsAreTyped'
    BY <1>1, <1>2, <1>3, <1>4, <1>6, <1>8 DEF ListsAreTyped
  <2>2. RequestsAreInPlace'
    BY <1>1, <1>2, <1>3, <1>8 DEF RequestsAreInPlace, IsInPlace
  <2> QED BY <1>1, <1>2, <1>3, <2>1, <2>2 DEF EngineInv, FuturesAreTyped
<1> QED BY <1>5, <1>7, <1>8

(* prefill,                                                                  *)
LEMMA PrefillKeeps ==
    ASSUME EngineInv, Prefill
    PROVE  EngineInv'
<1>1. /\ future \in [Requests -> Outcomes] /\ ListsAreTyped /\ RequestsAreTyped
      /\ RequestsAreInPlace
  BY DEF EngineInv, FuturesAreTyped
<1>2. future' = future /\ queue' = queue
  BY DEF Prefill
<1>3. PICK S \in SUBSET ToSet(prefilling) : Joins(S)
  BY PrefillMoves
<1> USE DEF Joins
<1>4. ListsAreTyped'
  BY <1>1, <1>2, <1>3 DEF ListsAreTyped
<1>5. RequestsAreInPlace'
  <2> SUFFICES ASSUME NEW q \in Requests PROVE IsInPlace(q)'
    BY DEF RequestsAreInPlace, IsInPlace
  <2>1. CASE q \in S
    BY <1>1, <1>2, <1>3, <2>1 DEF RequestsAreInPlace, IsInPlace, ListsAreTyped
  <2>2. CASE q \notin S
    BY <1>1, <1>2, <1>3, <2>2 DEF RequestsAreInPlace, IsInPlace
  <2> QED BY <2>1, <2>2
<1> QED BY <1>1, <1>2, <1>3, <1>4, <1>5 DEF EngineInv, FuturesAreTyped

(* and decoding.                                                             *)
LEMMA DecodeKeeps ==
    ASSUME EngineInv, Decode
    PROVE  EngineInv'
<1>1. /\ future \in [Requests -> Outcomes] /\ ListsAreTyped /\ RequestsAreTyped
      /\ RequestsAreInPlace
  BY DEF EngineInv, FuturesAreTyped
<1>2. queue' = queue /\ prefilling' = prefilling
  BY DEF Decode, DecodeFor
<1>3. PICK D, F \in SUBSET ToSet(running) : Serves(D, F)
  BY DecodeMoves
<1> USE DEF Serves
<1>4. FuturesAreTyped'
  <2>1. "error" \in Settled /\ "result" \in Settled
    BY DEF Settled
  <2> QED BY <1>1, <1>3, <2>1, SettleSettlesPending DEF FuturesAreTyped, Answered
<1>5. ListsAreTyped'
  <2>1. /\ Len(prefilling) \in Nat /\ Len(running) \in Nat /\ MaxBatch \in Nat
        /\ Len(running') \in Nat
    BY <1>1, <1>3, ListLength, EngineAssumption DEF ListsAreTyped, IsList
  <2> QED BY <1>1, <1>2, <1>3, <2>1 DEF ListsAreTyped
<1>6. \A q \in Requests : /\ q \notin D \cup F => future'[q] = future[q]
                          /\ future'[q] = "new" => future[q] = "new"
  BY <1>1, <1>3 DEF Answered, Settle
<1>7. RequestsAreInPlace'
  <2> SUFFICES ASSUME NEW q \in Requests PROVE IsInPlace(q)'
    BY DEF RequestsAreInPlace, IsInPlace
  <2>1. CASE q \in ToSet(running)
    <3>1. req[q].gen \in Nat
      BY <1>1 DEF RequestsAreTyped
    <3> QED BY <1>1, <1>2, <1>3, <1>6, <2>1, <3>1 DEF RequestsAreInPlace, IsInPlace, ListsAreTyped
  <2>2. CASE q \notin ToSet(running)
    BY <1>1, <1>2, <1>3, <1>6, <2>2 DEF RequestsAreInPlace, IsInPlace
  <2> QED BY <2>1, <2>2
<1> QED BY <1>3, <1>4, <1>5, <1>7 DEF EngineInv

-----------------------------------------------------------------------------
(* It holds at first,                                                        *)
LEMMA EngineInit == Init => EngineInv
<1> SUFFICES ASSUME Init PROVE EngineInv
  OBVIOUS
<1>1. IsList(<<>>) /\ ToSet(<<>>) = {} /\ Len(<<>>) = 0
  BY DEF IsList, ToSet, IsInjective
<1>2. MaxBatch \in Nat
  BY EngineAssumption
<1>3. /\ queue = <<>> /\ prefilling = <<>> /\ running = <<>>
      /\ future = [r \in Requests |-> "new"]
      /\ req = [r \in Requests |-> Request(<<>>, 0)]
  BY DEF Init
<1>4. ListsAreTyped
  BY <1>1, <1>2, <1>3 DEF ListsAreTyped
<1>5. RequestsAreTyped
  BY <1>3 DEF RequestsAreTyped, Request, Fields
<1>6. RequestsAreInPlace
  BY <1>1, <1>3 DEF RequestsAreInPlace, IsInPlace, Request
<1>7. FuturesAreTyped
  BY <1>3 DEF FuturesAreTyped, Outcomes
<1> QED BY <1>4, <1>5, <1>6, <1>7 DEF EngineInv

(* after every step,                                                         *)
LEMMA EngineStep == EngineInv /\ [Next]_vars => EngineInv'
<1> SUFFICES ASSUME EngineInv, [Next]_vars PROVE EngineInv'
  OBVIOUS
<1>1. CASE UNCHANGED vars
  BY <1>1, NothingMoves DEF vars
<1>2. ASSUME NEW r \in Requests, NEW p \in Prompts, NEW n \in Limits, Submit(r, p, n)
      PROVE  EngineInv'
  BY <1>2, SubmitKeeps
<1>3. ASSUME NEW r \in Requests, Timeout(r) PROVE EngineInv'
  BY <1>3, TimeoutKeeps
<1>5. CASE Shutdown
  BY <1>5, ShutdownKeeps
<1>6. CASE Wake \/ AdmitNoMore \/ Sleep
  <2>1. UNCHANGED <<future, queue, prefilling, running, req>>
    BY <1>6 DEF Wake, AdmitNoMore, Sleep
  <2> QED BY <2>1, NothingMoves
<1>7. CASE Admit
  BY <1>7, AdmitKeeps
<1>8. CASE Prefill
  BY <1>8, PrefillKeeps
<1>9. CASE Decode
  BY <1>9, DecodeKeeps
<1>10. CASE DecodeNobody \/ Crash \/ FinishFails
  BY <1>10, FailureKeeps
<1> QED BY <1>1, <1>2, <1>3, <1>5, <1>6, <1>7, <1>8, <1>9, <1>10 DEF Next, Scheduler

(* and so always.                                                            *)
THEOREM EngineInvariant == Spec => []EngineInv
BY EngineInit, EngineStep, PTL DEF Spec

(* It has all that ListsAreSound says.                                       *)
LEMMA ListsFollow == EngineInv => ListsAreSound
<1> SUFFICES ASSUME EngineInv PROVE ListsAreSound
  OBVIOUS
<1>1. /\ ListsAreTyped /\ RequestsAreInPlace
      /\ queue \in Seq(Requests) /\ prefilling \in Seq(Requests) /\ running \in Seq(Requests)
  BY DEF EngineInv, ListsAreTyped, IsList
<1>2. /\ Admitted \in Seq(Requests) /\ IsList(Admitted)
      /\ Len(Admitted) = Len(prefilling) + Len(running)
      /\ ToSet(Admitted) = ToSet(prefilling) \cup ToSet(running)
  BY <1>1, Joining DEF Admitted, ListsAreTyped
<1>3. IsInjective(queue \o Admitted)
  BY <1>1, <1>2, Joining DEF ListsAreTyped, IsList
<1>4. Len(Admitted) <= MaxBatch
  BY <1>1, <1>2 DEF ListsAreTyped
<1>5. \A r \in Requests : req[r].table # <<>> => Contains(Admitted, r)
  BY <1>1, <1>2, ListLength DEF RequestsAreInPlace, IsInPlace
<1> QED BY <1>3, <1>4, <1>5 DEF ListsAreSound

(* engine.py:120, :161, :264: whichever way requests go through the engine   *)
(* and out of it, each is in one list at most, the batch is bounded, and     *)
(* nobody who has left or waits keeps blocks.                                *)
THEOREM ListsStaySound == Spec => []ListsAreSound
BY EngineInvariant, ListsFollow, PTL

-----------------------------------------------------------------------------
(* The counters and the outcomes.  Gone are those whose client gave up and    *)
(* who have left the engine since, Dropped those whom admission dropped.     *)
Counters == {"submitted", "success", "timeout", "cancelled", "oom"}
With(value) == {r \in Requests : future[r] = value}
Gone == {r \in Requests : future[r] = "timeout" /\ r \notin Owned}
Dropped == {r \in Requests : future[r] = "pending" /\ r \notin Owned}

CountersAreTyped ==
    DOMAIN metrics = Counters /\ \A c \in Counters : metrics[c] \in Nat
(* More than OutcomesAreCounted says: the requests that are counted twice    *)
(* have left the engine, so that those still in it may be.                   *)
CountsAreRight ==
    /\ metrics.submitted + Cardinality(With("new")) = Cardinality(Requests)
    /\ metrics.success = Cardinality(With("result"))
    /\ metrics.timeout = Cardinality(With("timeout"))
    /\ metrics.oom >= Cardinality(With("error"))
    /\ metrics.cancelled >= Cardinality(With("cancelled"))
    /\ metrics.oom + metrics.cancelled
          <= Cardinality(With("error")) + Cardinality(With("cancelled"))
             + 2 * Cardinality(Gone) + Cardinality(Dropped)
CountInv == CountersAreTyped /\ CountsAreRight

(* Numbers of requests.                                                      *)
LEMMA Numbers ==
    /\ \A S \in SUBSET Requests : IsFiniteSet(S) /\ Cardinality(S) \in Nat
    /\ \A S, T \in SUBSET Requests :
          /\ S \cap T = {} => Cardinality(S \cup T) = Cardinality(S) + Cardinality(T)
          /\ S \subseteq T => Cardinality(S) <= Cardinality(T)
<1>1. \A S \in SUBSET Requests : IsFiniteSet(S) /\ Cardinality(S) \in Nat
  BY EngineAssumption, FS_Subset, FS_CardinalityType
<1>2. ASSUME NEW S \in SUBSET Requests, NEW T \in SUBSET Requests, S \cap T = {}
      PROVE  Cardinality(S \cup T) = Cardinality(S) + Cardinality(T)
  <2>1. /\ IsFiniteSet(S) /\ Cardinality(S) \in Nat
        /\ IsFiniteSet(T) /\ Cardinality(T) \in Nat
    BY <1>1
  <2>2. Cardinality(S \cap T) = 0
    BY <1>2, FS_EmptySet
  <2>3. Cardinality(S \cup T) = Cardinality(S) + Cardinality(T) - Cardinality(S \cap T)
    BY <2>1, FS_Union
  <2> QED BY <2>1, <2>2, <2>3
<1>3. ASSUME NEW S \in SUBSET Requests, NEW T \in SUBSET Requests, S \subseteq T
      PROVE  Cardinality(S) <= Cardinality(T)
  BY <1>1, <1>3, FS_Subset
<1> QED BY <1>1, <1>2, <1>3

(* Everyone who leaves the engine in a step: with an error E, cancelled C,   *)
(* with a result S, or G after their client has gone.                        *)
LEMMA Leaving ==
    ASSUME CountInv, EngineInv,
           NEW E \in SUBSET Pending(Owned), NEW C \in SUBSET Pending(Owned),
           NEW S \in SUBSET Pending(Owned),
           E \cap C = {}, E \cap S = {}, C \cap S = {},
           NEW G \in SUBSET {r \in Owned : future[r] = "timeout"},
           \A r \in Requests : future'[r] = IF r \in E THEN "error"
                                            ELSE IF r \in C THEN "cancelled"
                                            ELSE IF r \in S THEN "result"
                                            ELSE future[r],
           Owned' = Owned \ (E \cup C \cup S \cup G),
           DOMAIN metrics' = Counters,
           metrics'.submitted = metrics.submitted, metrics'.timeout = metrics.timeout,
           metrics'.success = metrics.success + Cardinality(S),
           metrics'.oom \in Nat, metrics'.cancelled \in Nat,
           metrics'.oom >= metrics.oom + Cardinality(E),
           metrics'.cancelled >= metrics.cancelled + Cardinality(C),
           metrics'.oom + metrics'.cancelled
              <= metrics.oom + metrics.cancelled
                 + Cardinality(E) + Cardinality(C) + 2 * Cardinality(G)
    PROVE  CountInv'
<1>1. Owned \subseteq Requests
  BY WhoIsOwned, ListLength DEF EngineInv, ListsAreTyped, IsList
<1>2. /\ With("new")' = With("new") /\ With("timeout")' = With("timeout")
      /\ With("result")' = With("result") \cup S
      /\ With("error")' = With("error") \cup E
      /\ With("cancelled")' = With("cancelled") \cup C
      /\ Gone' = Gone \cup G /\ Dropped' = Dropped
  BY <1>1 DEF With, Gone, Dropped, Pending
<1>3. /\ With("result") \cap S = {} /\ With("error") \cap E = {}
      /\ With("cancelled") \cap C = {} /\ Gone \cap G = {}
  BY DEF With, Gone, Pending
<1>4. /\ E \in SUBSET Requests /\ C \in SUBSET Requests /\ S \in SUBSET Requests
      /\ G \in SUBSET Requests
  BY <1>1 DEF Pending
<1>5. /\ \A v : With(v) \in SUBSET Requests
      /\ Gone \in SUBSET Requests /\ Dropped \in SUBSET Requests
  BY DEF With, Gone, Dropped
<1>6. /\ Cardinality(With("result")') = Cardinality(With("result")) + Cardinality(S)
      /\ Cardinality(With("error")') = Cardinality(With("error")) + Cardinality(E)
      /\ Cardinality(With("cancelled")') = Cardinality(With("cancelled")) + Cardinality(C)
      /\ Cardinality(Gone') = Cardinality(Gone) + Cardinality(G)
  <2>1. Cardinality(With("result")') = Cardinality(With("result")) + Cardinality(S)
    BY <1>2, <1>3, <1>4, <1>5, Numbers
  <2>2. Cardinality(With("error")') = Cardinality(With("error")) + Cardinality(E)
    BY <1>2, <1>3, <1>4, <1>5, Numbers
  <2>3. Cardinality(With("cancelled")') = Cardinality(With("cancelled")) + Cardinality(C)
    BY <1>2, <1>3, <1>4, <1>5, Numbers
  <2>4. Cardinality(Gone') = Cardinality(Gone) + Cardinality(G)
    BY <1>2, <1>3, <1>4, <1>5, Numbers
  <2> QED BY <2>1, <2>2, <2>3, <2>4
<1>7. /\ \A v : Cardinality(With(v)) \in Nat
      /\ Cardinality(Gone) \in Nat /\ Cardinality(Dropped) \in Nat
      /\ Cardinality(E) \in Nat /\ Cardinality(C) \in Nat /\ Cardinality(S) \in Nat
      /\ Cardinality(G) \in Nat
  BY <1>4, <1>5, Numbers
<1>8. \A c \in Counters : metrics[c] \in Nat
  BY DEF CountInv, CountersAreTyped
<1>9. CountersAreTyped'
  BY <1>7, <1>8 DEF CountersAreTyped, Counters
<1>10. CountsAreRight'
  <2>1. /\ metrics.oom \in Nat /\ metrics.cancelled \in Nat
    BY <1>8 DEF Counters
  <2>2. CountsAreRight
    BY DEF CountInv
  <2> QED BY <1>2, <1>6, <1>7, <2>1, <2>2 DEF CountsAreRight
<1> QED BY <1>9, <1>10 DEF CountInv

(* Steps that concern nobody's outcome.                                      *)
LEMMA CountStays ==
    ASSUME CountInv, future' = future, Owned' = Owned, metrics' = metrics
    PROVE  CountInv'
BY DEF CountInv, CountersAreTyped, CountsAreRight, With, Gone, Dropped

(* WhoIsOwned, of the next state.                                            *)
LEMMA OwnedNext ==
    ASSUME EngineInv'
    PROVE  Owned' = ToSet(queue') \cup ToSet(prefilling') \cup ToSet(running')
<1>1. (ListsAreTyped => Owned = ToSet(queue) \cup ToSet(prefilling) \cup ToSet(running))'
  BY WhoIsOwned, PTL
<1> QED BY <1>1 DEF EngineInv

(* The counters stay right in every action: the clients,                     *)
LEMMA CountSubmit ==
    ASSUME CountInv, EngineInv, EngineInv',
           NEW r \in Requests, NEW p \in Prompts, NEW n \in Limits, Submit(r, p, n)
    PROVE  CountInv'
<1>1. /\ future \in [Requests -> Outcomes] /\ future[r] = "new"
      /\ future' = [future EXCEPT ![r] = "pending"]
      /\ metrics' = [metrics EXCEPT !.submitted = @ + 1]
  BY DEF Submit, EngineInv, FuturesAreTyped
<1>2. Owned' = Owned \cup {r}
  <2>1. ToSet(queue') = ToSet(queue) \cup {r} /\ prefilling' = prefilling /\ running' = running
    BY Appending DEF Submit, EngineInv, ListsAreTyped
  <2> QED BY <2>1, WhoIsOwned, OwnedNext DEF EngineInv
<1>3. /\ With("new") = With("new")' \cup {r} /\ r \notin With("new")'
      /\ With("timeout")' = With("timeout") /\ With("result")' = With("result")
      /\ With("error")' = With("error") /\ With("cancelled")' = With("cancelled")
      /\ Gone' = Gone /\ Dropped' = Dropped
  BY <1>1, <1>2 DEF With, Gone, Dropped
<1>4. /\ Cardinality(With("new")) = Cardinality(With("new")') + 1
      /\ Cardinality(With("new")') \in Nat
  <2>1. With("new")' \in SUBSET Requests
    BY DEF With
  <2>2. IsFiniteSet(With("new")') /\ Cardinality(With("new")') \in Nat
    BY <2>1, Numbers
  <2> QED BY <1>3, <2>2, FS_AddElement
<1>5. CountersAreTyped'
  BY <1>1 DEF CountInv, CountersAreTyped, Counters
<1>6. CountsAreRight'
  <2>1. /\ metrics'.submitted = metrics.submitted + 1 /\ metrics'.success = metrics.success
        /\ metrics'.timeout = metrics.timeout /\ metrics'.oom = metrics.oom
        /\ metrics'.cancelled = metrics.cancelled /\ metrics.submitted \in Nat
    BY <1>1 DEF CountInv, CountersAreTyped, Counters
  <2>2. CountsAreRight
    BY DEF CountInv
  <2> QED BY <1>3, <1>4, <2>1, <2>2 DEF CountsAreRight
<1> QED BY <1>5, <1>6 DEF CountInv

LEMMA CountTimeout ==
    ASSUME CountInv, EngineInv, NEW r \in Requests, Timeout(r)
    PROVE  CountInv'
<1>1. /\ future \in [Requests -> Outcomes] /\ future[r] = "pending"
      /\ future' = [future EXCEPT ![r] = "timeout"]
      /\ metrics' = [metrics EXCEPT !.timeout = @ + 1]
      /\ Owned' = Owned
  BY DEF Timeout, EngineInv, FuturesAreTyped, Owned
<1>2. /\ With("timeout")' = With("timeout") \cup {r} /\ r \notin With("timeout")
      /\ With("new")' = With("new") /\ With("result")' = With("result")
      /\ With("error")' = With("error") /\ With("cancelled")' = With("cancelled")
      /\ r \in Owned => Gone' = Gone /\ Dropped' = Dropped
      /\ r \notin Owned => /\ Gone' = Gone \cup {r} /\ r \notin Gone
                           /\ Dropped' \cup {r} = Dropped /\ r \notin Dropped'
  BY <1>1 DEF With, Gone, Dropped
<1>3. /\ \A v : With(v) \in SUBSET Requests
      /\ Gone \in SUBSET Requests /\ Dropped \in SUBSET Requests
      /\ Dropped' \in SUBSET Requests
  BY DEF With, Gone, Dropped
<1>4. /\ \A v : IsFiniteSet(With(v)) /\ Cardinality(With(v)) \in Nat
      /\ IsFiniteSet(Gone) /\ Cardinality(Gone) \in Nat
      /\ IsFiniteSet(Dropped) /\ Cardinality(Dropped) \in Nat
      /\ IsFiniteSet(Dropped') /\ Cardinality(Dropped') \in Nat
  BY <1>3, Numbers
<1>5. Cardinality(With("timeout")') = Cardinality(With("timeout")) + 1
  BY <1>2, <1>4, FS_AddElement
<1>6. 2 * Cardinality(Gone) + Cardinality(Dropped)
          <= 2 * Cardinality(Gone') + Cardinality(Dropped')
  <2>1. CASE r \in Owned
    BY <1>2, <1>4, <2>1
  <2>2. CASE r \notin Owned
    <3>1. /\ Cardinality(Gone') = Cardinality(Gone) + 1
          /\ Cardinality(Dropped) = Cardinality(Dropped') + 1
      BY <1>2, <1>4, <2>2, FS_AddElement
    <3> QED BY <1>4, <3>1
  <2> QED BY <2>1, <2>2
<1>7. CountersAreTyped'
  BY <1>1 DEF CountInv, CountersAreTyped, Counters
<1>8. CountsAreRight'
  <2>1. /\ metrics'.submitted = metrics.submitted /\ metrics'.success = metrics.success
        /\ metrics'.timeout = metrics.timeout + 1 /\ metrics'.oom = metrics.oom
        /\ metrics'.cancelled = metrics.cancelled
        /\ metrics.oom \in Nat /\ metrics.cancelled \in Nat
    BY <1>1 DEF CountInv, CountersAreTyped, Counters
  <2>2. CountsAreRight
    BY DEF CountInv
  <2>3. Cardinality(Gone') \in Nat
    <3>1. Gone' \in SUBSET Requests
      BY DEF Gone
    <3> QED BY <3>1, Numbers
  <2> QED BY <1>2, <1>4, <1>5, <1>6, <2>1, <2>2, <2>3 DEF CountsAreRight
<1> QED BY <1>7, <1>8 DEF CountInv

(* admission, which counts those it drops,                                   *)
LEMMA CountAdmit ==
    ASSUME CountInv, EngineInv, EngineInv', Admit
    PROVE  CountInv'
<1> DEFINE r == Head(queue)
<1>1. /\ future' = future /\ running' = running
      /\ \/ prefilling' = Append(prefilling, r) /\ metrics' = metrics
         \/ prefilling' = prefilling /\ metrics' = [metrics EXCEPT !.oom = @ + 1]
  BY DEF Admit
<1>2. r \in ToSet(queue) /\ ToSet(queue') = ToSet(queue) \ {r}
  BY AdmitMoves
<1>3. /\ r \in Requests /\ r \notin ToSet(prefilling) /\ r \notin ToSet(running)
      /\ r \in Owned /\ future[r] \in {"pending", "timeout"}
      /\ IsList(prefilling)
  <2>1. ListsAreTyped /\ RequestsAreInPlace
    BY DEF EngineInv
  <2>2. r \in Requests
    BY <1>2, <2>1, ListLength DEF ListsAreTyped, IsList
  <2> HIDE DEF r
  <2> QED BY <1>2, <2>1, <2>2, WhoIsOwned DEF ListsAreTyped, RequestsAreInPlace, IsInPlace
<1> HIDE DEF r
<1>4. CASE prefilling' = Append(prefilling, r) /\ metrics' = metrics
  <2>1. ToSet(prefilling') = ToSet(prefilling) \cup {r}
    BY <1>3, <1>4, Appending
  <2>2. Owned' = Owned
    BY <1>1, <1>2, <2>1, WhoIsOwned, OwnedNext DEF EngineInv
  <2> QED BY <1>1, <1>4, <2>2, CountStays
<1>5. CASE prefilling' = prefilling /\ metrics' = [metrics EXCEPT !.oom = @ + 1]
  <2>1. Owned' = Owned \ {r}
    BY <1>1, <1>2, <1>3, <1>5, WhoIsOwned, OwnedNext DEF EngineInv
  <2>2. /\ \A v : With(v)' = With(v)
        /\ future[r] = "timeout" => /\ Gone' = Gone \cup {r} /\ r \notin Gone
                                    /\ Dropped' = Dropped
        /\ future[r] = "pending" => /\ Dropped' = Dropped \cup {r} /\ r \notin Dropped
                                    /\ Gone' = Gone
    BY <1>1, <1>3, <2>1 DEF With, Gone, Dropped
  <2>3. /\ \A v : With(v) \in SUBSET Requests
        /\ Gone \in SUBSET Requests /\ Dropped \in SUBSET Requests
    BY DEF With, Gone, Dropped
  <2>4. /\ \A v : Cardinality(With(v)) \in Nat
        /\ IsFiniteSet(Gone) /\ Cardinality(Gone) \in Nat
        /\ IsFiniteSet(Dropped) /\ Cardinality(Dropped) \in Nat
    BY <2>3, Numbers
  <2>5. 2 * Cardinality(Gone') + Cardinality(Dropped')
           >= 2 * Cardinality(Gone) + Cardinality(Dropped) + 1
    <3>1. CASE future[r] = "timeout"
      <4>1. Cardinality(Gone') = Cardinality(Gone) + 1
        BY <2>2, <2>4, <3>1, FS_AddElement
      <4> QED BY <2>2, <2>4, <3>1, <4>1
    <3>2. CASE future[r] = "pending"
      <4>1. Cardinality(Dropped') = Cardinality(Dropped) + 1
        BY <2>2, <2>4, <3>2, FS_AddElement
      <4> QED BY <2>2, <2>4, <3>2, <4>1
    <3> QED BY <1>3, <3>1, <3>2
  <2>6. CountersAreTyped'
    BY <1>5 DEF CountInv, CountersAreTyped, Counters
  <2>7. CountsAreRight'
    <3>1. /\ metrics'.submitted = metrics.submitted /\ metrics'.success = metrics.success
          /\ metrics'.timeout = metrics.timeout /\ metrics'.oom = metrics.oom + 1
          /\ metrics'.cancelled = metrics.cancelled
          /\ metrics.oom \in Nat /\ metrics.cancelled \in Nat
      BY <1>5 DEF CountInv, CountersAreTyped, Counters
    <3>2. CountsAreRight
      BY DEF CountInv
    <3>3. Cardinality(Gone') \in Nat /\ Cardinality(Dropped') \in Nat
      <4>1. Gone' \in SUBSET Requests /\ Dropped' \in SUBSET Requests
        BY DEF Gone, Dropped
      <4> QED BY <4>1, Numbers
    <3> QED BY <2>2, <2>4, <2>5, <3>1, <3>2, <3>3 DEF CountsAreRight
  <2> QED BY <2>6, <2>7 DEF CountInv
<1> QED BY <1>1, <1>4, <1>5

(* Those who leave, with their client waiting or gone.                       *)
LEMMA Parts ==
    ASSUME EngineInv, NEW R \in SUBSET Owned
    PROVE  /\ R \in SUBSET Requests
           /\ Pending(R) \in SUBSET Pending(Owned)
           /\ R \ Pending(R) \in SUBSET {r \in Owned : future[r] = "timeout"}
           /\ Cardinality(R) \in Nat /\ Cardinality(Pending(R)) \in Nat
           /\ Cardinality(R \ Pending(R)) \in Nat
           /\ Cardinality(R) = Cardinality(Pending(R)) + Cardinality(R \ Pending(R))
<1>1. /\ Owned \subseteq Requests
      /\ \A r \in Owned : future[r] \in {"pending", "timeout"}
  <2>1. ListsAreTyped /\ RequestsAreInPlace
    BY DEF EngineInv
  <2>2. Owned \subseteq Requests
    BY <2>1, WhoIsOwned, ListLength DEF ListsAreTyped, IsList
  <2> QED BY <2>1, <2>2, WhoIsOwned DEF RequestsAreInPlace, IsInPlace
<1>2. /\ R \in SUBSET Requests /\ Pending(R) \in SUBSET Requests
      /\ R \ Pending(R) \in SUBSET Requests
      /\ Pending(R) \cap (R \ Pending(R)) = {} /\ Pending(R) \cup (R \ Pending(R)) = R
      /\ Pending(R) \in SUBSET Pending(Owned)
      /\ R \ Pending(R) \in SUBSET {r \in Owned : future[r] = "timeout"}
  BY <1>1 DEF Pending
<1> QED BY <1>2, Numbers

(* decoding, which counts who was refused a block and whose client has gone  *)
(* twice,                                                                    *)
LEMMA CountDecode ==
    ASSUME CountInv, EngineInv, EngineInv', Decode
    PROVE  CountInv'
<1>1. PICK D, F \in SUBSET ToSet(running) : Serves(D, F)
  BY DecodeMoves
<1> USE DEF Serves
<1>2. queue' = queue /\ prefilling' = prefilling
  BY DEF Decode, DecodeFor
<1> DEFINE E == Pending(D)
           S == Pending(F)
           G == (D \cup F) \ Pending(D \cup F)
<1>3. /\ Owned = ToSet(queue) \cup ToSet(prefilling) \cup ToSet(running)
      /\ Owned' = Owned \ (D \cup F)
  <2>1. /\ ToSet(queue) \cap ToSet(running) = {} /\ ToSet(prefilling) \cap ToSet(running) = {}
    BY DEF EngineInv, ListsAreTyped
  <2> QED BY <1>1, <1>2, <2>1, WhoIsOwned, OwnedNext DEF EngineInv
<1>4. /\ D \in SUBSET Owned /\ F \in SUBSET Owned /\ D \cup F \in SUBSET Owned
  BY <1>1, <1>3
<1>5. /\ E \in SUBSET Pending(Owned) /\ S \in SUBSET Pending(Owned)
      /\ G \in SUBSET {r \in Owned : future[r] = "timeout"}
      /\ Cardinality(E) \in Nat /\ Cardinality(S) \in Nat /\ Cardinality(G) \in Nat
      /\ Cardinality(D) = Cardinality(E) + Cardinality(D \ E)
      /\ Cardinality(D \ E) \in Nat
  BY <1>4, Parts
<1>6. E \cap S = {} /\ D \ E \subseteq G /\ E \cup S \cup G = D \cup F
  BY <1>1 DEF Pending
<1>7. Cardinality(D \ E) <= Cardinality(G)
  <2>1. D \ E \in SUBSET Requests /\ G \in SUBSET Requests
    BY <1>4, Parts
  <2> HIDE DEF E, G
  <2> QED BY <1>6, <2>1, Numbers
<1>8. \A r \in Requests : future'[r] = IF r \in E THEN "error"
                                       ELSE IF r \in {} THEN "cancelled"
                                       ELSE IF r \in S THEN "result" ELSE future[r]
  BY <1>1 DEF Answered, Settle, Pending
<1>9. /\ DOMAIN metrics' = Counters
      /\ metrics'.submitted = metrics.submitted /\ metrics'.timeout = metrics.timeout
      /\ metrics'.success = metrics.success + Cardinality(S)
      /\ metrics'.oom = metrics.oom + Cardinality(D)
      /\ metrics'.cancelled = metrics.cancelled + Cardinality(G)
      /\ metrics.oom \in Nat /\ metrics.cancelled \in Nat
  <2> HIDE DEF S, G
  <2> QED BY <1>1 DEF CountEnds, CountInv, CountersAreTyped, Counters, S, G
<1> HIDE DEF E, S, G
<1> DEFINE C == {}
<1>10. /\ C \in SUBSET Pending(Owned) /\ E \cap C = {} /\ C \cap S = {}
       /\ Cardinality(C) = 0
       /\ \A r \in Requests : future'[r] = IF r \in E THEN "error"
                                       ELSE IF r \in C THEN "cancelled"
                                       ELSE IF r \in S THEN "result" ELSE future[r]
       /\ Owned' = Owned \ (E \cup C \cup S \cup G)
  BY <1>3, <1>6, <1>8, FS_EmptySet
<1> HIDE DEF C
<1>11. /\ metrics'.oom \in Nat /\ metrics'.cancelled \in Nat
       /\ metrics'.oom >= metrics.oom + Cardinality(E)
       /\ metrics'.cancelled >= metrics.cancelled + Cardinality(C)
       /\ metrics'.oom + metrics'.cancelled
             <= metrics.oom + metrics.cancelled
                + Cardinality(E) + Cardinality(C) + 2 * Cardinality(G)
  BY <1>5, <1>7, <1>9, <1>10
<1>12. E \cap S = {} /\ G \in SUBSET {r \in Owned : future[r] = "timeout"}
  BY <1>5, <1>6
<1>13. /\ DOMAIN metrics' = Counters
      /\ metrics'.submitted = metrics.submitted /\ metrics'.timeout = metrics.timeout
      /\ metrics'.success = metrics.success + Cardinality(S)
  BY <1>9
<1>14. E \in SUBSET Pending(Owned) /\ S \in SUBSET Pending(Owned)
  BY <1>5
<1> QED BY <1>10, <1>11, <1>12, <1>13, <1>14, Leaving

(* the ends of the engine,                                                   *)
LEMMA CountShutdown ==
    ASSUME CountInv, EngineInv, EngineInv', Shutdown
    PROVE  CountInv'
<1> DEFINE C == Pending(Owned)
           G == Owned \ Pending(Owned)
           E == {}
<1>1. Owned' = {}
  <2>1. LetGo(pool, req, prefilling \o running)
    BY DEF Shutdown
  <2>2. ToSet(queue') = {} /\ ToSet(prefilling') = {} /\ ToSet(running') = {}
    BY <2>1, ReqIsReq, AllIsLetGo
  <2> QED BY <2>2, OwnedNext
<1>2. /\ C \in SUBSET Pending(Owned) /\ E \in SUBSET Pending(Owned)
      /\ G \in SUBSET {r \in Owned : future[r] = "timeout"}
      /\ Cardinality(C) \in Nat /\ Cardinality(G) \in Nat /\ Cardinality(E) = 0
      /\ E \cap C = {} /\ E \cap E = {} /\ C \cap E = {}
  BY Parts, FS_EmptySet
<1>3. Owned' = Owned \ (E \cup C \cup E \cup G)
  BY <1>1 DEF Pending
<1>4. \A r \in Requests : future'[r] = IF r \in E THEN "error"
                                       ELSE IF r \in C THEN "cancelled"
                                       ELSE IF r \in E THEN "result" ELSE future[r]
  BY DEF Shutdown, Settle, Pending
<1>5. /\ DOMAIN metrics' = Counters
      /\ metrics'.submitted = metrics.submitted /\ metrics'.timeout = metrics.timeout
      /\ metrics'.success = metrics.success + 0
      /\ metrics'.oom = metrics.oom
      /\ metrics'.cancelled = metrics.cancelled + Cardinality(C)
      /\ metrics.oom \in Nat /\ metrics.cancelled \in Nat
  BY DEF Shutdown, CountInv, CountersAreTyped, Counters
<1> HIDE DEF C, G, E
<1>6. /\ metrics'.success = metrics.success + Cardinality(E)
      /\ metrics'.oom \in Nat /\ metrics'.cancelled \in Nat
      /\ metrics'.oom >= metrics.oom + Cardinality(E)
      /\ metrics'.cancelled >= metrics.cancelled + Cardinality(C)
      /\ metrics'.oom + metrics'.cancelled
             <= metrics.oom + metrics.cancelled
                + Cardinality(E) + Cardinality(C) + 2 * Cardinality(G)
  BY <1>2, <1>5
<1> QED BY <1>2, <1>3, <1>4, <1>5, <1>6, Leaving

(* a failure counting whom it finds, after those of the step that failed,    *)
LEMMA CountFailure ==
    ASSUME CountInv, EngineInv, EngineInv', DecodeNobody \/ Crash \/ FinishFails
    PROVE  CountInv'
<1>1. PICK B, D, F \in SUBSET ToSet(running) : Fails(B, D, F)
  BY FailureMoves
<1> DEFINE E == Pending(Owned \ F)
           S == Pending(F)
           G == Owned \ Pending(Owned)
           C == {}
<1>2. Owned' = {}
  BY <1>1, OwnedNext DEF Fails
<1>3. D \in SUBSET Owned /\ F \in SUBSET Owned /\ D \cup F \in SUBSET Owned /\ D \cap F = {}
  BY <1>1, WhoIsOwned DEF EngineInv, Fails
<1> DEFINE late == D \ Pending(D)
           gone == (D \cup F) \ Pending(D \cup F)
           rest == Pending(Owned \ (D \cup F))
<1>4. /\ Owned \in SUBSET Requests /\ Owned \ F \in SUBSET Owned
      /\ Owned \ (D \cup F) \in SUBSET Owned
  BY Parts
<1>5. /\ E \in SUBSET Pending(Owned) /\ S \in SUBSET Pending(Owned)
      /\ G \in SUBSET {r \in Owned : future[r] = "timeout"}
      /\ Cardinality(E) \in Nat /\ Cardinality(S) \in Nat /\ Cardinality(G) \in Nat
      /\ Cardinality(D) = Cardinality(Pending(D)) + Cardinality(late)
      /\ Cardinality(D) \in Nat /\ Cardinality(Pending(D)) \in Nat
      /\ Cardinality(late) \in Nat /\ Cardinality(gone) \in Nat
      /\ Cardinality(rest) \in Nat
      /\ late \in SUBSET Requests /\ gone \in SUBSET Requests /\ G \in SUBSET Requests
      /\ rest \in SUBSET Requests /\ Pending(D) \in SUBSET Requests
  <2>1. /\ E \in SUBSET Pending(Owned) /\ Cardinality(E) \in Nat
    BY <1>4, Parts
  <2>2. S \in SUBSET Pending(Owned) /\ Cardinality(S) \in Nat
    BY <1>3, Parts
  <2>3. /\ G \in SUBSET {r \in Owned : future[r] = "timeout"} /\ Cardinality(G) \in Nat
        /\ G \in SUBSET Requests
    BY <1>4, Parts
  <2>4. /\ Cardinality(D) = Cardinality(Pending(D)) + Cardinality(late)
        /\ Cardinality(D) \in Nat /\ Cardinality(Pending(D)) \in Nat
        /\ Cardinality(late) \in Nat
        /\ late \in SUBSET Requests /\ Pending(D) \in SUBSET Requests
    BY <1>3, <1>4, Parts DEF Pending
  <2>5. Cardinality(gone) \in Nat /\ gone \in SUBSET Requests
    BY <1>3, <1>4, Parts
  <2>6. Cardinality(rest) \in Nat /\ rest \in SUBSET Requests
    BY <1>4, Parts DEF Pending
  <2> QED BY <2>1, <2>2, <2>3, <2>4, <2>5, <2>6
<1>6. Cardinality(E) = Cardinality(Pending(D)) + Cardinality(rest)
  <2>1. Pending(D) \cap rest = {} /\ Pending(D) \cup rest = E
    BY <1>3 DEF Pending
  <2> HIDE DEF rest, E
  <2> QED BY <1>5, <2>1, Numbers
<1>7. Cardinality(late) <= Cardinality(G) /\ Cardinality(gone) <= Cardinality(G)
  <2>1. late \subseteq G /\ gone \subseteq G
    BY <1>3 DEF Pending
  <2> HIDE DEF late, gone, G
  <2> QED BY <1>5, <2>1, Numbers
<1>8. \A r \in Requests : future'[r] = IF r \in E THEN "error"
                                       ELSE IF r \in {} THEN "cancelled"
                                       ELSE IF r \in S THEN "result" ELSE future[r]
  BY <1>1 DEF Fails, Answered, Settle, Pending
<1>9. E \cap S = {} /\ Owned' = Owned \ (E \cup {} \cup S \cup G)
  BY <1>2, <1>3 DEF Pending
<1>10. /\ DOMAIN metrics' = Counters
       /\ metrics'.submitted = metrics.submitted /\ metrics'.timeout = metrics.timeout
       /\ metrics'.success = metrics.success + Cardinality(S)
       /\ metrics'.oom = metrics.oom + Cardinality(D) + Cardinality(rest)
       /\ metrics'.cancelled = metrics.cancelled + Cardinality(gone)
       /\ metrics.oom \in Nat /\ metrics.cancelled \in Nat /\ metrics.success \in Nat
  <2>1. DOMAIN metrics = Counters /\ \A c \in Counters : metrics[c] \in Nat
    BY DEF CountInv, CountersAreTyped
  <2> DEFINE m == CountEnds(D, F)
  <2>2. /\ DOMAIN m = Counters
        /\ m.submitted = metrics.submitted
        /\ m.timeout = metrics.timeout
        /\ m.success = metrics.success + Cardinality(S)
        /\ m.oom = metrics.oom + Cardinality(D)
        /\ m.cancelled = metrics.cancelled + Cardinality(gone)
    <3> HIDE DEF S, gone
    <3>1. m = [metrics EXCEPT !.oom = @ + Cardinality(D), !.success = @ + Cardinality(S),
                              !.cancelled = @ + Cardinality(gone)]
      BY DEF CountEnds, S, gone
    <3> HIDE DEF m
    <3> QED BY <2>1, <3>1 DEF Counters
  <2> HIDE DEF m, S, gone
  <2>3. metrics' = [m EXCEPT !.oom = @ + Cardinality(rest)]
    BY <1>1 DEF Fails, m
  <2> HIDE DEF rest
  <2> QED BY <2>1, <2>2, <2>3 DEF Counters
<1> HIDE DEF E, S, G, late, gone, rest
<1>11. C \in SUBSET Pending(Owned) /\ E \cap C = {} /\ C \cap S = {} /\ Cardinality(C) = 0
  BY FS_EmptySet
<1>12. /\ \A r \in Requests : future'[r] = IF r \in E THEN "error"
                                       ELSE IF r \in C THEN "cancelled"
                                       ELSE IF r \in S THEN "result" ELSE future[r]
       /\ Owned' = Owned \ (E \cup C \cup S \cup G)
  BY <1>8, <1>9
<1> HIDE DEF C
<1>13. /\ metrics'.oom \in Nat /\ metrics'.cancelled \in Nat
       /\ metrics'.oom >= metrics.oom + Cardinality(E)
       /\ metrics'.cancelled >= metrics.cancelled + Cardinality(C)
       /\ metrics'.oom + metrics'.cancelled
             <= metrics.oom + metrics.cancelled
                + Cardinality(E) + Cardinality(C) + 2 * Cardinality(G)
  BY <1>5, <1>6, <1>7, <1>10, <1>11
<1>14. /\ E \in SUBSET Pending(Owned) /\ S \in SUBSET Pending(Owned)
       /\ G \in SUBSET {r \in Owned : future[r] = "timeout"}
  BY <1>5
<1>15. /\ DOMAIN metrics' = Counters
       /\ metrics'.submitted = metrics.submitted /\ metrics'.timeout = metrics.timeout
       /\ metrics'.success = metrics.success + Cardinality(S)
  BY <1>10
<1> QED BY <1>9, <1>11, <1>12, <1>13, <1>14, <1>15, Leaving

(* and prefill, which counts nobody.                                         *)
LEMMA CountPrefill ==
    ASSUME CountInv, EngineInv, EngineInv', Prefill
    PROVE  CountInv'
<1>1. future' = future /\ metrics' = metrics /\ queue' = queue
  BY DEF Prefill
<1>2. PICK S \in SUBSET ToSet(prefilling) : Joins(S)
  BY PrefillMoves
<1>3. Owned' = Owned
  BY <1>1, <1>2, WhoIsOwned, OwnedNext DEF EngineInv, Joins
<1> QED BY <1>1, <1>3, CountStays

(* So they stay right in every step,                                         *)
LEMMA CountStep == CountInv /\ EngineInv /\ EngineInv' /\ [Next]_vars => CountInv'
<1> SUFFICES ASSUME CountInv, EngineInv, EngineInv', [Next]_vars PROVE CountInv'
  OBVIOUS
<1>1. CASE UNCHANGED vars
  BY <1>1, CountStays DEF vars, Owned
<1>2. CASE Wake \/ AdmitNoMore \/ Sleep
  <2>1. future' = future /\ metrics' = metrics /\ Owned' = Owned
    BY <1>2 DEF Wake, AdmitNoMore, Sleep, Owned
  <2> QED BY <2>1, CountStays
<1>3. ASSUME NEW r \in Requests, NEW p \in Prompts, NEW n \in Limits, Submit(r, p, n)
      PROVE  CountInv'
  BY <1>3, CountSubmit
<1>4. ASSUME NEW r \in Requests, Timeout(r) PROVE CountInv'
  BY <1>4, CountTimeout
<1>5. CASE Shutdown
  BY <1>5, CountShutdown
<1>6. CASE Admit
  BY <1>6, CountAdmit
<1>7. CASE Prefill
  BY <1>7, CountPrefill
<1>8. CASE Decode
  BY <1>8, CountDecode
<1>9. CASE DecodeNobody \/ Crash \/ FinishFails
  BY <1>9, CountFailure
<1> QED BY <1>1, <1>2, <1>3, <1>4, <1>5, <1>6, <1>7, <1>8, <1>9 DEF Next, Scheduler

(* and are right at first.                                                   *)
LEMMA CountInit == Init => CountInv
<1> SUFFICES ASSUME Init PROVE CountInv
  OBVIOUS
<1>1. /\ future = [r \in Requests |-> "new"]
      /\ metrics = [submitted |-> 0, success |-> 0, timeout |-> 0, cancelled |-> 0, oom |-> 0]
  BY DEF Init, NothingCounted
<1>2. /\ With("new") = Requests /\ With("result") = {} /\ With("timeout") = {}
      /\ With("error") = {} /\ With("cancelled") = {} /\ Gone = {} /\ Dropped = {}
  BY <1>1 DEF With, Gone, Dropped
<1>3. Cardinality({}) = 0 /\ Cardinality(Requests) \in Nat
  BY FS_EmptySet, Numbers
<1>4. CountersAreTyped
  BY <1>1 DEF CountersAreTyped, Counters
<1>5. CountsAreRight
  <2>1. /\ metrics.submitted = 0 /\ metrics.success = 0 /\ metrics.timeout = 0
        /\ metrics.cancelled = 0 /\ metrics.oom = 0
    BY <1>1
  <2>2. /\ Cardinality(With("new")) = Cardinality(Requests)
        /\ Cardinality(With("result")) = 0 /\ Cardinality(With("timeout")) = 0
        /\ Cardinality(With("error")) = 0 /\ Cardinality(With("cancelled")) = 0
        /\ Cardinality(Gone) = 0 /\ Cardinality(Dropped) = 0
    BY <1>2, <1>3
  <2> QED BY <1>3, <2>1, <2>2 DEF CountsAreRight
<1> QED BY <1>4, <1>5 DEF CountInv

(* This has all that OutcomesAreCounted says.                                *)
LEMMA CountsFollow == CountInv => OutcomesAreCounted
<1> SUFFICES ASSUME CountInv PROVE OutcomesAreCounted
  OBVIOUS
<1>1. /\ \A v : With(v) \in SUBSET Requests
      /\ Gone \in SUBSET With("timeout") /\ Dropped \in SUBSET Requests
  BY DEF With, Gone, Dropped
<1>2. /\ \A v : Cardinality(With(v)) \in Nat
      /\ Cardinality(Requests) \in Nat
      /\ Cardinality(Gone) \in Nat /\ Cardinality(Dropped) \in Nat
      /\ Cardinality(Gone) <= Cardinality(With("timeout"))
  <2>1. Gone \in SUBSET Requests /\ Requests \in SUBSET Requests
    BY <1>1
  <2> QED BY <1>1, <2>1, Numbers
<1>3. /\ CountsAreRight /\ \A c \in Counters : metrics[c] \in Nat
  BY DEF CountInv, CountersAreTyped
<1>4. /\ metrics.submitted \in Nat /\ metrics.oom \in Nat /\ metrics.cancelled \in Nat
  BY <1>3 DEF Counters
<1>5. \A v : Cardinality({r \in Requests : future[r] = v}) = Cardinality(With(v))
  BY DEF With
<1>6. Cardinality({r \in Requests : future[r] = "pending" /\ r \notin Owned})
          = Cardinality(Dropped)
  BY DEF Dropped
<1> QED BY <1>2, <1>3, <1>4, <1>5, <1>6 DEF OutcomesAreCounted, CountsAreRight

(* engine.py:281-291, :330-353, :386-401: every request is counted by its    *)
(* outcome, and only one that its client gave up, or that admission dropped, *)
(* more than once.                                                           *)
THEOREM EveryOutcomeIsCounted == Spec => []OutcomesAreCounted
<1>1. Spec => []EngineInv
  BY EngineInvariant
<1>2. CountInv /\ EngineInv /\ EngineInv' /\ [Next]_vars => CountInv'
  BY CountStep
<1>3. Spec => []CountInv
  BY <1>1, <1>2, CountInit, PTL DEF Spec
<1> QED BY <1>3, CountsFollow, PTL

-----------------------------------------------------------------------------
(* The engine implements Service, for any requests, prompts, pool and sizes: *)
(* initial states map to initial states, and every step to a step of Service *)
(* or to a stutter.                                                          *)

(* Service's sets, in the lists of the engine,                               *)
LEMMA View ==
    ASSUME EngineInv
    PROVE  /\ ToSet(Admitted) = ToSet(prefilling) \cup ToSet(running)
           /\ Dropping!InLine = ToSet(queue)
           /\ Dropping!Served = ToSet(running)
<1>1. /\ prefilling \in Seq(Requests) /\ running \in Seq(Requests)
      /\ ToSet(prefilling) \subseteq Requests /\ ToSet(running) \subseteq Requests
  BY ListLength DEF EngineInv, ListsAreTyped, IsList
<1>2. ToSet(Admitted) = ToSet(prefilling) \cup ToSet(running)
  BY <1>1, Joining DEF Admitted
<1>3. Dropping!InLine = ToSet(queue)
  BY DEF Dropping!InLine, ToSet
<1>4. Dropping!Served = ToSet(running)
  BY <1>1, <1>2 DEF Dropping!Served, EngineInv, RequestsAreInPlace, IsInPlace
<1> QED BY <1>2, <1>3, <1>4

(* and in the next state.                                                    *)
LEMMA AdmittedNext ==
    ASSUME EngineInv'
    PROVE  ToSet(Admitted)' = ToSet(prefilling') \cup ToSet(running')
<1>1. prefilling' \in Seq(Requests) /\ running' \in Seq(Requests)
  BY DEF EngineInv, ListsAreTyped, IsList
<1> QED BY <1>1, Joining DEF Admitted

(* The engine starts as the service does.                                    *)
LEMMA ServiceInit == Init => Dropping!Init
<1> SUFFICES ASSUME Init PROVE Dropping!Init
  OBVIOUS
<1>1. /\ queue = <<>> /\ prefilling = <<>> /\ running = <<>>
      /\ future = [r \in Requests |-> "new"] /\ pc = "sleep"
      /\ \A r \in Requests : req[r].max = 0 /\ req[r].gen = 0
  BY DEF Init, Request
<1>2. Admitted = <<>> /\ ToSet(<<>>) = {}
  BY <1>1 DEF Admitted, ToSet
<1> QED BY <1>1, <1>2 DEF Dropping!Init

(* A step of the service, or nothing that clients see.                       *)
Seen == Dropping!Next \/ UNCHANGED Dropping!vars

(* Each action, as the clients see it.                                       *)
LEMMA SubmitSeen ==
    ASSUME EngineInv, EngineInv', NEW r \in Requests, NEW p \in Prompts, NEW n \in Limits,
           Submit(r, p, n)
    PROVE  Dropping!Submit(r, n)
<1>1. /\ future' = [future EXCEPT ![r] = "pending"] /\ req' = [req EXCEPT ![r] = Request(p, n)]
      /\ queue' = Append(queue, r) /\ future[r] = "new"
      /\ prefilling' = prefilling /\ running' = running /\ pc' = pc
  BY DEF Submit
<1>2. Admitted' = Admitted
  BY <1>1 DEF Admitted
<1>3. DOMAIN req = Requests /\ req[r].gen = 0
  BY <1>1 DEF EngineInv, RequestsAreTyped, RequestsAreInPlace, IsInPlace
<1>4. Request(p, n).max = n /\ Request(p, n).gen = 0
  BY DEF Request
<1>5. [q \in Requests |-> req[q].gen]' = [q \in Requests |-> req[q].gen]
  BY <1>1, <1>3, <1>4
<1>6. [q \in Requests |-> req[q].max]' = [[q \in Requests |-> req[q].max] EXCEPT ![r] = n]
  BY <1>1, <1>3, <1>4
<1> QED BY <1>1, <1>2, <1>5, <1>6 DEF Dropping!Submit

LEMMA TimeoutSeen ==
    ASSUME NEW r \in Requests, Timeout(r)
    PROVE  Dropping!GiveUp(r)
BY DEF Timeout, Dropping!GiveUp, Admitted

LEMMA ShutdownSeen ==
    ASSUME EngineInv, EngineInv', Shutdown
    PROVE  Dropping!End("cancelled")
<1>1. /\ LetGo(pool, req, prefilling \o running) /\ future' = Settle(Owned, "cancelled")
      /\ pc' = "stopped"
  BY DEF Shutdown
<1>2. /\ ToSet(queue') = {} /\ ToSet(prefilling') = {} /\ ToSet(running') = {}
      /\ queue' = <<>>
      /\ \A r \in Requests : req'[r].max = req[r].max /\ req'[r].gen = req[r].gen
  BY <1>1, ReqIsReq, AllIsLetGo
<1>3. ToSet(Admitted)' = {}
  BY <1>2, AdmittedNext
<1>4. Owned = Dropping!InLine \cup ToSet(Admitted)
  BY View, WhoIsOwned DEF EngineInv
<1>5. Settle(Owned, "cancelled") =
          Dropping!Answered(Dropping!InLine \cup ToSet(Admitted), "cancelled")
  BY <1>4 DEF Settle, Dropping!Answered
<1>6. /\ [q \in Requests |-> req[q].gen]' = [q \in Requests |-> req[q].gen]
      /\ [q \in Requests |-> req[q].max]' = [q \in Requests |-> req[q].max]
  BY <1>2
<1> QED BY <1>1, <1>2, <1>3, <1>5, <1>6 DEF Dropping!End

LEMMA FailureSeen ==
    ASSUME EngineInv, EngineInv', DecodeNobody \/ Crash \/ FinishFails
    PROVE  \/ Dropping!End("error")
           \/ \E D, F \in SUBSET Requests : Dropping!Break(D, F)
<1>1. PICK B, D, F \in SUBSET ToSet(running) :
         /\ Fails(B, D, F)
         /\ (B = {} /\ F = {}) \/ (B = ToSet(running) \ D /\ F \subseteq B)
  BY FailureMoves
<1>2. /\ ~ (pc \in {"dead", "stopped"}) /\ pc' = "dead"
  <2>1. pc \in {"prefill", "decode"}
    BY DEF DecodeNobody, Crash, FinishFails
  <2>2. PICK g, freed, done : FailAll(g, freed, done)
    BY DEF DecodeNobody, Crash, FinishFails
  <2> QED BY <2>1, <2>2 DEF FailAll
<1>3. /\ ToSet(queue') = {} /\ ToSet(prefilling') = {} /\ ToSet(running') = {}
      /\ queue' = <<>> /\ future' = Answered(Owned \ F, F)
      /\ \A r \in Requests : /\ req'[r].max = req[r].max
                             /\ req'[r].gen = IF r \in B THEN req[r].gen + 1 ELSE req[r].gen
  BY <1>1 DEF Fails
<1>4. ToSet(Admitted)' = {}
  BY <1>3, AdmittedNext
<1>5. Owned = Dropping!InLine \cup ToSet(Admitted) /\ Dropping!Served = ToSet(running)
  BY View, WhoIsOwned DEF EngineInv
<1>6. [q \in Requests |-> req[q].max]' = [q \in Requests |-> req[q].max]
  BY <1>3
<1>7. CASE B = {} /\ F = {}
  <2>1. future' = Dropping!Answered(Dropping!InLine \cup ToSet(Admitted), "error")
    BY <1>3, <1>5, <1>7 DEF Answered, Settle, Dropping!Answered
  <2>2. [q \in Requests |-> req[q].gen]' = [q \in Requests |-> req[q].gen]
    BY <1>3, <1>7
  <2>3. Dropping!End("error")
    BY <1>2, <1>3, <1>4, <1>6, <2>1, <2>2 DEF Dropping!End
  <2> QED BY <2>3
<1>8. CASE B = ToSet(running) \ D /\ F \subseteq B
  <2>1. D \subseteq Dropping!Served /\ F \subseteq Dropping!Served \ D
    BY <1>5, <1>8
  <2>2. future' = [r \in Requests |->
                      IF r \in F THEN Dropping!Answered(F, "result")[r]
                      ELSE Dropping!Answered(Dropping!InLine \cup ToSet(Admitted), "error")[r]]
    BY <1>3, <1>5 DEF Answered, Settle, Dropping!Answered
  <2>3. [q \in Requests |-> req[q].gen]' =
            [r \in Requests |-> IF r \in Dropping!Served \ D
                                THEN [q \in Requests |-> req[q].gen][r] + 1
                                ELSE [q \in Requests |-> req[q].gen][r]]
    BY <1>3, <1>5, <1>8
  <2>4. Dropping!Break(D, F)
    BY <1>2, <1>3, <1>4, <1>6, <2>1, <2>2, <2>3 DEF Dropping!Break
  <2>5. D \in SUBSET Requests /\ F \in SUBSET Requests
    <3>1. ToSet(running) \subseteq Requests
      BY ListLength DEF EngineInv, ListsAreTyped, IsList
    <3> QED BY <3>1
  <2> QED BY <2>4, <2>5
<1> QED BY <1>1, <1>7, <1>8

LEMMA AdmitSeen ==
    ASSUME EngineInv, EngineInv', Admit
    PROVE  Dropping!Enter \/ Dropping!Drop
<1>1. /\ queue # <<>> /\ Len(prefilling) + Len(running) < MaxBatch
      /\ \A q \in Requests : req'[q].max = req[q].max /\ req'[q].gen = req[q].gen
      /\ \/ req' = req /\ prefilling' = prefilling
         \/ /\ ToSet(prefilling') = ToSet(prefilling) \cup {Head(queue)}
            /\ Len(prefilling') = Len(prefilling) + 1
  BY AdmitMoves
<1>2. /\ future' = future /\ running' = running /\ queue' = Tail(queue)
      /\ pc = "admit" /\ pc' \in {"admit", "prefill"}
  BY DEF Admit
<1>3. /\ [q \in Requests |-> req[q].gen]' = [q \in Requests |-> req[q].gen]
      /\ [q \in Requests |-> req[q].max]' = [q \in Requests |-> req[q].max]
      /\ pc \notin {"dead", "stopped"}
      /\ (pc \in {"dead", "stopped"})' = (pc \in {"dead", "stopped"})
  BY <1>1, <1>2
<1>4. Cardinality(ToSet(Admitted)) < MaxBatch
  <2>1. IsList(Admitted) /\ Len(Admitted) = Len(prefilling) + Len(running)
    BY Joining DEF Admitted, EngineInv, ListsAreTyped, IsList
  <2> QED BY <1>1, <2>1, ListSize
<1>5. CASE prefilling' = prefilling
  <2>1. Admitted' = Admitted
    BY <1>2, <1>5 DEF Admitted
  <2> QED BY <1>1, <1>2, <1>3, <2>1 DEF Dropping!Drop
<1>6. CASE ToSet(prefilling') = ToSet(prefilling) \cup {Head(queue)}
  <2>1. ToSet(Admitted)' = ToSet(Admitted) \cup {Head(queue)}
    BY <1>2, <1>6, View, AdmittedNext
  <2>2. Dropping!Cardinality(ToSet(Admitted)) = Cardinality(ToSet(Admitted))
    BY DEF Cardinality, Dropping!Cardinality
  <2> QED BY <1>1, <1>2, <1>3, <1>4, <2>1, <2>2 DEF Dropping!Enter
<1> QED BY <1>1, <1>5, <1>6

LEMMA PrefillSeen ==
    ASSUME EngineInv, EngineInv', Prefill
    PROVE  \E S \in SUBSET Requests : Dropping!FirstToken(S)
<1>1. PICK S \in SUBSET ToSet(prefilling) : Joins(S)
  BY PrefillMoves
<1> USE DEF Joins
<1>2. /\ future' = future /\ queue' = queue
      /\ ~ (pc \in {"dead", "stopped"})
      /\ (pc \in {"dead", "stopped"})' = (pc \in {"dead", "stopped"})
  <2>1. pc = "prefill" /\ pc' = "decode" /\ future' = future /\ queue' = queue
    BY DEF Prefill
  <2> QED BY <2>1
<1>3. ToSet(Admitted)' = ToSet(Admitted)
  BY <1>1, View, AdmittedNext
<1>4. S \subseteq ToSet(Admitted) \ Dropping!Served /\ S \in SUBSET Requests
  <2>1. ToSet(prefilling) \cap ToSet(running) = {} /\ ToSet(prefilling) \subseteq Requests
    BY ListLength DEF EngineInv, ListsAreTyped, IsList
  <2> QED BY <1>1, <2>1, View
<1>5. /\ [q \in Requests |-> req[q].gen]' =
            [r \in Requests |-> IF r \in S THEN 1 ELSE [q \in Requests |-> req[q].gen][r]]
      /\ [q \in Requests |-> req[q].max]' = [q \in Requests |-> req[q].max]
  BY <1>1
<1>6. Dropping!FirstToken(S)
  BY <1>2, <1>3, <1>4, <1>5 DEF Dropping!FirstToken
<1> QED BY <1>4, <1>6

LEMMA DecodeSeen ==
    ASSUME EngineInv, EngineInv', Decode
    PROVE  \E D, F \in SUBSET Requests : Dropping!Step(D, F)
<1>1. PICK D, F \in SUBSET ToSet(running) : Serves(D, F)
  BY DecodeMoves
<1> USE DEF Serves
<1>2. /\ queue' = queue /\ prefilling' = prefilling
      /\ ~ (pc \in {"dead", "stopped"})
      /\ (pc \in {"dead", "stopped"})' = (pc \in {"dead", "stopped"})
  <2>1. pc = "decode" /\ pc' = "admit" /\ queue' = queue /\ prefilling' = prefilling
    BY DEF Decode, DecodeFor
  <2> QED BY <2>1
<1>3. ToSet(running) \subseteq Requests /\ ToSet(prefilling) \cap ToSet(running) = {}
  BY ListLength DEF EngineInv, ListsAreTyped, IsList
<1>4. D \subseteq Dropping!Served /\ F \subseteq Dropping!Served \ D
  BY <1>1, View
<1>5. ToSet(Admitted)' = ToSet(Admitted) \ (D \cup F)
  BY <1>1, <1>2, <1>3, View, AdmittedNext
<1>6. /\ [q \in Requests |-> req[q].gen]' =
            [r \in Requests |-> IF r \in Dropping!Served \ D
                                THEN [q \in Requests |-> req[q].gen][r] + 1
                                ELSE [q \in Requests |-> req[q].gen][r]]
      /\ [q \in Requests |-> req[q].max]' = [q \in Requests |-> req[q].max]
  BY <1>1, View
<1>7. \A r \in Dropping!Served \ (D \cup F) :
         [q \in Requests |-> req[q].gen]'[r] < [q \in Requests |-> req[q].max][r]
  BY <1>1, <1>3, View
<1>8. future' = [r \in Requests |-> IF r \in D THEN Dropping!Answered(D, "error")[r]
                                    ELSE Dropping!Answered(F, "result")[r]]
  BY <1>1 DEF Answered, Settle, Dropping!Answered
<1>9. Dropping!Step(D, F)
  BY <1>2, <1>4, <1>5, <1>6, <1>7, <1>8 DEF Dropping!Step
<1> QED BY <1>1, <1>3, <1>9

(* What clients cannot see is a stutter: that is all the others do.          *)
LEMMA EveryStepSeen ==
    EngineInv /\ EngineInv' /\ [Next]_vars => [Dropping!Next]_(Dropping!vars)
<1> SUFFICES ASSUME EngineInv, EngineInv', [Next]_vars PROVE Seen
  BY DEF Seen
<1>1. ASSUME UNCHANGED <<queue, prefilling, running, req, future>>,
             (pc \in {"dead", "stopped"})' = (pc \in {"dead", "stopped"})
      PROVE  Seen
  BY <1>1 DEF Seen, Dropping!vars, Admitted
<1>2. CASE UNCHANGED vars
  BY <1>1, <1>2 DEF vars
<1>3. CASE Wake \/ AdmitNoMore \/ Sleep
  BY <1>1, <1>3 DEF Wake, AdmitNoMore, Sleep
<1>4. ASSUME NEW r \in Requests, NEW p \in Prompts, NEW n \in Limits, Submit(r, p, n)
      PROVE  Seen
  BY <1>4, SubmitSeen DEF Seen, Dropping!Next
<1>5. ASSUME NEW r \in Requests, Timeout(r) PROVE Seen
  BY <1>5, TimeoutSeen DEF Seen, Dropping!Next
<1>6. CASE Shutdown
  <2>1. Dropping!End("cancelled")
    BY <1>6, ShutdownSeen
  <2> QED BY <2>1 DEF Seen, Dropping!Next
<1>7. CASE DecodeNobody \/ Crash \/ FinishFails
  BY <1>7, FailureSeen DEF Seen, Dropping!Next
<1>8. CASE Admit
  BY <1>8, AdmitSeen DEF Seen, Dropping!Next
<1>9. CASE Prefill
  BY <1>9, PrefillSeen DEF Seen, Dropping!Next
<1>10. CASE Decode
  BY <1>10, DecodeSeen DEF Seen, Dropping!Next
<1> QED BY <1>2, <1>3, <1>4, <1>5, <1>6, <1>7, <1>8, <1>9, <1>10 DEF Next, Scheduler

(* ch07:147, ch10:125, engine.py:93: whatever the engine does with chunks,   *)
(* blocks and the prefix tree, its clients see the service: first come first *)
(* served, one token a step, one answer.                                     *)
THEOREM EngineImplementsService == Spec => AnswersTheAdmitted
<1>1. Spec => []EngineInv
  BY EngineInvariant
<1>2. EngineInv /\ EngineInv' /\ [Next]_vars => [Dropping!Next]_(Dropping!vars)
  BY EveryStepSeen
<1> QED BY <1>1, <1>2, ServiceInit, PTL DEF Spec, AnswersTheAdmitted, Dropping!Spec

-----------------------------------------------------------------------------
(* What is proved of the service holds of the engine.                        *)
Clients == INSTANCE Service_proofs
    WITH waiting <- queue, batch <- ToSet(Admitted),
         limit <- [r \in Requests |-> req[r].max],
         got <- [r \in Requests |-> req[r].gen],
         answer <- future, over <- pc \in {"dead", "stopped"}, MayDrop <- TRUE

(* Dropping and Clients are the same service: the same steps,                *)
LEMMA SameSteps == [Dropping!Next]_(Dropping!vars) <=> [Clients!Next]_(Clients!vars)
BY DEF Dropping!Next, Clients!Next, Dropping!vars, Clients!vars,
       Dropping!Submit, Clients!Submit, Dropping!GiveUp, Clients!GiveUp,
       Dropping!Enter, Clients!Enter, Dropping!Drop, Clients!Drop,
       Dropping!FirstToken, Clients!FirstToken, Dropping!Step, Clients!Step,
       Dropping!Break, Clients!Break, Dropping!End, Clients!End, Dropping!Served, Clients!Served,
       Dropping!InLine, Clients!InLine, Dropping!Answered, Clients!Answered,
       Dropping!Cardinality, Clients!Cardinality

(* with parameters as they should be.                                        *)
LEMMA ClientsAreServed == Clients!Parameters /\ (Spec => Clients!Spec)
<1>1. Clients!Parameters
  <2>1. Clients!IsFiniteSet(Requests)
    BY EngineAssumption DEF IsFiniteSet, Clients!IsFiniteSet
  <2> QED BY <2>1, EngineAssumption DEF Clients!Parameters
<1>2. Dropping!Init <=> Clients!Init
  BY DEF Dropping!Init, Clients!Init
<1>3. [Dropping!Next]_(Dropping!vars) <=> [Clients!Next]_(Clients!vars)
  BY SameSteps
<1>4. Spec => Clients!Spec
  BY <1>2, <1>3, EngineImplementsService, PTL
     DEF AnswersTheAdmitted, Dropping!Spec, Clients!Spec
<1> QED BY <1>1, <1>4

(* No request gets more tokens than it asked for, but for the second, which  *)
(* it gets before anyone looks (engine.py:302-314).                          *)
TokensAreWithinLimits == \A r \in Requests : req[r].gen <= 2 \/ req[r].gen <= req[r].max

(* For any limits, batch size and pool.                                      *)
THEOREM NobodyGetsTooMuch == Spec => []TokensAreWithinLimits
<1>1. Clients!TokensWithinLimit => TokensAreWithinLimits
  BY DEF Clients!TokensWithinLimit, TokensAreWithinLimits
<1> QED BY <1>1, ClientsAreServed, Clients!NoTokenTooMany, PTL

(* Of two requests that go on running neither gets ahead of the other, and   *)
(* neither loses tokens (ch07:147 "no starvation").                          *)
InStep ==
    \A r, s \in ToSet(running) :
        r \in ToSet(running') /\ s \in ToSet(running')
            => req'[r].gen - req[r].gen = req'[s].gen - req[s].gen
RunningKeepStep == [][InStep]_vars

(* Whoever is refused a block, finishes or joins in between.                 *)
THEOREM BatchStaysInStep == Spec => RunningKeepStep
<1>1. EngineInv /\ EngineInv' /\ Clients!TypeOK /\ [Next]_vars => [InStep]_vars
  <2> SUFFICES ASSUME EngineInv, EngineInv', Clients!TypeOK, [Next]_vars,
                      NEW r \in ToSet(running), NEW s \in ToSet(running),
                      r \in ToSet(running'), s \in ToSet(running')
               PROVE  req'[r].gen - req[r].gen = req'[s].gen - req[s].gen
    BY DEF InStep
  <2>1. /\ r \in Requests /\ s \in Requests
        /\ r \in Clients!Served /\ s \in Clients!Served
        /\ r \in ToSet(Admitted)' /\ s \in ToSet(Admitted)'
        /\ req[r].gen \in Nat /\ req[s].gen \in Nat
    <3>1. Clients!Served = Dropping!Served
      BY DEF Clients!Served, Dropping!Served
    <3>2. ToSet(running) \subseteq Requests
      BY ListLength DEF EngineInv, ListsAreTyped, IsList
    <3> QED BY <3>1, <3>2, View, AdmittedNext DEF EngineInv, RequestsAreTyped
  <2>2. [Clients!Next]_(Clients!vars)
    BY EveryStepSeen, SameSteps
  <2>3. CASE UNCHANGED Clients!vars
    <3>1. [q \in Requests |-> req'[q].gen] = [q \in Requests |-> req[q].gen]
      BY <2>3 DEF Clients!vars
    <3>2. req'[r].gen = req[r].gen /\ req'[s].gen = req[s].gen
      BY <2>1, <3>1
    <3> QED BY <2>1, <3>2
  <2>4. CASE ~ UNCHANGED Clients!vars
    BY <2>1, <2>2, <2>4, Clients!TokenStep
  <2> QED BY <2>3, <2>4
<1>2. Spec => []Clients!TypeOK
  <2>1. Clients!IInv => Clients!TypeOK
    BY DEF Clients!IInv
  <2> QED BY <2>1, ClientsAreServed, Clients!Invariance, PTL
<1> QED BY <1>1, <1>2, EngineInvariant, PTL DEF RunningKeepStep, Spec

=============================================================================
