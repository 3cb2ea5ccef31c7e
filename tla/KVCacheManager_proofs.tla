----------------------- MODULE KVCacheManager_proofs -----------------------
(***************************************************************************)
(* Proofs about the KV-cache manager, for every set of requests, number of *)
(* blocks and block size.  First the sequences it is built from, then the  *)
(* two ways it moves references (Allocate and DecRefAll), then one lemma   *)
(* per action, then the theorems, then that it implements BlockOwnership.  *)
(***************************************************************************)
EXTENDS KVCacheManager, FiniteSetTheorems, SequenceTheorems, TLAPS

-----------------------------------------------------------------------------
(* Cutting a sequence without repetition gives two that share nothing.       *)
LEMMA SplitDistinct ==
    ASSUME NEW S, NEW s \in Seq(S), IsInjective(s), NEW k \in 0 .. Len(s)
    PROVE  LET a == SubSeq(s, 1, k)
               b == SubSeq(s, k + 1, Len(s))
           IN  /\ a \in Seq(S) /\ IsInjective(a)
               /\ b \in Seq(S) /\ IsInjective(b)
               /\ Range(a) \cap Range(b) = {}
               /\ Range(a) \cup Range(b) = Range(s)
               /\ Range(b) = {s[i] : i \in k + 1 .. Len(s)}
<1> DEFINE a == SubSeq(s, 1, k)
           b == SubSeq(s, k + 1, Len(s))
<1>0. Len(s) \in Nat /\ DOMAIN s = 1 .. Len(s) /\ \A i \in 1 .. Len(s) : s[i] \in S
  BY LenProperties, ElementOfSeq
<1>a. Len(s) \in Nat /\ k \in Nat /\ k <= Len(s)  BY LenProperties
<1>1. a \in Seq(S) /\ Len(a) = k /\ \A i \in 1 .. k : a[i] = s[i]
  <2>1. \A i \in 1 .. k : s[i] \in S  BY <1>0
  <2>2. k \in Int /\ 1 \in Int  BY <1>0
  <2> HIDE DEF a
  <2>3. /\ SubSeq(s, 1, k) \in Seq(S)
        /\ Len(SubSeq(s, 1, k)) = IF 1 <= k THEN k - 1 + 1 ELSE 0
        /\ \A i \in 1 .. k - 1 + 1 : SubSeq(s, 1, k)[i] = s[1 + i - 1]
    BY <2>1, <2>2, SubSeqProperties
  <2> QED BY <2>3, <1>0 DEF a
<1>2. b \in Seq(S) /\ Len(b) = Len(s) - k /\ \A i \in 1 .. Len(s) - k : b[i] = s[k + i]
  <2>1. \A i \in k + 1 .. Len(s) : s[i] \in S  BY <1>0
  <2>2. k + 1 \in Int /\ Len(s) \in Int  BY <1>0
  <2> HIDE DEF b
  <2>3. /\ SubSeq(s, k + 1, Len(s)) \in Seq(S)
        /\ Len(SubSeq(s, k + 1, Len(s))) =
              IF k + 1 <= Len(s) THEN Len(s) - (k + 1) + 1 ELSE 0
        /\ \A i \in 1 .. Len(s) - (k + 1) + 1 :
              SubSeq(s, k + 1, Len(s))[i] = s[k + 1 + i - 1]
    BY <2>1, <2>2, SubSeqProperties
  <2>4. Len(s) - (k + 1) + 1 = Len(s) - k  BY <1>0
  <2>5. Len(b) = Len(s) - k
    <3>1. CASE k < Len(s)
      <4>1. k + 1 <= Len(s)  BY <1>0, <3>1
      <4> QED BY <2>3, <2>4, <4>1 DEF b
    <3>2. CASE k = Len(s)
      <4>1. ~ (k + 1 <= Len(s)) /\ Len(s) - k = 0  BY <1>0, <3>2
      <4> QED BY <2>3, <4>1 DEF b
    <3>3. k < Len(s) \/ k = Len(s)  BY <1>a
    <3> QED BY <3>1, <3>2, <3>3
  <2>6. ASSUME NEW i \in 1 .. Len(s) - k
        PROVE  b[i] = s[k + i]
    <3>1. i \in 1 .. Len(s) - (k + 1) + 1  BY <1>0, <2>4
    <3>2. SubSeq(s, k + 1, Len(s))[i] = s[k + 1 + i - 1]  BY <2>3, <3>1
    <3>3. k + 1 + i - 1 = k + i  BY <1>0
    <3>4. SubSeq(s, k + 1, Len(s))[i] = s[k + i]  BY <3>2, <3>3
    <3> QED BY <3>4 DEF b
  <2>7. b \in Seq(S)  BY <2>3 DEF b
  <2> QED BY <2>5, <2>6, <2>7
<1> HIDE DEF a, b
<1>3. DOMAIN a = 1 .. k /\ DOMAIN b = 1 .. Len(s) - k
  BY <1>1, <1>2, LenProperties
<1>4. IsInjective(a)  BY <1>0, <1>1, <1>3 DEF IsInjective
<1>5. IsInjective(b)
  <2>1. \A i \in 1 .. Len(s) - k : k + i \in 1 .. Len(s)  BY <1>0
  <2>2. ASSUME NEW i \in 1 .. Len(s) - k, NEW j \in 1 .. Len(s) - k, b[i] = b[j]
        PROVE  i = j
    <3>1. k + i = k + j  BY <1>0, <1>2, <2>1, <2>2 DEF IsInjective
    <3> QED BY <1>0, <3>1
  <2> QED BY <1>3, <2>2 DEF IsInjective
<1>6. Range(a) = {s[i] : i \in 1 .. k}  BY <1>1, <1>3 DEF Range
<1>7. Range(b) = {s[i] : i \in k + 1 .. Len(s)}
  <2>1. \A i \in 1 .. Len(s) - k : k + i \in k + 1 .. Len(s)  BY <1>0
  <2>2. \A i \in k + 1 .. Len(s) : i - k \in 1 .. Len(s) - k /\ s[i] = b[i - k]
    BY <1>0, <1>2
  <2> QED BY <1>2, <1>3, <2>1, <2>2 DEF Range
<1>8. Range(a) \cap Range(b) = {}  BY <1>0, <1>6, <1>7 DEF IsInjective
<1>9. Range(a) \cup Range(b) = Range(s)
  <2>1. 1 .. Len(s) = (1 .. k) \cup (k + 1 .. Len(s))  BY <1>0
  <2>2. Range(s) = {s[i] : i \in 1 .. Len(s)}  BY <1>0 DEF Range
  <2> QED BY <1>6, <1>7, <2>1, <2>2
<1> QED BY <1>1, <1>2, <1>4, <1>5, <1>7, <1>8, <1>9 DEF a, b

(* Joining two sequences that repeat nothing and share nothing.              *)
LEMMA JoinDistinct ==
    ASSUME NEW S, NEW s \in Seq(S), NEW t \in Seq(S),
           IsInjective(s), IsInjective(t), Range(s) \cap Range(t) = {}
    PROVE  /\ s \o t \in Seq(S)
           /\ IsInjective(s \o t)
           /\ Range(s \o t) = Range(s) \cup Range(t)
<1>1. /\ Len(s) \in Nat /\ DOMAIN s = 1 .. Len(s)
      /\ Len(t) \in Nat /\ DOMAIN t = 1 .. Len(t)
  BY LenProperties
<1>2. /\ s \o t \in Seq(S)
      /\ Len(s \o t) = Len(s) + Len(t)
      /\ \A i \in 1 .. Len(s) + Len(t) :
            (s \o t)[i] = IF i <= Len(s) THEN s[i] ELSE t[i - Len(s)]
  BY ConcatProperties
<1>3. DOMAIN (s \o t) = 1 .. Len(s) + Len(t)  BY <1>2, LenProperties
<1>4. ASSUME NEW i \in 1 .. Len(s) + Len(t), NEW j \in 1 .. Len(s) + Len(t),
             (s \o t)[i] = (s \o t)[j]
      PROVE  i = j
  <2>1. CASE i <= Len(s) /\ j <= Len(s)  BY <1>1, <1>2, <1>4, <2>1 DEF IsInjective
  <2>2. CASE i > Len(s) /\ j > Len(s)
    <3>1. i - Len(s) \in DOMAIN t /\ j - Len(s) \in DOMAIN t  BY <1>1, <2>2
    <3>2. t[i - Len(s)] = t[j - Len(s)]  BY <1>1, <1>2, <1>4, <2>2
    <3> QED BY <1>1, <3>1, <3>2 DEF IsInjective
  <2>3. CASE i <= Len(s) /\ j > Len(s)
    <3>1. s[i] \in Range(s) /\ t[j - Len(s)] \in Range(t)  BY <1>1, <2>3 DEF Range
    <3> QED BY <1>1, <1>2, <1>4, <2>3, <3>1
  <2>4. CASE i > Len(s) /\ j <= Len(s)
    <3>1. s[j] \in Range(s) /\ t[i - Len(s)] \in Range(t)  BY <1>1, <2>4 DEF Range
    <3> QED BY <1>1, <1>2, <1>4, <2>4, <3>1
  <2> QED BY <1>1, <2>1, <2>2, <2>3, <2>4
<1> QED BY <1>2, <1>3, <1>4, RangeConcatenation DEF IsInjective

(* What dec_ref appends to the free list: each released block, once.         *)
LEMMA InOrderOfEnumerates ==
    ASSUME NEW S, NEW s \in Seq(S), IsInjective(s),
           NEW T \in SUBSET S, IsFiniteSet(T), NEW q \in InOrderOf(s, T)
    PROVE  q \in Seq(T) /\ IsInjective(q) /\ Range(q) = T
<1> DEFINE n == Cardinality(T)
<1>1. n \in Nat  BY FS_CardinalityType
<1>2. q \in [1 .. n -> T] /\ DOMAIN q = 1 .. n  BY DEF InOrderOf
<1>3. \A i, j \in 1 .. n : i < j => q[i] # q[j]
  <2> SUFFICES ASSUME NEW i \in 1 .. n, NEW j \in 1 .. n, i < j
               PROVE  q[i] # q[j]
    OBVIOUS
  <2>1. PICK k \in DOMAIN s, l \in DOMAIN s : k < l /\ s[k] = q[i] /\ s[l] = q[j]
    BY <1>2 DEF InOrderOf
  <2> QED BY <2>1, LenProperties DEF IsInjective
<1> HIDE DEF n
<1>4. IsInjective(q)  BY <1>1, <1>2, <1>3 DEF IsInjective
<1>5. Range(q) = T
  <2>1. IsFiniteSet(1 .. n) /\ Cardinality(1 .. n) = n
    BY <1>1, FS_Interval
  <2>2. q \in Injection(1 .. n, T)  BY <1>2, <1>4 DEF Injection
  <2>3. q \in Surjection(1 .. n, T)  BY <2>1, <2>2, FS_Injection DEF n
  <2> QED BY <1>2, <2>3 DEF Surjection, Range
<1>6. q \in Seq(T)  BY <1>1, <1>2, SeqDef
<1> QED BY <1>4, <1>5, <1>6

-----------------------------------------------------------------------------
(* Finitely many hold a block, so that counting them makes sense.            *)
LEMMA HoldersFinite ==
    \A b : IsFiniteSet(Holders(b)) /\ Cardinality(Holders(b)) \in Nat
<1> SUFFICES ASSUME NEW b
             PROVE  IsFiniteSet(Holders(b)) /\ Cardinality(Holders(b)) \in Nat
  OBVIOUS
<1> DEFINE readers == {r \in Requests : b \in Range(table[r])}
           keeper == IF b \in cached THEN {Cache} ELSE {}
<1>1. IsFiniteSet(readers)
  <2>1. readers \in SUBSET Requests  OBVIOUS
  <2> QED BY <2>1, FS_Subset, RequestsAssumption
<1>2. IsFiniteSet(keeper)  BY FS_EmptySet, FS_Singleton
<1>3. IsFiniteSet(readers \cup keeper)
  <2> HIDE DEF readers, keeper
  <2> QED BY <1>1, <1>2, FS_Union
<1>4. Holders(b) = readers \cup keeper  BY DEF Holders
<1> QED BY <1>3, <1>4, FS_CardinalityType

(* A block that is not referenced is nobody's.                               *)
LEMMA FreeIsUnheld ==
    ASSUME IInv, open, NEW b \in Range(free)
    PROVE  /\ b \in Blocks
           /\ ref[b] = 0
           /\ b \notin cached
           /\ b \notin stored
           /\ \A r \in Requests : b \notin Range(table[r])
<1>1. b \in Blocks /\ b \notin used
  BY DEF IInv, FreeIffUnreferenced
<1>2. ref[b] = 0
  BY <1>1 DEF IInv, TypeOK, FreeIffUnreferenced
<1>3. Holders(b) = {}
  <2>1. Cardinality(Holders(b)) = 0
    BY <1>1, <1>2 DEF IInv, RefCountIsHolders
  <2> QED BY <2>1, HoldersFinite, FS_EmptySet
<1>4. b \notin stored
  BY <1>1 DEF IInv, StoredWithinUsed
<1> QED BY <1>1, <1>2, <1>3, <1>4 DEF Holders

(* A block somebody holds is referenced and in use.                          *)
LEMMA HeldIsReferenced ==
    ASSUME IInv, open, NEW b \in Blocks, Holders(b) # {}
    PROVE  ref[b] > 0 /\ b \in used
<1>1. Cardinality(Holders(b)) # 0
  BY HoldersFinite, FS_EmptySet
<1>2. ref[b] = Cardinality(Holders(b)) /\ ref[b] \in Nat
  BY DEF IInv, TypeOK, RefCountIsHolders
<1> QED BY <1>1, <1>2 DEF IInv, FreeIffUnreferenced

(* How many blocks allocate() takes is a number.                             *)
LEMMA NumNeedType ==
    ASSUME NEW len \in Nat, NEW n \in Nat
    PROVE  NumNeed(len, n) \in Nat
BY SizesAssumption DEF NumNeed

(* What reusing and allocating do to the references: a table that grows to   *)
(* base followed by blocks of the free list counts once more on each block   *)
(* it did not hold.                                                          *)
LEMMA AllocateKeepsCounts ==
    ASSUME IInv, open, NEW r \in Requests, NEW n \in Nat,
           NEW base \in Seq(Blocks), IsInjective(base),
           Range(table[r]) \subseteq Range(base),
           Range(base) \ Range(table[r]) \subseteq cached,
           Allocate(r, base, n), UNCHANGED <<stored, cached, open>>
    PROVE  /\ ref' \in [Blocks -> Nat]
           /\ free' \in Seq(Blocks) /\ IsInjective(free')
           /\ used' \subseteq Blocks
           /\ table' \in [Requests -> Seq(Blocks)]
           /\ \A p \in Requests : IsInjective(table'[p])
           /\ RefCountIsHolders' /\ FreeIffUnreferenced' /\ StoredWithinUsed'
           /\ \E got \in Seq(Blocks) : /\ table' = [table EXCEPT ![r] = base \o got]
                                       /\ Range(got) \subseteq Range(free)
                                       /\ Range(table'[r]) = Range(base) \cup Range(got)
<1> DEFINE need == NumNeed(Len(base), n)
           got == SubSeq(free, 1, need)
           rest == SubSeq(free, need + 1, Len(free))
           new == Range(base \o got) \ Range(table[r])
<1>1. TypeOK /\ RefCountIsHolders /\ FreeIffUnreferenced /\ StoredWithinUsed
  BY DEF IInv
<1>2. /\ Len(free) >= need
      /\ table' = [table EXCEPT ![r] = base \o got]
      /\ free' = rest
      /\ used' = used \cup Range(got)
      /\ ref' = [b \in Blocks |-> IF b \in new THEN ref[b] + 1 ELSE ref[b]]
  BY DEF Allocate
<1>3. need \in 0 .. Len(free)
  BY <1>1, <1>2, LenProperties, NumNeedType DEF TypeOK
<1> HIDE DEF need
<1>4. /\ got \in Seq(Blocks) /\ IsInjective(got)
      /\ rest \in Seq(Blocks) /\ IsInjective(rest)
      /\ Range(got) \cap Range(rest) = {}
      /\ Range(got) \cup Range(rest) = Range(free)
  BY <1>1, <1>3, SplitDistinct DEF TypeOK
<1> HIDE DEF got, rest
<1>5. \A b \in Range(got) : /\ b \in Blocks /\ ref[b] = 0 /\ b \notin cached
                            /\ \A p \in Requests : b \notin Range(table[p])
  BY <1>4, FreeIsUnheld
<1>6. Range(base) \cap Range(got) = {}
  BY <1>5
<1>7. /\ base \o got \in Seq(Blocks)
      /\ IsInjective(base \o got)
      /\ Range(base \o got) = Range(base) \cup Range(got)
  BY <1>4, <1>6, JoinDistinct
<1>8. table'[r] = base \o got /\ \A p \in Requests \ {r} : table'[p] = table[p]
  BY <1>1, <1>2 DEF TypeOK
<1>9. table' \in [Requests -> Seq(Blocks)] /\ \A p \in Requests : IsInjective(table'[p])
  BY <1>1, <1>2, <1>7, <1>8 DEF TypeOK
<1>10. ref' \in [Blocks -> Nat]
  BY <1>1, <1>2 DEF TypeOK
<1>11. RefCountIsHolders'
  <2> SUFFICES ASSUME NEW b \in Blocks
               PROVE  ref'[b] = Cardinality(Holders(b)')
    BY DEF RefCountIsHolders
  <2>1. ref[b] = Cardinality(Holders(b))
    BY <1>1 DEF RefCountIsHolders
  <2>2. CASE b \in new
    <3>1. Holders(b)' = Holders(b) \cup {r}
      BY <1>7, <1>8, <2>2 DEF Holders
    <3>2. r \notin Holders(b)
      BY <2>2, RequestsAssumption DEF Holders
    <3>3. Cardinality(Holders(b) \cup {r}) = Cardinality(Holders(b)) + 1
      BY <3>2, HoldersFinite, FS_AddElement
    <3> QED BY <1>2, <2>1, <2>2, <3>1, <3>3
  <2>3. CASE b \notin new
    <3>1. b \in Range(table'[r]) <=> b \in Range(table[r])
      BY <1>7, <1>8, <2>3
    <3>2. Holders(b)' = Holders(b)
      BY <1>8, <3>1 DEF Holders
    <3> QED BY <1>2, <2>1, <2>3, <3>2
  <2> QED BY <2>2, <2>3
<1>12. FreeIffUnreferenced'
  <2>1. used' = {b \in Blocks : ref'[b] > 0}
    <3> SUFFICES ASSUME NEW b \in Blocks
                 PROVE  b \in used' <=> ref'[b] > 0
      BY <1>1, <1>2, <1>5 DEF TypeOK
    <3>1. ref[b] \in Nat /\ (b \in used <=> ref[b] > 0)
      BY <1>1 DEF TypeOK, FreeIffUnreferenced
    <3>2. CASE b \in Range(got)
      BY <1>2, <1>5, <1>7, <3>1, <3>2
    <3>3. CASE b \notin Range(got) /\ b \in new
      <4>1. b \in cached
        BY <1>7, <3>3
      <4>2. b \in used
        BY <4>1, HeldIsReferenced DEF Holders
      <4> QED BY <1>2, <3>1, <3>3, <4>2
    <3>4. CASE b \notin Range(got) /\ b \notin new
      BY <1>2, <3>1, <3>4
    <3> QED BY <3>2, <3>3, <3>4
  <2>2. Range(free') = Blocks \ used'
    BY <1>1, <1>2, <1>4 DEF FreeIffUnreferenced
  <2> QED BY <2>1, <2>2 DEF FreeIffUnreferenced
<1>13. StoredWithinUsed'
  BY <1>1, <1>2 DEF StoredWithinUsed
<1>14. used' \subseteq Blocks
  BY <1>1, <1>2, <1>5 DEF TypeOK
<1> QED BY <1>2, <1>4, <1>7, <1>8, <1>9, <1>10, <1>11, <1>12, <1>13, <1>14

(* What giving references back does: holder h leaves the blocks of s.        *)
LEMMA DecRefKeepsCounts ==
    ASSUME IInv, open, open' = open,
           NEW s \in Seq(Blocks), IsInjective(s), DecRefAll(s), NEW h,
           \A b \in Range(s) : h \in Holders(b),
           \A b \in Blocks : Holders(b)' = IF b \in Range(s) THEN Holders(b) \ {h}
                                                             ELSE Holders(b)
    PROVE  /\ ref' \in [Blocks -> Nat]
           /\ free' \in Seq(Blocks) /\ IsInjective(free')
           /\ used' \subseteq Blocks /\ stored' \subseteq Blocks
           /\ RefCountIsHolders' /\ FreeIffUnreferenced' /\ StoredWithinUsed'
<1> DEFINE gone == {b \in Range(s) : ref[b] = 1}
<1>1. TypeOK /\ RefCountIsHolders /\ FreeIffUnreferenced /\ StoredWithinUsed
  BY DEF IInv
<1>2. Range(s) \subseteq Blocks
  BY RangeOfSeq
<1>3. PICK q \in InOrderOf(s, gone) : free' = free \o q
  BY DEF DecRefAll
<1>4. /\ ref' = [b \in Blocks |-> IF b \in Range(s) THEN ref[b] - 1 ELSE ref[b]]
      /\ used' = used \ gone
      /\ stored' = stored \ gone
  BY DEF DecRefAll
<1>5. \A b \in Range(s) : ref[b] > 0 /\ b \in used
  BY <1>2, HeldIsReferenced
<1>6. gone \in SUBSET Blocks /\ IsFiniteSet(gone)
  <2>1. gone \in SUBSET Blocks  BY <1>2
  <2>2. IsFiniteSet(Blocks)  BY SizesAssumption, FS_Interval DEF Blocks
  <2> QED BY <2>1, <2>2, FS_Subset
<1>7. q \in Seq(gone) /\ IsInjective(q) /\ Range(q) = gone
  <2> HIDE DEF gone
  <2> QED BY <1>3, <1>6, InOrderOfEnumerates
<1>8. q \in Seq(Blocks)
  <2> HIDE DEF gone
  <2> QED BY <1>6, <1>7, SeqMonotonic
<1>9. Range(free) \cap Range(q) = {}
  BY <1>1, <1>5, <1>7 DEF FreeIffUnreferenced
<1>10. /\ free' \in Seq(Blocks) /\ IsInjective(free')
       /\ Range(free') = Range(free) \cup gone
  BY <1>1, <1>3, <1>7, <1>8, <1>9, JoinDistinct DEF TypeOK
<1>11. ref' \in [Blocks -> Nat]
  BY <1>1, <1>2, <1>4, <1>5 DEF TypeOK
<1>12. RefCountIsHolders'
  <2> SUFFICES ASSUME NEW b \in Blocks
               PROVE  ref'[b] = Cardinality(Holders(b)')
    BY DEF RefCountIsHolders
  <2>1. ref[b] = Cardinality(Holders(b))
    BY <1>1 DEF RefCountIsHolders
  <2>2. CASE b \in Range(s)
    <3>1. Cardinality(Holders(b) \ {h}) = Cardinality(Holders(b)) - 1
      BY <2>2, HoldersFinite, FS_RemoveElement
    <3>2. Holders(b)' = Holders(b) \ {h}  BY <2>2
    <3> QED BY <1>4, <2>1, <2>2, <3>1, <3>2
  <2>3. CASE b \notin Range(s)
    <3>1. Holders(b)' = Holders(b)  BY <2>3
    <3> QED BY <1>4, <2>1, <2>3, <3>1
  <2> QED BY <2>2, <2>3
<1>13. FreeIffUnreferenced'
  <2>1. used' = {b \in Blocks : ref'[b] > 0}
    <3> SUFFICES ASSUME NEW b \in Blocks
                 PROVE  b \in used' <=> ref'[b] > 0
      BY <1>1, <1>4 DEF TypeOK
    <3>1. ref[b] \in Nat /\ (b \in used <=> ref[b] > 0)
      BY <1>1 DEF TypeOK, FreeIffUnreferenced
    <3> QED BY <1>4, <3>1
  <2>2. Range(free') = Blocks \ used'
    BY <1>1, <1>4, <1>6, <1>10 DEF FreeIffUnreferenced
  <2> QED BY <2>1, <2>2 DEF FreeIffUnreferenced
<1>14. StoredWithinUsed'
  BY <1>1, <1>4 DEF StoredWithinUsed
<1> QED BY <1>1, <1>4, <1>10, <1>11, <1>12, <1>13, <1>14 DEF TypeOK

(* The allocated part of a table is part of it.                              *)
LEMMA FreshInTable ==
    TypeOK => \A r \in Requests :
        /\ Range(Fresh(r)) \subseteq Range(table[r])
        /\ Range(Fresh(r)) = {table[r][i] : i \in matched[r] + 1 .. Len(table[r])}
<1> SUFFICES ASSUME TypeOK, NEW r \in Requests
             PROVE  /\ Range(Fresh(r)) \subseteq Range(table[r])
                    /\ Range(Fresh(r)) = {table[r][i] : i \in matched[r] + 1 .. Len(table[r])}
  OBVIOUS
<1>1. /\ table[r] \in Seq(Blocks) /\ IsInjective(table[r])
      /\ matched[r] \in 0 .. Len(table[r])
  BY LenProperties DEF TypeOK
<1> QED BY <1>1, SplitDistinct DEF Fresh

(* A sequence the cache offers or evicts is one of blocks, none twice.       *)
LEMMA CachedSeqs ==
    ASSUME TypeOK, NEW s \in DistinctSeqs(cached)
    PROVE  s \in Seq(Blocks) /\ IsInjective(s) /\ Range(s) \subseteq cached
<1>1. s \in UNION {[1 .. k -> cached] : k \in 0 .. Cardinality(cached)} /\ IsInjective(s)
  BY DEF DistinctSeqs
<1>2. IsFiniteSet(cached)
  <2>1. IsFiniteSet(Blocks)  BY SizesAssumption, FS_Interval DEF Blocks
  <2>2. cached \in SUBSET Blocks  BY DEF TypeOK
  <2> QED BY <2>1, <2>2, FS_Subset
<1>3. PICK k \in 0 .. Cardinality(cached) : s \in [1 .. k -> cached]
  BY <1>1
<1>4. k \in Nat
  BY <1>2, FS_CardinalityType
<1>5. s \in Seq(cached)
  BY <1>3, <1>4, SeqDef
<1>6. s \in Seq(Blocks)
  BY <1>5, SeqMonotonic DEF TypeOK
<1> QED BY <1>1, <1>5, <1>6, RangeOfSeq

(* The free list of a new manager, and of one that was reset.                *)
LEMMA FullFreeList ==
    LET all == [i \in 1 .. NumBlocks |-> i - 1]
    IN  all \in Seq(Blocks) /\ IsInjective(all) /\ Range(all) = Blocks
<1> DEFINE all == [i \in 1 .. NumBlocks |-> i - 1]
<1>1. all \in [1 .. NumBlocks -> Blocks]
  BY SizesAssumption DEF Blocks
<1>2. all \in Seq(Blocks)
  BY <1>1, SeqDef, SizesAssumption
<1>3. IsInjective(all)
  BY SizesAssumption DEF IsInjective
<1>4. \A b \in Blocks : b + 1 \in 1 .. NumBlocks /\ all[b + 1] = b
  BY SizesAssumption DEF Blocks
<1>5. Range(all) = Blocks
  <2>1. DOMAIN all = 1 .. NumBlocks  OBVIOUS
  <2> HIDE DEF all
  <2> QED BY <1>1, <1>4, <2>1 DEF Range
<1> QED BY <1>2, <1>3, <1>5

-----------------------------------------------------------------------------
(* The invariant holds initially, and every action preserves it.             *)
LEMMA InitIInv == Init => IInv
<1> SUFFICES ASSUME Init PROVE IInv
  OBVIOUS
<1>1. free \in Seq(Blocks) /\ IsInjective(free) /\ Range(free) = Blocks
  BY FullFreeList DEF Init
<1>2. /\ <<>> \in Seq(Blocks) /\ Len(<<>>) = 0
      /\ Range(<<>>) = {} /\ IsInjective(<<>>)
  BY EmptySeq DEF Range, IsInjective
<1>3. TypeOK
  BY <1>1, <1>2 DEF Init, TypeOK, Phases
<1>4. RefCountIsHolders
  <2>1. \A b \in Blocks : Holders(b) = {}
    BY <1>2 DEF Init, Holders
  <2> QED BY <2>1, FS_EmptySet DEF Init, RefCountIsHolders
<1>5. FreeIffUnreferenced
  BY <1>1 DEF Init, FreeIffUnreferenced
<1>6. StoredWithinUsed /\ FreshBlocksAreOwned
  BY DEF Init, StoredWithinUsed, FreshBlocksAreOwned
<1> QED BY <1>3, <1>4, <1>5, <1>6 DEF IInv

(* Admission: the reused blocks gain a holder and a reference, the           *)
(* allocated ones, which nobody held, their first.                           *)
LEMMA AdmitKeepsIInv ==
    ASSUME IInv, NEW r \in Requests, NEW hit \in DistinctSeqs(cached),
           NEW n \in 1 .. MaxTokens, Admit(r, hit, n)
    PROVE  IInv'
<1>1. TypeOK /\ open /\ phase[r] = "none" /\ n \in Nat
  BY SizesAssumption DEF IInv, Admit
<1>2. hit \in Seq(Blocks) /\ IsInjective(hit) /\ Range(hit) \subseteq cached
  BY <1>1, CachedSeqs
<1>3. table[r] = <<>> /\ Range(table[r]) = {}
  BY <1>1 DEF TypeOK, Range
<1>4. Allocate(r, hit, n) /\ UNCHANGED <<stored, cached, open>>
  BY DEF Admit
<1>5. /\ ref' \in [Blocks -> Nat]
      /\ free' \in Seq(Blocks) /\ IsInjective(free')
      /\ used' \subseteq Blocks
      /\ table' \in [Requests -> Seq(Blocks)]
      /\ \A p \in Requests : IsInjective(table'[p])
      /\ RefCountIsHolders' /\ FreeIffUnreferenced' /\ StoredWithinUsed'
      /\ \E got \in Seq(Blocks) : /\ table' = [table EXCEPT ![r] = hit \o got]
                                  /\ Range(got) \subseteq Range(free)
                                  /\ Range(table'[r]) = Range(hit) \cup Range(got)
  BY <1>1, <1>2, <1>3, <1>4, AllocateKeepsCounts
<1>6. PICK got \in Seq(Blocks) : /\ table' = [table EXCEPT ![r] = hit \o got]
                                 /\ Range(got) \subseteq Range(free)
                                 /\ Range(table'[r]) = Range(hit) \cup Range(got)
  BY <1>5
<1>7. /\ matched' = [matched EXCEPT ![r] = Len(hit)]
      /\ phase' = [phase EXCEPT ![r] = "prefilling"]
      /\ UNCHANGED <<stored, cached, open>>
  BY DEF Admit
<1>8. /\ hit \o got \in Seq(Blocks)
      /\ Len(hit) \in Nat /\ Len(got) \in Nat
      /\ Len(hit \o got) = Len(hit) + Len(got)
      /\ \A i \in 1 .. Len(hit) + Len(got) :
            (hit \o got)[i] = IF i <= Len(hit) THEN hit[i] ELSE got[i - Len(hit)]
  BY <1>2, ConcatProperties, LenProperties
<1>9. table'[r] = hit \o got /\ \A p \in Requests \ {r} : table'[p] = table[p]
  BY <1>1, <1>6 DEF TypeOK
<1>10. TypeOK'
  <2>1. /\ matched' \in [Requests -> Nat]
        /\ \A p \in Requests : matched'[p] <= Len(table'[p])
    BY <1>1, <1>7, <1>8, <1>9 DEF TypeOK
  <2>2. /\ phase' \in [Requests -> Phases]
        /\ \A p \in Requests : phase'[p] = "none" => table'[p] = <<>>
    BY <1>1, <1>7, <1>9 DEF TypeOK, Phases
  <2>3. cached' \subseteq Blocks /\ open' \in BOOLEAN /\ stored' \subseteq Blocks
    BY <1>1, <1>7 DEF TypeOK
  <2> QED BY <1>5, <2>1, <2>2, <2>3 DEF TypeOK
<1>11. FreshBlocksAreOwned'
  <2> SUFFICES ASSUME NEW p \in Requests, phase'[p] = "prefilling",
                      NEW b \in Range(Fresh(p)')
               PROVE  Holders(b)' = {p}
    BY DEF FreshBlocksAreOwned
  <2>1. CASE p = r
    <3>1. Range(Fresh(r)') = {table'[r][i] : i \in matched'[r] + 1 .. Len(table'[r])}
      <4>1. /\ table'[r] \in Seq(Blocks) /\ IsInjective(table'[r])
            /\ matched'[r] \in 0 .. Len(table'[r])
        BY <1>10, LenProperties DEF TypeOK
      <4> QED BY <4>1, SplitDistinct DEF Fresh
    <3>2. matched'[r] = Len(hit)
      BY <1>1, <1>7 DEF TypeOK
    <3>3. PICK i \in Len(hit) + 1 .. Len(hit) + Len(got) : b = (hit \o got)[i]
      BY <1>8, <1>9, <2>1, <3>1, <3>2
    <3>4. b = got[i - Len(hit)] /\ i - Len(hit) \in 1 .. Len(got)
      BY <1>8, <3>3
    <3>5. b \in Range(got)
      BY <3>4, RangeEquality
    <3>6. b \in Range(free)
      BY <1>6, <3>5
    <3>7. b \notin cached /\ \A o \in Requests : b \notin Range(table[o])
      BY <1>1, <3>6, FreeIsUnheld
    <3>8. b \in Range(table'[r])
      BY <1>6, <3>5
    <3> QED BY <1>7, <1>9, <2>1, <3>7, <3>8 DEF Holders
  <2>2. CASE p # r
    <3>1. Fresh(p)' = Fresh(p) /\ phase[p] = "prefilling"
      BY <1>1, <1>7, <1>9, <2>2 DEF Fresh, TypeOK
    <3>2. Holders(b) = {p}
      BY <3>1 DEF IInv, FreshBlocksAreOwned
    <3>3. b \in Range(table[p])
      BY <1>1, <3>1, FreshInTable
    <3>4. b \notin cached /\ b \notin Range(free)
      BY <1>1, <3>2, <3>3, FreeIsUnheld, RequestsAssumption DEF Holders
    <3>5. b \notin Range(table'[r])
      BY <1>2, <1>6, <3>4
    <3>6. Holders(b)' = Holders(b)
      BY <1>3, <1>7, <1>9, <3>5 DEF Holders
    <3> QED BY <3>2, <3>6
  <2> QED BY <2>1, <2>2
<1> QED BY <1>5, <1>10, <1>11 DEF IInv

(* The last prefill chunk: the cache becomes a holder of blocks that had     *)
(* one, and counts itself.                                                   *)
LEMMA InsertKeepsIInv ==
    ASSUME IInv, NEW r \in Requests, Insert(r)
    PROVE  IInv'
<1> DEFINE fresh == Range(Fresh(r))
<1>1. TypeOK /\ open /\ phase[r] = "prefilling"
  BY DEF IInv, Insert
<1>2. /\ cached' = cached \cup fresh
      /\ ref' = [b \in Blocks |-> IF b \in fresh THEN ref[b] + 1 ELSE ref[b]]
      /\ phase' = [phase EXCEPT ![r] = "running"]
      /\ UNCHANGED <<free, used, stored, table, matched, open>>
  BY DEF Insert
<1>3. fresh \subseteq Range(table[r]) /\ fresh \subseteq Blocks
  <2>1. Range(table[r]) \subseteq Blocks  BY <1>1, RangeOfSeq DEF TypeOK
  <2> QED BY <1>1, <2>1, FreshInTable
<1>4. \A b \in fresh : Holders(b) = {r} /\ b \notin cached
  BY <1>1, RequestsAssumption DEF IInv, FreshBlocksAreOwned, Holders
<1> HIDE DEF fresh
<1>5. TypeOK'
  BY <1>1, <1>2, <1>3 DEF TypeOK, Phases
<1>6. \A b : Holders(b)' = IF b \in fresh THEN Holders(b) \cup {Cache} ELSE Holders(b)
  BY <1>2 DEF Holders
<1>7. RefCountIsHolders'
  <2> SUFFICES ASSUME NEW b \in Blocks
               PROVE  ref'[b] = Cardinality(Holders(b)')
    BY DEF RefCountIsHolders
  <2>1. ref[b] = Cardinality(Holders(b))
    BY <1>1 DEF IInv, RefCountIsHolders
  <2>2. CASE b \in fresh
    <3>1. Cache \notin Holders(b)
      BY <1>4, <2>2, RequestsAssumption
    <3>2. Cardinality(Holders(b) \cup {Cache}) = Cardinality(Holders(b)) + 1
      BY <3>1, HoldersFinite, FS_AddElement
    <3> QED BY <1>2, <1>6, <2>1, <2>2, <3>2
  <2>3. CASE b \notin fresh
    BY <1>2, <1>6, <2>1, <2>3
  <2> QED BY <2>2, <2>3
<1>8. FreeIffUnreferenced'
  <2>1. \A b \in fresh : ref[b] > 0
    <3> SUFFICES ASSUME NEW b \in fresh PROVE ref[b] > 0
      OBVIOUS
    <3>1. b \in Blocks /\ Holders(b) # {}  BY <1>3, <1>4
    <3> QED BY <1>1, <3>1, HeldIsReferenced
  <2>2. \A b \in Blocks : ref'[b] > 0 <=> ref[b] > 0
    BY <1>1, <1>2, <2>1 DEF TypeOK
  <2>3. used = {b \in Blocks : ref[b] > 0} /\ Range(free) = Blocks \ used
    BY DEF IInv, FreeIffUnreferenced
  <2>4. used = {b \in Blocks : ref'[b] > 0}
    BY <2>2, <2>3
  <2> QED BY <1>2, <2>3, <2>4 DEF FreeIffUnreferenced
<1>9. StoredWithinUsed'
  BY <1>2 DEF IInv, StoredWithinUsed
<1>10. FreshBlocksAreOwned'
  <2> SUFFICES ASSUME NEW p \in Requests, phase'[p] = "prefilling",
                      NEW b \in Range(Fresh(p)')
               PROVE  Holders(b)' = {p}
    BY DEF FreshBlocksAreOwned
  <2>1. p # r /\ phase[p] = "prefilling" /\ Fresh(p)' = Fresh(p)
    BY <1>1, <1>2 DEF TypeOK, Fresh
  <2>2. Holders(b) = {p}
    BY <2>1 DEF IInv, FreshBlocksAreOwned
  <2>3. b \notin fresh
    BY <1>4, <2>1, <2>2
  <2> QED BY <1>6, <2>2, <2>3
<1> QED BY <1>5, <1>7, <1>8, <1>9, <1>10 DEF IInv

(* Decode growth: as admission, with nothing reused.                         *)
LEMMA GrowKeepsIInv ==
    ASSUME IInv, NEW r \in Requests, NEW n \in 1 .. MaxTokens, Grow(r, n)
    PROVE  IInv'
<1>1. TypeOK /\ open /\ phase[r] = "running" /\ n \in Nat
  BY SizesAssumption DEF IInv, Grow
<1>2. table[r] \in Seq(Blocks) /\ IsInjective(table[r])
  BY <1>1 DEF TypeOK
<1>3. Allocate(r, table[r], n) /\ UNCHANGED <<stored, cached, open>>
  BY DEF Grow
<1>4. /\ ref' \in [Blocks -> Nat]
      /\ free' \in Seq(Blocks) /\ IsInjective(free')
      /\ used' \subseteq Blocks
      /\ table' \in [Requests -> Seq(Blocks)]
      /\ \A p \in Requests : IsInjective(table'[p])
      /\ RefCountIsHolders' /\ FreeIffUnreferenced' /\ StoredWithinUsed'
      /\ \E got \in Seq(Blocks) : /\ table' = [table EXCEPT ![r] = table[r] \o got]
                                  /\ Range(got) \subseteq Range(free)
                                  /\ Range(table'[r]) = Range(table[r]) \cup Range(got)
  <2> DEFINE base == table[r]
  <2>1. /\ base \in Seq(Blocks) /\ IsInjective(base)
        /\ Range(table[r]) \subseteq Range(base)
        /\ Range(base) \ Range(table[r]) \subseteq cached
        /\ Allocate(r, base, n)
    BY <1>2, <1>3
  <2>2. table[r] = base
    OBVIOUS
  <2> HIDE DEF base
  <2> QED BY <1>1, <1>3, <2>1, <2>2, AllocateKeepsCounts
<1>5. PICK got \in Seq(Blocks) : /\ table' = [table EXCEPT ![r] = table[r] \o got]
                                 /\ Range(got) \subseteq Range(free)
                                 /\ Range(table'[r]) = Range(table[r]) \cup Range(got)
  BY <1>4
<1>6. table'[r] = table[r] \o got /\ \A p \in Requests \ {r} : table'[p] = table[p]
  BY <1>1, <1>5 DEF TypeOK
<1>7. UNCHANGED <<stored, matched, phase, cached, open>>
  BY DEF Grow
<1>8. TypeOK'
  <2>1. matched[r] <= Len(table'[r])
    <3>1. /\ Len(table[r] \o got) = Len(table[r]) + Len(got)
          /\ Len(table[r]) \in Nat /\ Len(got) \in Nat
      BY <1>2, ConcatProperties, LenProperties
    <3>2. matched[r] \in Nat /\ matched[r] <= Len(table[r])
      BY <1>1 DEF TypeOK
    <3> QED BY <1>6, <3>1, <3>2
  <2>2. \A p \in Requests : matched'[p] <= Len(table'[p])
    BY <1>1, <1>6, <1>7, <2>1 DEF TypeOK
  <2>3. \A p \in Requests : phase'[p] = "none" => table'[p] = <<>>
    BY <1>1, <1>6, <1>7 DEF TypeOK
  <2>4. /\ stored' \subseteq Blocks /\ matched' \in [Requests -> Nat]
        /\ phase' \in [Requests -> Phases] /\ cached' \subseteq Blocks /\ open' \in BOOLEAN
    BY <1>1, <1>7 DEF TypeOK
  <2> QED BY <1>4, <2>2, <2>3, <2>4 DEF TypeOK
<1>9. FreshBlocksAreOwned'
  <2> SUFFICES ASSUME NEW p \in Requests, phase'[p] = "prefilling",
                      NEW b \in Range(Fresh(p)')
               PROVE  Holders(b)' = {p}
    BY DEF FreshBlocksAreOwned
  <2>1. p # r /\ Fresh(p)' = Fresh(p) /\ phase[p] = "prefilling"
    BY <1>1, <1>6, <1>7 DEF Fresh
  <2>2. Holders(b) = {p} /\ b \in Range(table[p])
    BY <1>1, <2>1, FreshInTable DEF IInv, FreshBlocksAreOwned
  <2>3. b \notin Range(free)
    BY <1>1, <2>2, FreeIsUnheld
  <2>4. b \notin Range(table[r])
    BY <2>1, <2>2 DEF Holders
  <2>5. Holders(b)' = Holders(b)
    BY <1>5, <1>6, <1>7, <2>3, <2>4 DEF Holders
  <2> QED BY <2>2, <2>5
<1> QED BY <1>4, <1>8, <1>9 DEF IInv

(* A write goes to a block in use, so its tensors are those of one.          *)
LEMMA WriteKeepsIInv ==
    ASSUME IInv, NEW r \in Requests, NEW b \in Blocks, Write(r, b)
    PROVE  IInv'
<1>1. /\ TypeOK /\ open /\ b \in Range(table[r])
      /\ stored' = stored \cup {b}
      /\ UNCHANGED <<ref, free, used, table, matched, phase, cached, open>>
  BY DEF IInv, Write
<1>2. b \in used
  BY <1>1, HeldIsReferenced DEF Holders
<1>3. TypeOK'
  BY <1>1 DEF TypeOK
<1>4. RefCountIsHolders' /\ FreeIffUnreferenced' /\ FreshBlocksAreOwned'
  <2>1. \A c : Holders(c)' = Holders(c)
    BY <1>1 DEF Holders
  <2>2. \A p : Fresh(p)' = Fresh(p)
    BY <1>1 DEF Fresh
  <2>3. RefCountIsHolders'
    BY <1>1, <2>1 DEF IInv, RefCountIsHolders
  <2>4. FreeIffUnreferenced'
    BY <1>1 DEF IInv, FreeIffUnreferenced
  <2>5. FreshBlocksAreOwned'
    BY <1>1, <2>1, <2>2 DEF IInv, FreshBlocksAreOwned
  <2> QED BY <2>3, <2>4, <2>5
<1>5. StoredWithinUsed'
  BY <1>1, <1>2 DEF IInv, StoredWithinUsed
<1> QED BY <1>3, <1>4, <1>5 DEF IInv

(* free(): the request leaves each of its blocks, and the ones nobody else   *)
(* holds return to the free list.                                            *)
LEMMA FreeKeepsIInv ==
    ASSUME IInv, NEW r \in Requests, Free(r)
    PROVE  IInv'
<1>1. TypeOK /\ open /\ phase[r] = "running"
  BY DEF IInv, Free
<1>2. /\ DecRefAll(table[r])
      /\ table' = [table EXCEPT ![r] = <<>>]
      /\ matched' = [matched EXCEPT ![r] = 0]
      /\ phase' = [phase EXCEPT ![r] = "none"]
      /\ UNCHANGED <<cached, open>>
  BY DEF Free
<1>3. table[r] \in Seq(Blocks) /\ IsInjective(table[r])
  BY <1>1 DEF TypeOK
<1>4. table'[r] = <<>> /\ \A p \in Requests \ {r} : table'[p] = table[p]
  BY <1>1, <1>2 DEF TypeOK
<1>5. \A b : Holders(b)' = IF b \in Range(table[r]) THEN Holders(b) \ {r} ELSE Holders(b)
  <2>1. Range(<<>>) = {}  BY DEF Range
  <2> QED BY <1>2, <1>4, <2>1, RequestsAssumption DEF Holders
<1>6. \A b \in Range(table[r]) : r \in Holders(b)
  BY DEF Holders
<1>7. /\ ref' \in [Blocks -> Nat]
      /\ free' \in Seq(Blocks) /\ IsInjective(free')
      /\ used' \subseteq Blocks /\ stored' \subseteq Blocks
      /\ RefCountIsHolders' /\ FreeIffUnreferenced' /\ StoredWithinUsed'
  BY <1>1, <1>2, <1>3, <1>5, <1>6, DecRefKeepsCounts
<1>8. TypeOK'
  <2>1. <<>> \in Seq(Blocks) /\ Len(<<>>) = 0 /\ IsInjective(<<>>)
    BY EmptySeq DEF IsInjective
  <2>2. /\ table' \in [Requests -> Seq(Blocks)]
        /\ \A p \in Requests : IsInjective(table'[p])
    BY <1>1, <1>2, <1>4, <2>1 DEF TypeOK
  <2>3. /\ matched' \in [Requests -> Nat]
        /\ \A p \in Requests : matched'[p] <= Len(table'[p])
    BY <1>1, <1>2, <1>4, <2>1 DEF TypeOK
  <2>4. /\ phase' \in [Requests -> Phases]
        /\ \A p \in Requests : phase'[p] = "none" => table'[p] = <<>>
    BY <1>1, <1>2, <1>4 DEF TypeOK, Phases
  <2> QED BY <1>1, <1>2, <1>7, <2>2, <2>3, <2>4 DEF TypeOK
<1>9. FreshBlocksAreOwned'
  <2> SUFFICES ASSUME NEW p \in Requests, phase'[p] = "prefilling",
                      NEW b \in Range(Fresh(p)')
               PROVE  Holders(b)' = {p}
    BY DEF FreshBlocksAreOwned
  <2>1. p # r /\ Fresh(p)' = Fresh(p) /\ phase[p] = "prefilling"
    BY <1>1, <1>2, <1>4 DEF Fresh, TypeOK
  <2>2. Holders(b) = {p}
    BY <2>1 DEF IInv, FreshBlocksAreOwned
  <2>3. b \notin Range(table[r])
    BY <2>1, <2>2 DEF Holders
  <2> QED BY <1>5, <2>2, <2>3
<1> QED BY <1>7, <1>8, <1>9 DEF IInv

(* Eviction: the cache leaves the blocks of the node, and the requests that  *)
(* still hold some of them keep them in use.                                 *)
LEMMA EvictKeepsIInv ==
    ASSUME IInv, NEW s \in DistinctSeqs(cached), Evict(s)
    PROVE  IInv'
<1>1. TypeOK /\ open
  BY DEF IInv, Evict
<1>2. s \in Seq(Blocks) /\ IsInjective(s) /\ Range(s) \subseteq cached
  BY <1>1, CachedSeqs
<1>3. /\ DecRefAll(s)
      /\ cached' = cached \ Range(s)
      /\ UNCHANGED <<table, matched, phase, open>>
  BY DEF Evict
<1>4. \A b : Holders(b)' = IF b \in Range(s) THEN Holders(b) \ {Cache} ELSE Holders(b)
  BY <1>2, <1>3, RequestsAssumption DEF Holders
<1>5. \A b \in Range(s) : Cache \in Holders(b)
  BY <1>2 DEF Holders
<1>6. /\ ref' \in [Blocks -> Nat]
      /\ free' \in Seq(Blocks) /\ IsInjective(free')
      /\ used' \subseteq Blocks /\ stored' \subseteq Blocks
      /\ RefCountIsHolders' /\ FreeIffUnreferenced' /\ StoredWithinUsed'
  BY <1>1, <1>2, <1>3, <1>4, <1>5, DecRefKeepsCounts
<1>7. TypeOK'
  BY <1>1, <1>3, <1>6 DEF TypeOK
<1>8. FreshBlocksAreOwned'
  <2> SUFFICES ASSUME NEW p \in Requests, phase'[p] = "prefilling",
                      NEW b \in Range(Fresh(p)')
               PROVE  Holders(b)' = {p}
    BY DEF FreshBlocksAreOwned
  <2>1. Fresh(p)' = Fresh(p) /\ phase[p] = "prefilling"
    BY <1>3 DEF Fresh
  <2>2. Holders(b) = {p}
    BY <2>1 DEF IInv, FreshBlocksAreOwned
  <2>3. b \notin cached
    BY <2>2, RequestsAssumption DEF Holders
  <2> QED BY <1>2, <1>4, <2>2, <2>3
<1> QED BY <1>6, <1>7, <1>8 DEF IInv

(* release_all(): all blocks are free, and no request holds one.             *)
LEMMA ReleaseAllKeepsIInv ==
    ASSUME IInv, ReleaseAll
    PROVE  IInv'
<1>1. /\ TypeOK /\ stored \subseteq used
      /\ open' = FALSE
      /\ ref' = [b \in Blocks |-> 0]
      /\ free' = [i \in 1 .. NumBlocks |-> i - 1]
      /\ used' = {}
      /\ stored' = stored \ used
      /\ table' = [r \in Requests |-> <<>>]
      /\ matched' = [r \in Requests |-> 0]
      /\ phase' = [r \in Requests |-> "none"]
      /\ cached' = cached
  BY DEF IInv, StoredWithinUsed, ReleaseAll
<1>2. free' \in Seq(Blocks) /\ IsInjective(free') /\ Range(free') = Blocks
  BY <1>1, FullFreeList
<1>3. <<>> \in Seq(Blocks) /\ Len(<<>>) = 0 /\ IsInjective(<<>>)
  BY EmptySeq DEF IsInjective
<1>4. TypeOK'
  <2>1. /\ table' \in [Requests -> Seq(Blocks)]
        /\ \A r \in Requests : table'[r] = <<>> /\ IsInjective(table'[r])
    BY <1>1, <1>3
  <2>2. /\ matched' \in [Requests -> Nat]
        /\ \A r \in Requests : matched'[r] <= Len(table'[r])
    BY <1>1, <1>3, <2>1
  <2>3. /\ ref' \in [Blocks -> Nat] /\ phase' \in [Requests -> Phases]
        /\ used' \subseteq Blocks /\ stored' \subseteq Blocks /\ open' \in BOOLEAN
        /\ cached' \subseteq Blocks
    BY <1>1 DEF TypeOK, Phases
  <2> QED BY <1>2, <2>1, <2>2, <2>3 DEF TypeOK
<1>5. RefCountIsHolders' /\ StoredWithinUsed' /\ FreshBlocksAreOwned'
  BY <1>1 DEF RefCountIsHolders, StoredWithinUsed, FreshBlocksAreOwned
<1>6. FreeIffUnreferenced'
  BY <1>1, <1>2 DEF FreeIffUnreferenced
<1> QED BY <1>4, <1>5, <1>6 DEF IInv

-----------------------------------------------------------------------------
(* One case for each action of the manager.                                  *)
LEMMA NextKeepsIInv == IInv /\ [Next]_vars => IInv'
<1> SUFFICES ASSUME IInv, [Next]_vars PROVE IInv'
  OBVIOUS
<1>1. CASE \E r \in Requests, hit \in DistinctSeqs(cached), n \in 1 .. MaxTokens :
               Admit(r, hit, n)
  BY <1>1, AdmitKeepsIInv
<1>2. CASE \E r \in Requests : Insert(r)
  BY <1>2, InsertKeepsIInv
<1>3. CASE \E r \in Requests : Free(r)
  BY <1>3, FreeKeepsIInv
<1>4. CASE \E r \in Requests, n \in 1 .. MaxTokens : Grow(r, n)
  BY <1>4, GrowKeepsIInv
<1>5. CASE \E r \in Requests, b \in Blocks : Write(r, b)
  BY <1>5, WriteKeepsIInv
<1>6. CASE \E s \in DistinctSeqs(cached) : Evict(s)
  BY <1>6, EvictKeepsIInv
<1>7. CASE ReleaseAll
  BY <1>7, ReleaseAllKeepsIInv
<1>8. CASE UNCHANGED vars
  <2>1. UNCHANGED <<ref, free, used, stored, table, matched, phase, cached, open>>
    BY <1>8 DEF vars
  <2>2. \A b : Holders(b)' = Holders(b)
    BY <2>1 DEF Holders
  <2>3. \A r : Fresh(r)' = Fresh(r)
    BY <2>1 DEF Fresh
  <2>4. TypeOK'
    BY <2>1 DEF IInv, TypeOK
  <2>5. RefCountIsHolders'
    BY <2>1, <2>2 DEF IInv, RefCountIsHolders
  <2>6. FreeIffUnreferenced' /\ StoredWithinUsed'
    BY <2>1 DEF IInv, FreeIffUnreferenced, StoredWithinUsed
  <2>7. FreshBlocksAreOwned'
    BY <2>1, <2>2, <2>3 DEF IInv, FreshBlocksAreOwned
  <2> QED BY <2>4, <2>5, <2>6, <2>7 DEF IInv
<1> QED BY <1>1, <1>2, <1>3, <1>4, <1>5, <1>6, <1>7, <1>8 DEF Next

(* So the invariant holds in every reachable state.                          *)
LEMMA Invariance == Spec => []IInv
BY InitIInv, NextKeepsIInv, PTL DEF Spec

(* Every reachable state is well typed: no table and no free list repeats a  *)
(* block.                                                                    *)
THEOREM TypeCorrect == Spec => []TypeOK
<1>1. IInv => TypeOK  BY DEF IInv
<1> QED BY <1>1, Invariance, PTL

(* kv_cache.py:66-78: as long as the engine lives, the count of a block is   *)
(* the number of tables it is in, plus one when the cache holds it.          *)
THEOREM RefCountsExact == Spec => []RefCountIsHolders
<1>1. IInv => RefCountIsHolders  BY DEF IInv
<1> QED BY <1>1, Invariance, PTL

(* No block is lost and none is handed out while referenced.                 *)
THEOREM NoLeakNoDoubleUse == Spec => []FreeIffUnreferenced
<1>1. IInv => FreeIffUnreferenced  BY DEF IInv
<1> QED BY <1>1, Invariance, PTL

(* The pool keeps tensors for blocks in use only.                            *)
THEOREM TensorsAreReturned == Spec => []StoredWithinUsed
<1>1. IInv => StoredWithinUsed  BY DEF IInv
<1> QED BY <1>1, Invariance, PTL

(* A block allocated at admission has one holder until the cache takes it.   *)
THEOREM FreshBlocksExclusive == Spec => []FreshBlocksAreOwned
<1>1. IInv => FreshBlocksAreOwned  BY DEF IInv
<1> QED BY <1>1, Invariance, PTL

-----------------------------------------------------------------------------
(* The blocks dec_ref releases had one holder left, the one that leaves.     *)
LEMMA GoneHadOneHolder ==
    ASSUME IInv, open, NEW b \in Blocks, ref[b] = 1, NEW h \in Holders(b)
    PROVE  Holders(b) \ {h} = {}
<1>1. Cardinality(Holders(b)) = 1
  BY DEF IInv, RefCountIsHolders
<1>2. IsFiniteSet(Holders(b) \ {h}) /\ Cardinality(Holders(b) \ {h}) = 0
  BY <1>1, HoldersFinite, FS_RemoveElement
<1> QED BY <1>2, FS_EmptySet

(* A step drops the tensors of blocks whose last holder it takes away: only  *)
(* free() and eviction drop any, besides release_all().                      *)
LEMMA DropStep ==
    IInv /\ [Next]_vars => [open' => \A b \in stored \ stored' : Holders(b)' = {}]_vars
<1> SUFFICES ASSUME IInv, [Next]_vars, open', NEW b \in stored \ stored'
             PROVE  Holders(b)' = {}
  OBVIOUS
<1>1. TypeOK /\ b \in Blocks
  BY DEF IInv, TypeOK
<1>2. CASE \E r \in Requests : Free(r)
  <2>1. PICK r \in Requests : Free(r)
    BY <1>2
  <2>2. /\ open /\ DecRefAll(table[r])
        /\ table' = [table EXCEPT ![r] = <<>>] /\ cached' = cached
    BY <2>1 DEF Free
  <2>3. b \in Range(table[r]) /\ ref[b] = 1
    BY <2>2 DEF DecRefAll
  <2>4. Holders(b) \ {r} = {}
    BY <1>1, <2>2, <2>3, GoneHadOneHolder DEF Holders
  <2>5. /\ table'[r] = <<>>
        /\ \A p \in Requests \ {r} : table'[p] = table[p]
    BY <1>1, <2>2 DEF TypeOK
  <2>6. Holders(b)' = Holders(b) \ {r}
    <3>1. Range(<<>>) = {}  BY DEF Range
    <3> QED BY <2>2, <2>3, <2>5, <3>1, RequestsAssumption DEF Holders
  <2> QED BY <2>4, <2>6
<1>3. CASE \E s \in DistinctSeqs(cached) : Evict(s)
  <2>1. PICK s \in DistinctSeqs(cached) : Evict(s)
    BY <1>3
  <2>2. /\ open /\ DecRefAll(s)
        /\ cached' = cached \ Range(s) /\ table' = table
    BY <2>1 DEF Evict
  <2>3. b \in Range(s) /\ ref[b] = 1 /\ b \in cached
    BY <1>1, <2>2, CachedSeqs DEF DecRefAll
  <2>4. Holders(b) \ {Cache} = {}
    BY <1>1, <2>2, <2>3, GoneHadOneHolder DEF Holders
  <2>5. Holders(b)' = Holders(b) \ {Cache}
    BY <2>2, <2>3, RequestsAssumption DEF Holders
  <2> QED BY <2>4, <2>5
<1>4. CASE \E r \in Requests, hit \in DistinctSeqs(cached), n \in 1 .. MaxTokens :
               Admit(r, hit, n)
  BY <1>4 DEF Admit
<1>5. CASE \E r \in Requests : Insert(r)
  BY <1>5 DEF Insert
<1>6. CASE \E r \in Requests, n \in 1 .. MaxTokens : Grow(r, n)
  BY <1>6 DEF Grow
<1>7. CASE \E r \in Requests, c \in Blocks : Write(r, c)
  BY <1>7 DEF Write
<1>8. CASE ReleaseAll
  BY <1>8 DEF ReleaseAll
<1>9. CASE UNCHANGED vars
  BY <1>9 DEF vars
<1> QED BY <1>2, <1>3, <1>4, <1>5, <1>6, <1>7, <1>8, <1>9 DEF Next

(* kv_cache.py:71 releases a block, and its tensors, when the count reaches  *)
(* zero: never while a request or the cache still holds it.                  *)
THEOREM TensorsOutliveHolders == Spec => DropWithLastHolder
BY Invariance, DropStep, PTL DEF Spec, DropWithLastHolder

(* A step that adds blocks to a table takes those that are not cached from   *)
(* the free list, where they have neither holder nor tensors.                *)
LEMMA CleanStep ==
    IInv /\ [Next]_vars =>
        [\A r \in Requests : \A b \in Range(table'[r]) \ Range(table[r]) :
            b \notin cached => Holders(b) = {} /\ b \notin stored]_vars
<1> SUFFICES ASSUME IInv, [Next]_vars, NEW r \in Requests,
                    NEW b \in Range(table'[r]) \ Range(table[r]), b \notin cached
             PROVE  Holders(b) = {} /\ b \notin stored
  OBVIOUS
<1>1. TypeOK
  BY DEF IInv
<1>2. ASSUME open, b \in Range(free)
      PROVE  Holders(b) = {} /\ b \notin stored
  BY <1>2, FreeIsUnheld DEF Holders
<1>3. ASSUME NEW p \in Requests, NEW base \in Seq(Blocks), NEW n \in Nat,
             Allocate(p, base, n),
             Range(base) \subseteq Range(table[p]) \cup cached
      PROVE  b \in Range(free)
  <2> DEFINE need == NumNeed(Len(base), n)
             got == SubSeq(free, 1, need)
  <2>1. table' = [table EXCEPT ![p] = base \o got] /\ Len(free) >= need
    BY <1>3 DEF Allocate
  <2>2. need \in 0 .. Len(free)
    BY <1>1, <2>1, LenProperties, NumNeedType DEF TypeOK
  <2> HIDE DEF need
  <2>3. got \in Seq(Blocks) /\ Range(got) \subseteq Range(free)
    BY <1>1, <2>2, SplitDistinct DEF TypeOK
  <2> HIDE DEF got
  <2>4. p = r /\ table'[r] = base \o got
    BY <1>1, <2>1 DEF TypeOK
  <2>5. Range(base \o got) = Range(base) \cup Range(got)
    BY <2>3, RangeConcatenation
  <2> QED BY <1>3, <2>3, <2>4, <2>5
<1>4. CASE \E p \in Requests, hit \in DistinctSeqs(cached), n \in 1 .. MaxTokens :
               Admit(p, hit, n)
  <2>1. PICK p \in Requests, hit \in DistinctSeqs(cached), n \in 1 .. MaxTokens :
             Admit(p, hit, n)
    BY <1>4
  <2>2. open /\ Allocate(p, hit, n) /\ n \in Nat
    BY <2>1, SizesAssumption DEF Admit
  <2>3. hit \in Seq(Blocks) /\ Range(hit) \subseteq cached
    BY <1>1, CachedSeqs
  <2> QED BY <1>2, <1>3, <2>2, <2>3
<1>5. CASE \E p \in Requests, n \in 1 .. MaxTokens : Grow(p, n)
  <2>1. PICK p \in Requests, n \in 1 .. MaxTokens : Grow(p, n)
    BY <1>5
  <2>2. open /\ Allocate(p, table[p], n) /\ n \in Nat /\ table[p] \in Seq(Blocks)
    BY <1>1, <2>1, SizesAssumption DEF Grow, TypeOK
  <2> QED BY <1>2, <1>3, <2>2
<1>6. CASE \E p \in Requests : Insert(p)
  BY <1>6 DEF Insert
<1>7. CASE \E p \in Requests : Free(p)
  <2>1. PICK p \in Requests : table' = [table EXCEPT ![p] = <<>>]
    BY <1>7 DEF Free
  <2>2. Range(<<>>) = {}
    BY DEF Range
  <2>3. r # p => table'[r] = table[r]
    BY <1>1, <2>1 DEF TypeOK
  <2>4. r = p => table'[r] = <<>>
    BY <1>1, <2>1 DEF TypeOK
  <2> QED BY <2>2, <2>3, <2>4
<1>8. CASE \E p \in Requests, c \in Blocks : Write(p, c)
  BY <1>8 DEF Write
<1>9. CASE \E s \in DistinctSeqs(cached) : Evict(s)
  BY <1>9 DEF Evict
<1>10. CASE ReleaseAll
  <2>1. table'[r] = <<>> /\ Range(<<>>) = {}
    BY <1>10 DEF ReleaseAll, Range
  <2> QED BY <2>1
<1>11. CASE UNCHANGED vars
  BY <1>11 DEF vars
<1> QED BY <1>4, <1>5, <1>6, <1>7, <1>8, <1>9, <1>10, <1>11 DEF Next

(* kv_cache.py:57: what allocate() takes off the free list has no holder and *)
(* keeps no data of an earlier one.                                          *)
THEOREM AllocatedBlocksAreClean == Spec => FreshBlocksAreClean
BY Invariance, CleanStep, PTL DEF Spec, FreshBlocksAreClean

-----------------------------------------------------------------------------
(* The manager implements BlockOwnership, for every set of requests, number  *)
(* of blocks and block size: initial states map to initial states, and every *)
(* step to a step of Ownership or to a stutter.                              *)

(* A block with tensors has a holder.                                        *)
LEMMA StoredIsHeld ==
    ASSUME IInv, open, NEW b \in stored
    PROVE  Holders(b) # {}
<1>1. b \in Blocks /\ ref[b] > 0 /\ ref[b] = Cardinality(Holders(b))
  BY DEF IInv, TypeOK, StoredWithinUsed, FreeIffUnreferenced, RefCountIsHolders
<1> QED BY <1>1, FS_EmptySet

(* A user who only joins, with no data lost or written, takes an Acquire.    *)
LEMMA JoinIsAcquire ==
    ASSUME IInv, open, open', stored' = stored, NEW h \in Requests \cup {Cache},
           \A b \in Blocks : Holders(b)' \in {Holders(b), Holders(b) \cup {h}}
    PROVE  Ownership!Acquire(h)
<1>1. Owners' \in [Blocks -> SUBSET (Requests \cup {Cache})]
  BY DEF Owners, Holders
<1>2. ASSUME NEW b \in Blocks
      PROVE  /\ Owners[b] = Holders(b) /\ Owners'[b] = Holders(b)'
             /\ ~ (Owners[b] = {} /\ b \in stored)
  BY <1>2, StoredIsHeld DEF Owners
<1> QED BY <1>1, <1>2 DEF Ownership!Acquire

(* A user who leaves blocks, of which those still held keep their tensors,   *)
(* takes a Leave.                                                            *)
LEMMA PartIsLeave ==
    ASSUME IInv, IInv', [Next]_vars, open, open', NEW h \in Requests \cup {Cache},
           stored' \subseteq stored,
           \A b \in Blocks : Holders(b)' \in {Holders(b), Holders(b) \ {h}}
    PROVE  Ownership!Leave(h)
<1>1. Owners' \in [Blocks -> SUBSET (Requests \cup {Cache})]
  BY DEF Owners, Holders
<1>2. ASSUME NEW b \in Blocks
      PROVE  Owners[b] = Holders(b) /\ Owners'[b] = Holders(b)'
  BY DEF Owners
<1>3. stored \subseteq Blocks
  BY DEF IInv, TypeOK
<1>4. \A b \in stored' : Holders(b)' # {}
  <2> SUFFICES ASSUME NEW b \in stored' PROVE Holders(b)' # {}
    OBVIOUS
  <2>1. b \in Blocks /\ ref'[b] > 0 /\ ref'[b] = Cardinality(Holders(b)')
    BY DEF IInv, TypeOK, StoredWithinUsed, FreeIffUnreferenced, RefCountIsHolders, Blocks
  <2> QED BY <2>1, FS_EmptySet
<1>5. \A b \in stored \ stored' : Holders(b)' = {}
  BY DropStep DEF vars
<1>6. stored' = {b \in stored : Owners'[b] # {}}
  BY <1>2, <1>3, <1>4, <1>5
<1> QED BY <1>1, <1>2, <1>6 DEF Ownership!Leave

-----------------------------------------------------------------------------
LEMMA InitMaps == Init => Ownership!Init
<1>1. Init => \A b : Holders(b) = {}
  BY DEF Init, Holders, Range
<1> QED BY <1>1 DEF Init, Owners, Ownership!Init

(* A request that gains blocks, at admission or in decode, joins them.       *)
LEMMA AllocateMaps ==
    ASSUME IInv, open, open', UNCHANGED <<stored, cached>>,
           NEW r \in Requests, NEW q \in Seq(Blocks), table' = [table EXCEPT ![r] = q],
           Range(table[r]) \subseteq Range(q)
    PROVE  Ownership!Acquire(r)
<1>1. table'[r] = q /\ \A p \in Requests \ {r} : table'[p] = table[p]
  BY DEF IInv, TypeOK
<1>2. \A b \in Blocks : Holders(b)' \in {Holders(b), Holders(b) \cup {r}}
  BY <1>1 DEF Holders
<1> QED BY <1>2, JoinIsAcquire

LEMMA NextMaps == IInv /\ IInv' /\ [Next]_vars => [Ownership!Next]_<<Owners, stored>>
<1> SUFFICES ASSUME IInv, IInv', [Next]_vars
             PROVE  Ownership!Next \/ UNCHANGED <<Owners, stored>>
  OBVIOUS
<1>1. TypeOK
  BY DEF IInv
<1>2. ASSUME NEW r \in Requests, NEW hit \in DistinctSeqs(cached),
             NEW n \in 1 .. MaxTokens, Admit(r, hit, n)
      PROVE  Ownership!Acquire(r)
  <2> DEFINE q == hit \o SubSeq(free, 1, NumNeed(Len(hit), n))
  <2>1. /\ open /\ open' = open /\ UNCHANGED <<stored, cached>>
        /\ table' = [table EXCEPT ![r] = q]
        /\ table[r] = <<>>
    BY <1>1, <1>2 DEF Admit, Allocate, TypeOK
  <2>2. table'[r] = q
    BY <1>1, <2>1 DEF TypeOK
  <2>3. q \in Seq(Blocks)
    BY <2>2 DEF IInv, TypeOK, Blocks
  <2>4. Range(table[r]) \subseteq Range(q)
    BY <2>1 DEF Range
  <2> HIDE DEF q
  <2> QED BY <2>1, <2>3, <2>4, AllocateMaps
<1>3. ASSUME NEW r \in Requests, NEW n \in 1 .. MaxTokens, Grow(r, n)
      PROVE  Ownership!Acquire(r)
  <2> DEFINE got == SubSeq(free, 1, NumNeed(Len(table[r]), n))
             q == table[r] \o got
  <2>1. /\ open /\ open' = open /\ UNCHANGED <<stored, cached>>
        /\ table' = [table EXCEPT ![r] = q]
        /\ Len(free) >= NumNeed(Len(table[r]), n)
    BY <1>3 DEF Grow, Allocate
  <2>2. table'[r] = q
    BY <1>1, <2>1 DEF TypeOK
  <2>3. q \in Seq(Blocks)
    BY <2>2 DEF IInv, TypeOK, Blocks
  <2>4. Range(table[r]) \subseteq Range(q)
    <3>1. NumNeed(Len(table[r]), n) \in 0 .. Len(free)
      BY <1>1, <2>1, LenProperties, NumNeedType, SizesAssumption DEF TypeOK
    <3>2. got \in Seq(Blocks)
      BY <1>1, <3>1, SplitDistinct DEF TypeOK
    <3> HIDE DEF got
    <3> QED BY <1>1, <3>2, RangeConcatenation DEF TypeOK
  <2> HIDE DEF q
  <2> QED BY <2>1, <2>3, <2>4, AllocateMaps
<1>4. ASSUME NEW r \in Requests, Insert(r)
      PROVE  Ownership!Acquire(Cache)
  <2>1. /\ open /\ open' = open /\ UNCHANGED <<stored, table>>
        /\ cached' = cached \cup Range(Fresh(r))
    BY <1>4 DEF Insert
  <2>2. \A b \in Blocks : Holders(b)' \in {Holders(b), Holders(b) \cup {Cache}}
    BY <2>1 DEF Holders
  <2> QED BY <2>1, <2>2, JoinIsAcquire
<1>5. ASSUME NEW r \in Requests, NEW b \in Blocks, Write(r, b)
      PROVE  Ownership!Write(r, b)
  <2>1. /\ open /\ r \in Holders(b) /\ stored' = stored \cup {b}
        /\ UNCHANGED <<table, cached, open>>
    BY <1>5 DEF Write, Holders
  <2>2. Owners' = Owners
    BY <2>1 DEF Owners, Holders
  <2> QED BY <2>1, <2>2 DEF Ownership!Write, Owners
<1>6. ASSUME NEW r \in Requests, Free(r)
      PROVE  Ownership!Leave(r)
  <2>1. /\ open /\ open' = open /\ cached' = cached
        /\ stored' \subseteq stored /\ table' = [table EXCEPT ![r] = <<>>]
    BY <1>6 DEF Free, DecRefAll
  <2>2. table'[r] = <<>> /\ \A p \in Requests \ {r} : table'[p] = table[p]
    BY <1>1, <2>1 DEF TypeOK
  <2>3. \A b \in Blocks : Holders(b)' = Holders(b) \ {r}
    <3>1. Range(<<>>) = {}  BY DEF Range
    <3> QED BY <2>1, <2>2, <3>1, RequestsAssumption DEF Holders
  <2> QED BY <2>1, <2>3, PartIsLeave
<1>7. ASSUME NEW s \in DistinctSeqs(cached), Evict(s)
      PROVE  Ownership!Leave(Cache)
  <2>1. /\ open /\ open' = open /\ table' = table
        /\ stored' \subseteq stored /\ cached' = cached \ Range(s)
    BY <1>7 DEF Evict, DecRefAll
  <2>2. \A b \in Blocks : Holders(b)' \in {Holders(b), Holders(b) \ {Cache}}
    BY <2>1, RequestsAssumption DEF Holders
  <2> QED BY <2>1, <2>2, PartIsLeave
<1>8. CASE ReleaseAll
  BY <1>8 DEF ReleaseAll, Ownership!Next, Ownership!Reset, Owners, IInv, StoredWithinUsed
<1>9. CASE UNCHANGED vars
  BY <1>9 DEF vars, Owners, Holders
<1> QED
  BY <1>2, <1>3, <1>4, <1>5, <1>6, <1>7, <1>8, <1>9 DEF Next, Ownership!Next

(* kv_cache.py, the whole manager: counting references is as good as keeping *)
(* the set of owners of every block.                                         *)
THEOREM Implements == Spec => ImplementsOwnership
<1>1. Spec => Ownership!Init
  BY InitMaps, PTL DEF Spec
<1>2. Spec => [][Ownership!Next]_<<Owners, stored>>
  BY Invariance, NextMaps, PTL DEF Spec
<1> QED BY <1>1, <1>2, PTL DEF ImplementsOwnership, Ownership!Spec, Ownership!vars

-----------------------------------------------------------------------------
(* What follows from owning blocks in the way of BlockOwnership, whoever     *)
(* Owners are (what Holders(b) is plays no part below).                      *)
LEMMA InitBlank == Ownership!Init => Ownership!TypeOK /\ Ownership!BlankWhenUnowned
BY DEF Ownership!Init, Ownership!TypeOK, Ownership!BlankWhenUnowned

(* One case for each way in which owners or data change.                     *)
LEMMA NextBlank ==
    Ownership!TypeOK /\ Ownership!BlankWhenUnowned /\ [Ownership!Next]_(Ownership!vars)
        => Ownership!TypeOK' /\ Ownership!BlankWhenUnowned'
<1> SUFFICES ASSUME Ownership!TypeOK, Ownership!BlankWhenUnowned,
                    [Ownership!Next]_(Ownership!vars)
             PROVE  Ownership!TypeOK' /\ Ownership!BlankWhenUnowned'
  OBVIOUS
<1> DEFINE Users == Requests \cup {Cache}
<1> USE DEF Ownership!TypeOK, Ownership!BlankWhenUnowned
<1>1. ASSUME NEW h \in Users, Ownership!Acquire(h)
      PROVE  Ownership!TypeOK' /\ Ownership!BlankWhenUnowned'
  BY <1>1 DEF Ownership!Acquire
<1>2. ASSUME NEW h \in Users, Ownership!Leave(h)
      PROVE  Ownership!TypeOK' /\ Ownership!BlankWhenUnowned'
  BY <1>2 DEF Ownership!Leave
<1>3. ASSUME NEW h \in Users, NEW b \in Blocks, Ownership!Write(h, b)
      PROVE  Ownership!TypeOK' /\ Ownership!BlankWhenUnowned'
  BY <1>3 DEF Ownership!Write
<1>4. CASE Ownership!Reset
  BY <1>4 DEF Ownership!Reset
<1>5. CASE UNCHANGED Ownership!vars
  BY <1>5 DEF Ownership!vars
<1> QED BY <1>1, <1>2, <1>3, <1>4, <1>5 DEF Ownership!Next

(* BlockOwnership: a block nobody owns has no data in it.                    *)
THEOREM UnownedIsBlank ==
    Ownership!Spec => [](Ownership!TypeOK /\ Ownership!BlankWhenUnowned)
BY InitBlank, NextBlank, PTL DEF Ownership!Spec

LEMMA DataStep ==
    Ownership!TypeOK /\ Ownership!BlankWhenUnowned /\ [Ownership!Next]_(Ownership!vars) =>
        [\A b \in Blocks : /\ b \in stored' \ stored => Owners[b] # {}
                           /\ b \in stored \ stored' => Owners'[b] = {}
                           /\ Owners[b] = {} => b \notin stored']_(Ownership!vars)
<1> SUFFICES ASSUME Ownership!TypeOK, Ownership!BlankWhenUnowned,
                    Ownership!Next, NEW b \in Blocks
             PROVE  /\ b \in stored' \ stored => Owners[b] # {}
                    /\ b \in stored \ stored' => Owners'[b] = {}
                    /\ Owners[b] = {} => b \notin stored'
  OBVIOUS
<1> DEFINE Users == Requests \cup {Cache}
<1> USE DEF Ownership!TypeOK, Ownership!BlankWhenUnowned
<1>1. CASE \E h \in Users : Ownership!Acquire(h)
  BY <1>1 DEF Ownership!Acquire
<1>2. CASE \E h \in Users : Ownership!Leave(h)
  BY <1>2 DEF Ownership!Leave
<1>3. CASE \E h \in Users, c \in Blocks : Ownership!Write(h, c)
  BY <1>3 DEF Ownership!Write
<1>4. CASE Ownership!Reset
  BY <1>4 DEF Ownership!Reset
<1> QED BY <1>1, <1>2, <1>3, <1>4 DEF Ownership!Next

(* BlockOwnership: data come into a block that has an owner, go with the     *)
(* last one, and are never there for the first one.                          *)
THEOREM DataBelongToOwners == Ownership!Spec => Ownership!DataEndWithOwners
BY UnownedIsBlank, DataStep, PTL DEF Ownership!Spec, Ownership!DataEndWithOwners

(* So no request finds the KV of an earlier owner in its blocks, and no      *)
(* block loses its KV under those who still hold it (kv_cache.py:57, :78).   *)
THEOREM NoStaleData == Spec => Ownership!DataEndWithOwners
BY Implements, DataBelongToOwners DEF ImplementsOwnership

=============================================================================
