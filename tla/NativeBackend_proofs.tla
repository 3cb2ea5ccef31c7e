------------------------ MODULE NativeBackend_proofs ------------------------
(***************************************************************************)
(* The slots of the pool and what is in them, for any requests, blocks,    *)
(* block and chunk sizes: which slot a token has, the inductive invariant  *)
(* of NativeBackend, what a request reads if the invariant holds, and that *)
(* it is kept by writing the KV of the next tokens of some requests.       *)
(* Then: each action of the backend, and of the engine around it, does     *)
(* this, or nothing, to the pool: prefill in batches and alone, decode,    *)
(* admission with and without reuse, extension, release.  The theorems are *)
(* at the end.                                                             *)
(***************************************************************************)
EXTENDS NativeBackend, FiniteSetTheorems, SequenceTheorems, TLAPS

-----------------------------------------------------------------------------
(* Blocks and slots.                                                         *)
LEMMA Sizes == BlockSize \in Nat /\ BlockSize > 0 /\ MaxNew \in Nat /\ MaxNew > 0
BY BackendAssumption

(* A number is a block and a slot,                                           *)
LEMMA Division ==
    \A n \in Nat : /\ n \div BlockSize \in Nat /\ n % BlockSize \in Slots
                   /\ n = ((n \div BlockSize) * BlockSize) + (n % BlockSize)
BY Sizes DEF Slots

(* in one way,                                                               *)
LEMMA DivisionIsUnique ==
    \A k \in Nat : \A s \in Slots :
        /\ (k * BlockSize) + s \in Nat
        /\ ((k * BlockSize) + s) \div BlockSize = k /\ ((k * BlockSize) + s) % BlockSize = s
BY Sizes DEF Slots

(* and the block grows with the number.                                      *)
LEMMA DivisionBounds ==
    \A k, n \in Nat : /\ k * BlockSize \in Nat
                      /\ (k + 1) * BlockSize = (k * BlockSize) + BlockSize
                      /\ n < k * BlockSize => n \div BlockSize < k
                      /\ k * BlockSize <= n => k <= n \div BlockSize
BY Sizes, Division

LEMMA Multiples == \A j, k \in Nat : j <= k => j * BlockSize <= k * BlockSize
BY Sizes

RequestType ==
    [prompt : Seq(Nat), table : Seq(Blocks), offset : Slots, progress : Nat, out : Seq(Nat)]

(* The block and slot of token i, and the first token after block k.         *)
Index(q, i) == ((q.offset + i) \div BlockSize) + 1
Slot(q, i) == (q.offset + i) % BlockSize
After(q, k) == (k * BlockSize) - q.offset

(* The fields of a request, and the room of its table.                       *)
LEMMA Fields ==
    ASSUME NEW q \in RequestType
    PROVE  /\ q.prompt \in Seq(Nat) /\ q.table \in Seq(Blocks) /\ q.offset \in Slots
           /\ q.progress \in Nat /\ q.out \in Seq(Nat)
           /\ q.offset \in Nat /\ q.offset < BlockSize
           /\ Len(q.table) \in Nat /\ DOMAIN q.table = 1 .. Len(q.table)
           /\ Capacity(q) = After(q, Len(q.table)) /\ Capacity(q) \in Int
<1>1. /\ q.prompt \in Seq(Nat) /\ q.table \in Seq(Blocks) /\ q.offset \in Slots
      /\ q.progress \in Nat /\ q.out \in Seq(Nat)
  BY DEF RequestType
<1>2. q.offset \in Nat /\ q.offset < BlockSize
  BY <1>1, Sizes DEF Slots
<1>3. Len(q.table) \in Nat /\ DOMAIN q.table = 1 .. Len(q.table)
  BY <1>1
<1>4. Capacity(q) = After(q, Len(q.table)) /\ Capacity(q) \in Int
  <2> DEFINE x == Len(q.table) * BlockSize
  <2>1. x \in Nat
    BY <1>3, DivisionBounds
  <2>2. Capacity(q) = x - q.offset /\ After(q, Len(q.table)) = x - q.offset
    BY DEF Capacity, After
  <2> HIDE DEF x
  <2> QED BY <1>2, <2>1, <2>2
<1> QED BY <1>1, <1>2, <1>3, <1>4

(* Where token i of a request is: in block Index of its table, which it does *)
(* not reach the end of, and in which slot.                                  *)
LEMMA Indexing ==
    ASSUME NEW q \in RequestType, NEW i \in Nat
    PROVE  /\ Index(q, i) \in Nat \ {0} /\ Slot(q, i) \in Slots /\ Slot(q, i) \in Nat
           /\ Slot(q, i) < BlockSize
           /\ q.offset + i = ((Index(q, i) - 1) * BlockSize) + Slot(q, i)
           /\ After(q, Index(q, i)) \in Int /\ i < After(q, Index(q, i))
           /\ \A k \in Nat : After(q, k) \in Int /\ (i < After(q, k) <=> Index(q, i) <= k)
<1> DEFINE d == (q.offset + i) \div BlockSize
           s == (q.offset + i) % BlockSize
<1>1. q.offset + i \in Nat /\ q.offset \in Nat
  BY Fields
<1>2. d \in Nat /\ s \in Slots /\ q.offset + i = (d * BlockSize) + s
  BY <1>1, Division
<1>3. Index(q, i) = d + 1 /\ Slot(q, i) = s
  BY DEF Index, Slot
<1>4. ASSUME NEW k \in Nat
      PROVE  /\ After(q, k) \in Int
             /\ q.offset + i < k * BlockSize <=> d < k
             /\ i < After(q, k) <=> q.offset + i < k * BlockSize
  <2>1. k * BlockSize \in Nat
    BY DivisionBounds
  <2>2. q.offset + i < k * BlockSize => d < k
    BY <1>1, DivisionBounds
  <2>3. k * BlockSize <= q.offset + i => k <= d
    BY <1>1, DivisionBounds
  <2> HIDE DEF d, s
  <2> DEFINE x == k * BlockSize
  <2>4. After(q, k) = x - q.offset
    BY DEF After
  <2>5. x \in Nat /\ (q.offset + i < x => d < k) /\ (x <= q.offset + i => k <= d)
    BY <2>1, <2>2, <2>3
  <2> HIDE DEF x
  <2>6. After(q, k) \in Int /\ (q.offset + i < x <=> d < k) /\ (i < After(q, k) <=> q.offset + i < x)
    BY <1>1, <1>2, <2>4, <2>5
  <2> QED BY <2>6 DEF x
<1> HIDE DEF d, s
<1>5. s \in Nat /\ s < BlockSize
  BY <1>2, Sizes DEF Slots
<1>6. d + 1 \in Nat \ {0} /\ (d + 1) - 1 = d
  BY <1>2
<1>7. After(q, d + 1) \in Int /\ i < After(q, d + 1)
  BY <1>2, <1>4, <1>6
<1>8. ASSUME NEW k \in Nat
      PROVE  After(q, k) \in Int /\ (i < After(q, k) <=> d + 1 <= k)
  <2>1. d < k <=> d + 1 <= k
    BY <1>2
  <2> QED BY <1>4, <2>1
<1> QED BY <1>2, <1>3, <1>5, <1>6, <1>7, <1>8

(* Token i of a request has a block of its table and a slot,                 *)
LEMMA Places ==
    ASSUME NEW q \in RequestType, NEW i \in Nat
    PROVE  /\ Place(q, i) = <<q.table[Index(q, i)], Slot(q, i)>>
           /\ i < Capacity(q) => /\ Index(q, i) \in DOMAIN q.table
                                 /\ Index(q, i) \in 1 .. Len(q.table)
                                 /\ q.table[Index(q, i)] \in Blocks
<1>1. Place(q, i) = <<q.table[Index(q, i)], Slot(q, i)>>
  BY DEF Place, Index, Slot
<1>2. ASSUME i < Capacity(q)
      PROVE  Index(q, i) \in 1 .. Len(q.table)
  <2>1. Index(q, i) <= Len(q.table)
    BY <1>2, Indexing, Fields
  <2>2. Index(q, i) \in Nat \ {0}
    BY Indexing
  <2>3. Len(q.table) \in Nat
    BY Fields
  <2> QED BY <2>1, <2>2, <2>3
<1>3. i < Capacity(q) => Index(q, i) \in DOMAIN q.table /\ q.table[Index(q, i)] \in Blocks
  BY <1>2, Fields
<1> QED BY <1>1, <1>2, <1>3

(* and no two have the same.                                                 *)
LEMMA PlacesDiffer ==
    ASSUME NEW q \in RequestType, IsInjective(q.table),
           NEW i \in Nat, NEW j \in Nat, i < Capacity(q), j < Capacity(q),
           Place(q, i) = Place(q, j)
    PROVE  i = j
<1>1. q.table[Index(q, i)] = q.table[Index(q, j)] /\ Slot(q, i) = Slot(q, j)
  BY Places
<1>2. Index(q, i) = Index(q, j)
  <2>1. Index(q, i) \in DOMAIN q.table /\ Index(q, j) \in DOMAIN q.table
    BY Places
  <2> QED BY <1>1, <2>1 DEF IsInjective
<1>3. q.offset + i = q.offset + j
  BY <1>1, <1>2, Indexing
<1>4. q.offset \in Nat
  BY Fields
<1> QED BY <1>3, <1>4

(* The place of the token that is s after the beginning of block k + 1.      *)
LEMMA PlaceInBlock ==
    ASSUME NEW q \in RequestType, NEW i \in Nat, NEW k \in Nat, NEW s \in Slots,
           q.offset + i = (k * BlockSize) + s
    PROVE  Index(q, i) = k + 1 /\ Slot(q, i) = s /\ Place(q, i) = <<q.table[k + 1], s>>
<1>1. (q.offset + i) \div BlockSize = k /\ (q.offset + i) % BlockSize = s
  BY DivisionIsUnique
<1> QED BY <1>1 DEF Index, Slot, Place

-----------------------------------------------------------------------------
(* The inductive invariant.                                                  *)

(* The tokens of a request whose KV has been computed: Computed, for any     *)
(* phase p and request q.                                                    *)
TokensOf(p, q) == IF p = "prefilling" THEN SubSeq(q.prompt, 1, q.progress)
                  ELSE q.prompt \o Front(q.out)
NumOf(p, q) == Len(TokensOf(p, q))

HasBlocks == {"prefilling", "running", "ended"}
Holders == {r \in Requests : phase[r] \in HasBlocks}

(* A slot holds the KV of token i of those in t, or nothing.                 *)
Stands(K, q, t, i) == LET at == Place(q, i)
                      IN  at[1] \in DOMAIN K /\ K[at[1]][at[2]] = SubSeq(t, 1, i + 1)
Blank(K, q, i) == LET at == Place(q, i)
                  IN  at[1] \in DOMAIN K => K[at[1]][at[2]] = Zero

TypeInv ==
    /\ req \in [Requests -> RequestType]
    /\ phase \in [Requests -> Phases]
    /\ DOMAIN seen = Requests
    /\ DOMAIN past \subseteq Requests

PoolInv ==
    /\ DOMAIN kv \subseteq InUse
    /\ \A b \in DOMAIN kv : /\ DOMAIN kv[b] = Slots
                            /\ \A s \in Slots : kv[b][s] \in Seq(Nat)

(* Who has no blocks has nothing.                                            *)
NobodyInv ==
    \A r \in Requests : /\ phase[r] = "new" => r \notin DOMAIN past
                        /\ r \notin Holders => req[r] = NoRequest

(* A table names no block twice and has room for the prompt, and for all     *)
(* tokens whose KV has been computed.                                        *)
Room(p, q) == /\ IsInjective(q.table)
              /\ q.prompt # <<>> /\ Len(q.prompt) <= Capacity(q)
              /\ NumOf(p, q) <= Capacity(q)

(* How far a request is in each phase.                                       *)
Stage(p, q) ==
    /\ q.progress <= Len(q.prompt)
    /\ p = "prefilling" => q.out = <<>>
    /\ p # "prefilling" => q.out # <<>> /\ (Len(q.out) <= 2 \/ Len(q.out) <= MaxNew)
    /\ p = "running" => Len(q.out) = 1 \/ Len(q.out) < MaxNew

HoldersInv == \A r \in Holders : Room(phase[r], req[r]) /\ Stage(phase[r], req[r])

(* The past length of a running request is the number of these tokens; who   *)
(* has none yet is at the beginning, or at the end of the blocks it reuses.  *)
AtBlockEnd(q) == q.progress = 0 \/ (q.offset + q.progress) % BlockSize = 0
PastInv ==
    \A r \in Requests :
        /\ phase[r] = "running" => r \in DOMAIN past /\ past[r] = NumOf(phase[r], req[r])
        /\ phase[r] = "prefilling" /\ r \notin DOMAIN past => AtBlockEnd(req[r])

(* The slots of these tokens have their KV, and those after them nothing.    *)
HoldsInv ==
    \A r \in Holders : \A i \in Nat :
        i < NumOf(phase[r], req[r]) => Stands(kv, req[r], TokensOf(phase[r], req[r]), i)
BlankInv ==
    \A r \in Holders : \A i \in Nat :
        NumOf(phase[r], req[r]) <= i /\ i < Capacity(req[r]) => Blank(kv, req[r], i)

(* A block that two tables name is full: neither of the two writes to it.    *)
SharedInv ==
    \A r, o \in Holders : r # o =>
        \A i \in DOMAIN req[r].table : \A j \in DOMAIN req[o].table :
            req[r].table[i] = req[o].table[j] => After(req[r], i) <= NumOf(phase[r], req[r])

IInv == /\ TypeInv /\ PoolInv /\ NobodyInv /\ HoldersInv /\ PastInv
        /\ HoldsInv /\ BlankInv /\ SharedInv
        /\ DecodesFromAllTokens

-----------------------------------------------------------------------------
(* Sequences, and what is read.                                              *)
Grows(t, u) == Len(t) <= Len(u) /\ \A i \in 1 .. Len(t) : u[i] = t[i]

(* The first n of a sequence.                                                *)
LEMMA Beginnings ==
    ASSUME NEW t \in Seq(Nat), NEW n \in 0 .. Len(t)
    PROVE  /\ SubSeq(t, 1, n) \in Seq(Nat) /\ Len(SubSeq(t, 1, n)) = n
           /\ \A i \in 1 .. n : SubSeq(t, 1, n)[i] = t[i]
<1>1. \A i \in 1 .. n : t[i] \in Nat
  OBVIOUS
<1>2. 1 \in Int /\ n \in Int /\ n - 1 + 1 = n /\ (1 <= n \/ n = 0)
  OBVIOUS
<1>3. /\ SubSeq(t, 1, n) \in Seq(Nat)
      /\ Len(SubSeq(t, 1, n)) = IF 1 <= n THEN n - 1 + 1 ELSE 0
      /\ \A i \in 1 .. n - 1 + 1 : SubSeq(t, 1, n)[i] = t[1 + i - 1]
  BY <1>1, <1>2, SubSeqProperties
<1> QED BY <1>2, <1>3

LEMMA PrefixesAgree ==
    ASSUME NEW t \in Seq(Nat), NEW u \in Seq(Nat), Grows(t, u), NEW n \in 0 .. Len(t)
    PROVE  SubSeq(t, 1, n) = SubSeq(u, 1, n)
<1>1. n \in 0 .. Len(u) /\ \A i \in 1 .. n : t[i] = u[i]
  BY SMTT(30) DEF Grows
<1>2. /\ SubSeq(t, 1, n) \in Seq(Nat) /\ Len(SubSeq(t, 1, n)) = n
      /\ \A i \in 1 .. n : SubSeq(t, 1, n)[i] = t[i]
  BY Beginnings
<1>3. /\ SubSeq(u, 1, n) \in Seq(Nat) /\ Len(SubSeq(u, 1, n)) = n
      /\ \A i \in 1 .. n : SubSeq(u, 1, n)[i] = u[i]
  BY <1>1, Beginnings
<1> QED BY <1>1, <1>2, <1>3, SeqEqual

(* A row that attends to the KV of t has it and its own tokens.              *)
LEMMA Attending ==
    ASSUME NEW t \in Seq(Nat), NEW tokens \in Seq(Nat)
    PROVE  Attend([i \in 1 .. Len(t) |-> SubSeq(t, 1, i)], tokens) = t \o tokens
<1> DEFINE columns == [i \in 1 .. Len(t) |-> SubSeq(t, 1, i)]
<1>1. Len(t) \in Nat
  OBVIOUS
<1>2. CASE Len(t) = 0
  <2>1. t = <<>>
    BY <1>2
  <2>2. columns = <<>>
    BY <1>2
  <2>3. t \o tokens = tokens
    BY <2>1
  <2> QED BY <2>2, <2>3 DEF Attend
<1>3. CASE Len(t) # 0
  <2>1. \A i \in 1 .. Len(t) : columns[i] = SubSeq(t, 1, i) /\ columns[i] \in Seq(Nat) /\ Len(columns[i]) = i
    BY Beginnings
  <2>2. DOMAIN columns = 1 .. Len(t) /\ columns \in Seq(Seq(Nat)) /\ Len(columns) = Len(t)
    BY <1>1, <2>1
  <2>3. Last(columns) = t
    BY <1>1, <1>3, <2>1, <2>2, SubSeqFull DEF Last
  <2>4. \A i \in 1 .. Len(t) : IsPrefix(columns[i], t)
    <3> TAKE i \in 1 .. Len(t)
    <3>1. Len(columns[i]) = i /\ i <= Len(t) /\ columns[i] \in Seq(Nat)
      BY <2>1
    <3>2. SubSeq(columns[i], 1, i) = columns[i]
      BY <3>1, SubSeqFull
    <3> QED BY <2>1, <3>1, <3>2 DEF IsPrefix
  <2>5. columns # <<>>
    BY <1>3, <2>2
  <2> HIDE DEF columns
  <2>6. \A i \in DOMAIN columns : Len(columns[i]) = i /\ IsPrefix(columns[i], Last(columns))
    BY <2>1, <2>2, <2>3, <2>4
  <2>7. Attend(columns, tokens) = t \o tokens
    BY <2>3, <2>5, <2>6, Zenon DEF Attend
  <2> QED BY <2>7 DEF columns
<1> QED BY <1>2, <1>3

(* A column of padding is not seen.                                          *)
LEMMA NoPaddingSeen ==
    ASSUME NEW s \in Seq(Seq(Nat)), NEW n \in Int
    PROVE  SubSeq(s \o [i \in 1 .. n |-> Zero], 1, Len(s)) = s
<1> DEFINE pad == [i \in 1 .. n |-> Zero]
           all == s \o pad
<1>1. pad \in Seq(Seq(Nat))
  <2>1. CASE n \in Nat
    BY <2>1 DEF Zero
  <2>2. CASE n < 0
    <3>1. 1 .. n = {}
      BY <2>2
    <3>2. [i \in 1 .. 0 |-> Zero] \in Seq(Seq(Nat))
      BY DEF Zero
    <3>3. 1 .. n = 1 .. 0
      BY <3>1
    <3> QED BY <3>2, <3>3
  <2> QED BY <2>1, <2>2
<1> HIDE DEF pad
<1>2. /\ all \in Seq(Seq(Nat)) /\ Len(all) = Len(s) + Len(pad)
      /\ \A i \in 1 .. Len(s) + Len(pad) : all[i] = IF i <= Len(s) THEN s[i] ELSE pad[i - Len(s)]
  BY <1>1, ConcatProperties
<1>3. Len(s) \in Nat /\ Len(pad) \in Nat
  BY <1>1
<1> HIDE DEF all
<1>4. \A i \in 1 .. Len(s) : all[i] = s[i] /\ s[i] \in Seq(Nat)
  BY <1>2, <1>3
<1>5. /\ SubSeq(all, 1, Len(s)) \in Seq(Seq(Nat))
      /\ Len(SubSeq(all, 1, Len(s))) = IF 1 <= Len(s) THEN Len(s) - 1 + 1 ELSE 0
      /\ \A i \in 1 .. Len(s) - 1 + 1 : SubSeq(all, 1, Len(s))[i] = all[1 + i - 1]
  <2>1. 1 \in Int /\ Len(s) \in Int
      BY <1>3
  <2>2. \A i \in 1 .. Len(s) : all[i] \in Seq(Nat)
      BY <1>4, Zenon
  <2> QED BY <2>1, <2>2, SubSeqProperties
<1>6. Len(SubSeq(all, 1, Len(s))) = Len(s) /\ \A i \in 1 .. Len(s) : SubSeq(all, 1, Len(s))[i] = s[i]
  BY <1>3, <1>4, <1>5
<1>7. SubSeq(all, 1, Len(s)) = s
  BY <1>3, <1>5, <1>6, SeqEqual
<1> QED BY <1>7 DEF all, pad

(* FlattenSeq joins its sequences one by one.                                *)
Joined(p, s, t) == s \o t
Joins == INSTANCE Folding WITH op <- Joined

LEMMA Joining ==
    ASSUME NEW s, Len(s) \in Nat, DOMAIN s = 1 .. Len(s)
    PROVE  \E f : /\ f[0] = <<>>
                  /\ \A i \in 0 .. Len(s) - 1 : f[i + 1] = f[i] \o s[i + 1]
<1>1. \E f : /\ f[0] = <<>>
             /\ \A i \in 0 .. Len(s) - 1 : f[i + 1] = Joined(0, f[i], s[i + 1])
             /\ Joins!Fold(0, <<>>, s) = f[Len(s)]
  BY Joins!FoldSteps
<1> QED BY <1>1 DEF Joined

LEMMA Flattening ==
    ASSUME NEW S, NEW n \in Nat \ {0}, NEW s \in [1 .. n -> Seq(S)]
    PROVE  \E f : /\ f[0] = <<>>
                  /\ \A i \in 0 .. n - 1 : f[i + 1] = f[i] \o s[i + 1]
                  /\ FlattenSeq(s) = f[n]
<1>1. Len(s) = n /\ DOMAIN s = 1 .. n /\ Len(s) \in Nat
  OBVIOUS
<1>2. PICK f : /\ f[0] = <<>>
               /\ \A i \in 0 .. n - 1 : f[i + 1] = f[i] \o s[i + 1]
  BY <1>1, Joining
<1> DEFINE Flat(g) == g = [i \in 1 .. n |-> IF i = 1 THEN s[i] ELSE g[i - 1] \o s[i]]
           h == [i \in 1 .. n |-> f[i]]
           flat == CHOOSE g : Flat(g)
<1>3. Flat(h)
  <2>1. ASSUME NEW i \in 1 .. n
        PROVE  f[i] = IF i = 1 THEN s[i] ELSE h[i - 1] \o s[i]
    <3>1. i - 1 \in 0 .. n - 1 /\ (i - 1) + 1 = i
      OBVIOUS
    <3>2. f[i] = f[i - 1] \o s[i]
      BY <1>2, <3>1
    <3>3. CASE i = 1
      <4>1. s[1] \in Seq(S)
        BY <3>3
      <4> QED BY <1>2, <3>2, <3>3, <4>1
    <3>4. CASE i # 1
      <4>1. h[i - 1] = f[i - 1]
        BY <3>4
      <4> QED BY <3>2, <3>4, <4>1
    <3> QED BY <3>3, <3>4
  <2>2. h = [i \in 1 .. n |-> IF i = 1 THEN s[i] ELSE h[i - 1] \o s[i]]
    <3> DEFINE H(i) == IF i = 1 THEN s[i] ELSE h[i - 1] \o s[i]
    <3>1. \A i \in 1 .. n : f[i] = H(i)
      BY <2>1
    <3> HIDE DEF H
    <3>2. h = [i \in 1 .. n |-> H(i)]
      BY <3>1
    <3> QED BY <3>2 DEF H
  <2> QED BY <2>2
<1>4. Flat(flat)
  <2> HIDE DEF Flat, h
  <2> QED BY <1>3
<1>5. FlattenSeq(s) = flat[n]
  BY <1>1 DEF FlattenSeq
<1> HIDE DEF flat, h
<1>6. \A i \in 1 .. n : flat[i] = IF i = 1 THEN s[i] ELSE flat[i - 1] \o s[i]
  BY <1>4
<1> DEFINE k == [i \in 0 .. n |-> IF i = 0 THEN <<>> ELSE flat[i]]
<1>7. \A i \in 0 .. n - 1 : k[i + 1] = k[i] \o s[i + 1]
  <2> TAKE i \in 0 .. n - 1
  <2>1. i + 1 \in 1 .. n /\ i + 1 \in 0 .. n /\ i \in 0 .. n /\ i + 1 # 0
    OBVIOUS
  <2>2. CASE i = 0
    <3>1. s[1] \in Seq(S)
      BY <2>1, <2>2
    <3>2. <<>> \o s[1] = s[1]
      BY <3>1
    <3>3. k[i + 1] = s[1] /\ k[i] = <<>>
      BY <1>6, <2>1, <2>2
    <3> QED BY <2>2, <3>2, <3>3
  <2>3. CASE i # 0
    <3>1. flat[i + 1] = flat[i] \o s[i + 1]
      <4>1. i + 1 # 1 /\ (i + 1) - 1 = i
        BY <2>3
      <4> HIDE DEF k, Flat
      <4> QED BY <1>6, <2>1, <4>1
    <3> QED BY <2>1, <2>3, <3>1
  <2> QED BY <2>2, <2>3
<1>8. k[0] = <<>> /\ k[n] = flat[n]
  OBVIOUS
<1> HIDE DEF k
<1> QED BY <1>5, <1>7, <1>8

(* Stands and Blank, for a token whose place is known.                       *)
LEMMA StandsAt ==
    ASSUME NEW K, NEW q, NEW t, NEW i, NEW b, NEW s, Place(q, i) = <<b, s>>
    PROVE  /\ Stands(K, q, t, i) => b \in DOMAIN K /\ K[b][s] = SubSeq(t, 1, i + 1)
           /\ b \in DOMAIN K /\ K[b][s] = SubSeq(t, 1, i + 1) => Stands(K, q, t, i)
<1>1. Place(q, i)[1] = b /\ Place(q, i)[2] = s
  OBVIOUS
<1> QED BY <1>1, Zenon DEF Stands

LEMMA BlankAt ==
    ASSUME NEW K, NEW q, NEW i, NEW b, NEW s, Place(q, i) = <<b, s>>
    PROVE  /\ Blank(K, q, i) => (b \in DOMAIN K => K[b][s] = Zero)
           /\ (b \in DOMAIN K => K[b][s] = Zero) => Blank(K, q, i)
<1>1. Place(q, i)[1] = b /\ Place(q, i)[2] = s
  OBVIOUS
<1> QED BY <1>1, Zenon DEF Blank

(* The first token after the first k blocks.                                 *)
Upto(q, k) == IF k = 0 THEN 0 ELSE After(q, k)
Start(q, k) == IF k = 0 THEN q.offset ELSE 0

(* Each block of a table but the first begins where the one before it ends.  *)
LEMMA BlockEnds ==
    ASSUME NEW q \in RequestType, NEW k \in Nat
    PROVE  /\ Start(q, k) \in Slots /\ Start(q, k) \in Nat /\ Start(q, k) < BlockSize
           /\ Upto(q, k) \in Nat /\ Upto(q, k + 1) \in Nat
           /\ q.offset + Upto(q, k) = (k * BlockSize) + Start(q, k)
           /\ Upto(q, k + 1) = (Upto(q, k) + BlockSize) - Start(q, k)
           /\ Upto(q, k + 1) > Upto(q, k)
<1> DEFINE x == k * BlockSize
           start == Start(q, k)
<1>1. q.offset \in Nat /\ q.offset < BlockSize /\ BlockSize \in Nat
  BY Fields, Sizes
<1>2. x \in Nat /\ (k + 1) * BlockSize = x + BlockSize
  BY DivisionBounds
<1>3. k # 0 => x >= BlockSize
  <2>1. k # 0 => 1 * BlockSize <= x
    BY Multiples
  <2> QED BY <1>1, <2>1
<1>4. k = 0 => x = 0
  BY <1>1
<1>5. After(q, k) = x - q.offset /\ After(q, k + 1) = (x + BlockSize) - q.offset /\ k + 1 # 0
  BY <1>2 DEF After
<1>6. /\ start \in Slots /\ start \in Nat /\ start < BlockSize
  BY <1>1, Sizes DEF Slots, Start
<1> HIDE DEF x
<1>7. Upto(q, k + 1) = (x + BlockSize) - q.offset
  BY <1>5 DEF Upto
<1>8. CASE k = 0
  <2>1. Upto(q, k) = 0 /\ start = q.offset /\ x = 0
    BY <1>4, <1>8 DEF Upto, Start
  <2> HIDE DEF start
  <2>2. /\ Upto(q, k) \in Nat /\ Upto(q, k + 1) \in Nat
        /\ q.offset + Upto(q, k) = x + start
        /\ Upto(q, k + 1) = (Upto(q, k) + BlockSize) - start
        /\ Upto(q, k + 1) > Upto(q, k)
    BY <1>1, <1>2, <1>6, <1>7, <2>1
  <2> QED BY <1>6, <2>2 DEF x, start
<1>9. CASE k # 0
  <2>1. Upto(q, k) = x - q.offset /\ start = 0
    BY <1>5, <1>9 DEF Upto, Start
  <2> HIDE DEF start
  <2>2. /\ Upto(q, k) \in Nat /\ Upto(q, k + 1) \in Nat
        /\ q.offset + Upto(q, k) = x + start
        /\ Upto(q, k + 1) = (Upto(q, k) + BlockSize) - start
        /\ Upto(q, k + 1) > Upto(q, k)
    BY <1>1, <1>2, <1>3, <1>6, <1>7, <1>9, <2>1
  <2> QED BY <1>6, <2>2 DEF x, start
<1> QED BY <1>8, <1>9

(* The tokens of block k + 1 are in its slots, in their order.               *)
LEMMA InBlock ==
    ASSUME NEW q \in RequestType, NEW k \in Nat, NEW i \in Nat,
           i > Upto(q, k), i <= Upto(q, k + 1)
    PROVE  LET s == Start(q, k) + (i - Upto(q, k)) - 1
           IN  /\ i - 1 \in Nat /\ i - Upto(q, k) \in 1 .. BlockSize - Start(q, k)
               /\ s \in Slots
               /\ Place(q, i - 1) = <<q.table[k + 1], s>>
<1> DEFINE e == Upto(q, k)
           d == Upto(q, k + 1)
           start == Start(q, k)
           s == start + (i - e) - 1
           x == k * BlockSize
<1>1. /\ start \in Nat /\ start < BlockSize /\ e \in Nat /\ d \in Nat
      /\ q.offset + e = x + start /\ d = (e + BlockSize) - start
  BY BlockEnds
<1>2. q.offset \in Nat /\ x \in Nat /\ BlockSize \in Nat
  BY Fields, DivisionBounds, Sizes
<1>3. i > e /\ i <= d
  OBVIOUS
<1> HIDE DEF e, d, start, x
<1>4. i - 1 \in Nat /\ i - e \in 1 .. BlockSize - start /\ s \in 0 .. BlockSize - 1
  BY <1>1, <1>2, <1>3
<1>5. q.offset + (i - 1) = x + s
  BY <1>1, <1>2, <1>3
<1> HIDE DEF s
<1>6. s \in Slots /\ q.offset + (i - 1) = (k * BlockSize) + s
  BY <1>4, <1>5 DEF Slots, x
<1>7. Place(q, i - 1) = <<q.table[k + 1], s>>
  BY <1>4, <1>6, PlaceInBlock
<1> QED BY <1>4, <1>6, <1>7 DEF s, e, start

(* read_layer returns the KV of the tokens whose slots have it.              *)
LEMMA Reading ==
    ASSUME PoolInv, NEW q \in RequestType, NEW t \in Seq(Nat), Len(t) <= Capacity(q),
           \A i \in Nat : i < Len(t) => Stands(kv, q, t, i)
    PROVE  Read(q, Len(t)) = [i \in 1 .. Len(t) |-> SubSeq(t, 1, i)]
<1> DEFINE n == Len(t)
           N == Len(q.table)
           SlotsOf(i) == IF q.table[i] \notin DOMAIN kv THEN <<>>
                         ELSE LET start == IF i = 1 THEN q.offset ELSE 0
                              IN  [j \in 1 .. BlockSize - start |-> kv[q.table[i]][start + j - 1]]
           parts == [i \in DOMAIN q.table |-> SlotsOf(i)]
           all == FlattenSeq(parts)
           columns == [i \in 1 .. n |-> SubSeq(t, 1, i)]
<1>1. n \in Nat /\ N \in Nat /\ DOMAIN q.table = 1 .. N /\ BlockSize \in Nat /\ q.offset \in Nat
  BY Fields, Sizes
<1>2. Read(q, n) = SubSeq(all, 1, Min({n, Len(all)}))
  BY DEF Read
<1>3. \A i \in 1 .. N : SlotsOf(i) \in Seq(Seq(Nat))
  <2> TAKE i \in 1 .. N
  <2>1. CASE q.table[i] \notin DOMAIN kv
    BY <2>1
  <2>2. CASE q.table[i] \in DOMAIN kv
    <3> DEFINE start == IF i = 1 THEN q.offset ELSE 0
    <3>1. start \in Nat /\ start < BlockSize /\ BlockSize - start \in Nat
      BY Fields, Sizes
    <3>2. \A j \in 1 .. BlockSize - start : start + j - 1 \in Slots
      <4> HIDE DEF start
      <4> QED BY <1>1, <3>1 DEF Slots
    <3>3. SlotsOf(i) = [j \in 1 .. BlockSize - start |-> kv[q.table[i]][start + j - 1]]
      BY <2>2
    <3> HIDE DEF SlotsOf, start
    <3>4. \A j \in 1 .. BlockSize - start : kv[q.table[i]][start + j - 1] \in Seq(Nat)
      BY <2>2, <3>2 DEF PoolInv
    <3> QED BY <3>1, <3>3, <3>4, SMTT(30)
  <2> QED BY <2>1, <2>2
<1>4. \A i \in 1 .. n : SubSeq(t, 1, i) \in Seq(Nat) /\ Len(SubSeq(t, 1, i)) = i
  BY Beginnings
<1> HIDE DEF SlotsOf
<1>5. CASE N = 0
  <2>1. n = 0
    <3>1. Capacity(q) = After(q, 0)
      BY <1>5, Fields
    <3>2. After(q, 0) <= 0
      BY <1>1 DEF After
    <3> QED BY <1>1, <3>1, <3>2, Fields
  <2>2. parts = <<>>
    BY <1>1, <1>5
  <2>3. all = <<>> /\ Len(all) = 0
    BY <2>2 DEF FlattenSeq
  <2>4. Min({n, Len(all)}) = 0
    <3>1. {n, Len(all)} = {0}
      BY <2>1, <2>3
    <3> QED BY <3>1 DEF Min
  <2>5. Read(q, n) = <<>>
    <3>1. SubSeq(all, 1, 0) = <<>>
      BY SubSeqEmpty
    <3> HIDE DEF all
    <3> QED BY <1>2, <2>4, <3>1
  <2>6. columns = <<>>
    BY <2>1
  <2> QED BY <2>5, <2>6
<1>6. CASE N # 0
  <2>1. N \in Nat \ {0} /\ parts \in [1 .. N -> Seq(Seq(Nat))]
    BY <1>1, <1>3, <1>6
  <2>2. PICK f : /\ f[0] = <<>>
                 /\ \A i \in 0 .. N - 1 : f[i + 1] = f[i] \o parts[i + 1]
                 /\ FlattenSeq(parts) = f[N]
    <3> HIDE DEF parts, N
    <3> QED BY <2>1, Flattening
  <2> DEFINE Fine(k) == /\ f[k] \in Seq(Seq(Nat))
                        /\ Upto(q, k) <= n => Len(f[k]) = Upto(q, k)
                        /\ Upto(q, k) > n => Len(f[k]) >= n
                        /\ \A i \in 1 .. n : i <= Upto(q, k) => f[k][i] = SubSeq(t, 1, i)
             P == {k \in 0 .. N : Fine(k)}
  <2>3. 0 \in P
    <3>1. Upto(q, 0) = 0
      BY DEF Upto
    <3>2. f[0] = <<>> /\ <<>> \in Seq(Seq(Nat)) /\ Len(<<>>) = 0
      BY <2>2
    <3>3. \A i \in 1 .. n : ~ (i <= 0)
      BY <1>1
    <3>4. Fine(0)
      BY <1>1, <3>1, <3>2, <3>3
    <3> HIDE DEF Fine
    <3> QED BY <1>1, <3>4
  <2>4. ASSUME NEW k \in 0 .. N - 1, k \in P
        PROVE  k + 1 \in P
    <3> DEFINE e == Upto(q, k)
               d == Upto(q, k + 1)
               start == IF k = 0 THEN q.offset ELSE 0
               part == SlotsOf(k + 1)
    <3>1. k \in Nat /\ k + 1 \in 1 .. N /\ k + 1 \in 0 .. N /\ (k + 1 = 1 <=> k = 0)
      BY <1>1
    <3>2. /\ start \in Slots /\ start \in Nat /\ start < BlockSize
          /\ e \in Nat /\ d \in Nat /\ q.offset + e = (k * BlockSize) + start
          /\ d = (e + BlockSize) - start /\ d > e
      <4>1. start = Start(q, k)
        BY DEF Start
      <4> HIDE DEF start
      <4> QED BY <3>1, <4>1, BlockEnds, Zenon
    <3>3. part \in Seq(Seq(Nat)) /\ Len(part) \in Nat /\ parts[k + 1] = part
      BY <1>1, <1>3, <3>1
    <3>4. Fine(k)
      BY <2>4
    <3>5. /\ f[k + 1] \in Seq(Seq(Nat)) /\ Len(f[k + 1]) = Len(f[k]) + Len(part)
          /\ \A i \in 1 .. Len(f[k]) + Len(part) :
                f[k + 1][i] = IF i <= Len(f[k]) THEN f[k][i] ELSE part[i - Len(f[k])]
          /\ Len(f[k]) \in Nat
      <4>1. f[k + 1] = f[k] \o part
        BY <2>2, <3>3
      <4>2. f[k] \in Seq(Seq(Nat))
        BY <3>4
      <4> HIDE DEF Fine, part, parts
      <4> QED BY <3>3, <4>1, <4>2, ConcatProperties
    <3>6. CASE e >= n
      <4>1. Len(f[k]) >= n
        <5> HIDE DEF e
        <5> QED BY <1>1, <3>2, <3>4, <3>6 DEF e
      <4>2. \A i \in 1 .. n : f[k + 1][i] = SubSeq(t, 1, i)
        <5> TAKE i \in 1 .. n
        <5>1. f[k][i] = SubSeq(t, 1, i)
          <6>1. i <= e
            BY <1>1, <3>2, <3>6
          <6> QED BY <3>4, <6>1
        <5>2. i \in 1 .. Len(f[k]) + Len(part) /\ i <= Len(f[k])
          <6>1. Len(part) \in Nat /\ Len(f[k]) \in Nat
            BY <3>3, <3>5
          <6> DEFINE x == Len(f[k])
                     y == Len(part)
          <6>2. x \in Nat /\ y \in Nat /\ n \in Nat /\ x >= n
            BY <1>1, <4>1, <6>1
          <6> HIDE DEF x, y
          <6>3. i \in 1 .. x + y /\ i <= x
            BY <6>2
          <6> QED BY <6>3 DEF x, y
        <5> QED BY <3>5, <5>1, <5>2
      <4>3. d > n /\ Len(f[k + 1]) >= n
        <5> HIDE DEF d, e, part
        <5>1. d > n
          <6> HIDE DEF start
          <6> QED BY <1>1, <3>2, <3>6
        <5> DEFINE x == Len(f[k])
                   y == Len(part)
        <5>2. Len(f[k + 1]) = x + y /\ x \in Nat /\ y \in Nat /\ n \in Nat /\ x >= n
          BY <1>1, <3>3, <3>5, <4>1
        <5> HIDE DEF x, y
        <5>3. Len(f[k + 1]) >= n
          BY <5>2
        <5> QED BY <5>1, <5>3
      <4>4. Fine(k + 1)
        <5>1. ~ (d <= n)
          <6> HIDE DEF d
          <6> QED BY <1>1, <3>2, <4>3
        <5> QED BY <3>5, <4>2, <4>3, <5>1
      <4> HIDE DEF Fine
      <4> QED BY <3>1, <4>4
    <3>7. CASE e < n
      <4>1. Len(f[k]) = e
        <5>1. e <= n
          BY <1>1, <3>2, <3>7
        <5> QED BY <3>4, <5>1
      <4>2. q.table[k + 1] \in DOMAIN kv
        <5>1. Stands(kv, q, t, e)
          BY <3>2, <3>7
        <5>2. Place(q, e) = <<q.table[k + 1], start>>
          <6> HIDE DEF e, start
          <6> QED BY <3>1, <3>2, PlaceInBlock
        <5> HIDE DEF e, start
        <5> QED BY <5>1, <5>2, StandsAt
      <4>3. part = [j \in 1 .. BlockSize - start |-> kv[q.table[k + 1]][start + j - 1]]
        BY <3>1, <4>2 DEF SlotsOf
      <4>4. Len(part) = BlockSize - start
        <5>1. BlockSize - start \in Nat
          <6> HIDE DEF start
          <6> QED BY <1>1, <3>2
        <5> HIDE DEF start
        <5> QED BY <4>3, <5>1
      <4>5. Len(f[k + 1]) = d
        <5> HIDE DEF d, e, start, part
        <5> QED BY <1>1, <3>2, <3>5, <4>1, <4>4
      <4>6. \A i \in 1 .. n : i <= d => f[k + 1][i] = SubSeq(t, 1, i)
        <5> TAKE i \in 1 .. n
        <5> HAVE i <= d
        <5>1. CASE i <= e
          <6>1. f[k][i] = SubSeq(t, 1, i)
            BY <3>4, <5>1
          <6>2. i \in 1 .. Len(f[k]) + Len(part) /\ i <= Len(f[k])
            <7> HIDE DEF part, e
            <7> QED BY <1>1, <3>3, <3>5, <4>1, <5>1
          <6> QED BY <3>5, <6>1, <6>2
        <5>2. CASE i > e
          <6> DEFINE s == start + (i - e) - 1
          <6>1. /\ i - 1 \in Nat /\ i - e \in 1 .. BlockSize - start /\ s \in Slots
                /\ Place(q, i - 1) = <<q.table[k + 1], s>>
            <7>1. i \in Nat
              BY <1>1
            <7>2. start = Start(q, k)
              BY DEF Start
            <7> HIDE DEF start
            <7> QED BY <3>1, <5>2, <7>1, <7>2, InBlock
          <6>2. i - 1 < n /\ i \in 1 .. e + Len(part) /\ ~ (i <= e)
            <7> HIDE DEF e, d, start, part, s
            <7> QED BY <1>1, <3>2, <4>4, <5>2
          <6>3. f[k + 1][i] = part[i - e]
            <7> HIDE DEF part, e
            <7> QED BY <3>5, <4>1, <6>2
          <6>4. part[i - e] = kv[q.table[k + 1]][s]
            <7> HIDE DEF e, part
            <7> QED BY <4>3, <6>1
          <6>5. kv[q.table[k + 1]][s] = SubSeq(t, 1, i)
            <7>1. PICK c \in Nat : c = i - 1
              BY <6>1
            <7>2. c < n /\ c + 1 = i
              BY <1>1, <6>2, <7>1
            <7>3. Stands(kv, q, t, c)
              BY <7>2
            <7> HIDE DEF s
            <7>4. Place(q, c) = <<q.table[k + 1], s>>
              BY <6>1, <7>1
            <7>5. kv[q.table[k + 1]][s] = SubSeq(t, 1, c + 1)
              <8> HIDE DEF P, Fine, columns, all, parts, n, N, e, d, part, start
              <8>1. Place(q, c)[1] = q.table[k + 1] /\ Place(q, c)[2] = s
                BY <7>4
              <8> QED BY <7>3, <8>1, Zenon DEF Stands
            <7> QED BY <7>2, <7>5
          <6> HIDE DEF s, e, part
          <6> QED BY <6>3, <6>4, <6>5
        <5>3. i <= e \/ i > e
          <6> HIDE DEF e
          <6> QED BY <3>2
        <5> QED BY <5>1, <5>2, <5>3
      <4>7. Fine(k + 1)
        <5>1. d > n => Len(f[k + 1]) >= n
          <6> HIDE DEF d
          <6> QED BY <1>1, <3>2, <4>5
        <5> QED BY <3>5, <4>5, <4>6, <5>1
      <4> HIDE DEF Fine
      <4> QED BY <3>1, <4>7
    <3>8. e >= n \/ e < n
      <4> HIDE DEF e
      <4> QED BY <1>1, <3>2
    <3> QED BY <3>6, <3>7, <3>8
  <2>5. N \in P
    <3>1. \A i \in 0 .. N : i \in P
      <4> HIDE DEF P
      <4> QED BY <1>1, <2>3, <2>4, Joins!IntervalInduction
    <3> HIDE DEF P
    <3> QED BY <1>1, <3>1
  <2>6. Fine(N) /\ all = f[N]
    BY <2>2, <2>5
  <2>7. Upto(q, N) >= n /\ Upto(q, N) \in Int
    BY <1>1, <1>6, Fields DEF Upto
  <2>8. all \in Seq(Seq(Nat)) /\ Len(all) \in Nat /\ Len(all) >= n
    <3> HIDE DEF all
    <3>1. all \in Seq(Seq(Nat))
      BY <2>6
    <3>2. CASE Upto(q, N) = n
      BY <1>1, <2>6, <3>1, <3>2
    <3>3. CASE Upto(q, N) > n
      BY <1>1, <2>6, <3>1, <3>3
    <3> QED BY <1>1, <2>7, <3>1, <3>2, <3>3
  <2>9. \A i \in 1 .. n : all[i] = columns[i]
    <3> TAKE i \in 1 .. n
    <3>1. i <= Upto(q, N)
      BY <1>1, <2>7
    <3> QED BY <2>6, <3>1
  <2>10. Min({n, Len(all)}) = n
    <3>1. n \in {n, Len(all)} /\ \A y \in {n, Len(all)} : n <= y
      BY <1>1, <2>8
    <3> HIDE DEF all
    <3>2. Min({n, Len(all)}) \in {n, Len(all)} /\ \A y \in {n, Len(all)} : Min({n, Len(all)}) <= y
      BY <3>1 DEF Min
    <3> QED BY <1>1, <2>8, <3>1, <3>2
  <2> HIDE DEF all
  <2>11. /\ Read(q, n) \in Seq(Seq(Nat))
         /\ Len(Read(q, n)) = IF 1 <= n THEN n - 1 + 1 ELSE 0
         /\ \A i \in 1 .. n - 1 + 1 : Read(q, n)[i] = all[1 + i - 1]
    <3>1. 1 \in Int /\ n \in Int
      BY <1>1
    <3>2. \A i \in 1 .. n : all[i] \in Seq(Nat)
      <4> TAKE i \in 1 .. n
      <4>1. columns[i] \in Seq(Nat)
        BY <1>4
      <4> QED BY <2>9, <4>1
    <3>3. Read(q, n) = SubSeq(all, 1, n)
      BY <1>2, <2>10
    <3>4. /\ SubSeq(all, 1, n) \in Seq(Seq(Nat))
          /\ Len(SubSeq(all, 1, n)) = IF 1 <= n THEN n - 1 + 1 ELSE 0
          /\ \A i \in 1 .. n - 1 + 1 : SubSeq(all, 1, n)[i] = all[1 + i - 1]
      <4> HIDE DEF n, columns
      <4> QED BY <3>1, <3>2, SubSeqProperties
    <3> QED BY <3>3, <3>4
  <2>12. Len(Read(q, n)) = n /\ \A i \in 1 .. n : Read(q, n)[i] = columns[i]
    <3>1. n - 1 + 1 = n /\ (1 <= n \/ n = 0) /\ \A i \in 1 .. n : 1 + i - 1 = i
      BY <1>1
    <3> HIDE DEF columns
    <3> QED BY <2>9, <2>11, <3>1
  <2>13. columns \in Seq(Seq(Nat)) /\ Len(columns) = n
    BY <1>1, <1>4
  <2> HIDE DEF columns
  <2>14. Read(q, n) = columns
    BY <1>1, <2>11, <2>12, <2>13, SeqEqual
  <2> QED BY <2>14 DEF columns
<1> QED BY <1>5, <1>6

-----------------------------------------------------------------------------
(* The tokens whose KV has been computed.                                    *)
LEMMA OutTokens ==
    ASSUME NEW q \in RequestType, q.out # <<>>
    PROVE  /\ Len(q.out) \in Nat /\ Len(q.out) >= 1 /\ Front(q.out) \in Seq(Nat)
           /\ Len(Front(q.out)) = Len(q.out) - 1 /\ Last(q.out) \in Nat
           /\ \A i \in 1 .. Len(q.out) - 1 : Front(q.out)[i] = q.out[i]
<1>1. q.out \in Seq(Nat) /\ Len(q.out) \in Nat /\ Len(q.out) >= 1
  BY Fields
<1>2. Len(q.out) - 1 \in 0 .. Len(q.out)
  BY <1>1
<1>3. Last(q.out) \in Nat
  BY <1>1 DEF Last
<1> DEFINE m == Len(q.out) - 1
<1>4. /\ SubSeq(q.out, 1, m) \in Seq(Nat) /\ Len(SubSeq(q.out, 1, m)) = m
      /\ \A i \in 1 .. m : SubSeq(q.out, 1, m)[i] = q.out[i]
  <2>1. m \in 0 .. Len(q.out) /\ q.out \in Seq(Nat)
    BY <1>1, <1>2
  <2> HIDE DEF m
  <2> QED BY <2>1, Beginnings
<1> QED BY <1>1, <1>3, <1>4 DEF Front

(* Joining two sequences.                                                    *)
LEMMA OneAfterTheOther ==
    ASSUME NEW a \in Seq(Nat), NEW f \in Seq(Nat), NEW t, t = a \o f
    PROVE  /\ t \in Seq(Nat) /\ Len(t) = Len(a) + Len(f)
           /\ Len(t) \in Nat /\ Len(a) \in Nat /\ Len(f) \in Nat
           /\ \A i \in 1 .. Len(a) : t[i] = a[i]
           /\ \A i \in Len(a) + 1 .. Len(t) : i - Len(a) \in 1 .. Len(f) /\ t[i] = f[i - Len(a)]
<1>1. /\ t \in Seq(Nat) /\ Len(t) = Len(a) + Len(f)
      /\ \A i \in 1 .. Len(a) + Len(f) : t[i] = IF i <= Len(a) THEN a[i] ELSE f[i - Len(a)]
  BY ConcatProperties
<1>2. Len(t) \in Nat /\ Len(a) \in Nat /\ Len(f) \in Nat
  BY <1>1
<1>3. \A i \in 1 .. Len(a) : t[i] = a[i]
  BY <1>1, <1>2
<1>4. ASSUME NEW i \in Len(a) + 1 .. Len(t)
      PROVE  i - Len(a) \in 1 .. Len(f) /\ t[i] = f[i - Len(a)]
  <2>1. i \in 1 .. Len(a) + Len(f) /\ ~ (i <= Len(a)) /\ i - Len(a) \in 1 .. Len(f)
    BY <1>1, <1>2
  <2> QED BY <1>1, <2>1
<1> QED BY <1>1, <1>2, <1>3, <1>4

(* The tokens of a request, in each phase.                                   *)
LEMMA TokenFacts ==
    ASSUME NEW q \in RequestType, NEW p, Stage(p, q)
    PROVE  /\ TokensOf(p, q) \in Seq(Nat) /\ NumOf(p, q) \in Nat
           /\ NumOf(p, q) = Len(TokensOf(p, q))
           /\ p = "prefilling" =>
                 /\ NumOf(p, q) = q.progress
                 /\ \A i \in 1 .. q.progress : TokensOf(p, q)[i] = q.prompt[i]
           /\ p # "prefilling" =>
                 /\ NumOf(p, q) = Len(q.prompt) + Len(q.out) - 1
                 /\ NumOf(p, q) >= Len(q.prompt)
                 /\ \A i \in 1 .. Len(q.prompt) : TokensOf(p, q)[i] = q.prompt[i]
                 /\ \A i \in Len(q.prompt) + 1 .. NumOf(p, q) :
                       TokensOf(p, q)[i] = q.out[i - Len(q.prompt)]
<1>1. q.prompt \in Seq(Nat) /\ Len(q.prompt) \in Nat /\ q.progress \in Nat /\ q.progress <= Len(q.prompt)
  BY Fields DEF Stage
<1>2. CASE p = "prefilling"
  <2>1. TokensOf(p, q) = SubSeq(q.prompt, 1, q.progress)
    BY <1>2 DEF TokensOf
  <2>2. q.progress \in 0 .. Len(q.prompt)
    BY <1>1
  <2>3. /\ TokensOf(p, q) \in Seq(Nat) /\ Len(TokensOf(p, q)) = q.progress
        /\ \A i \in 1 .. q.progress : TokensOf(p, q)[i] = q.prompt[i]
    BY <1>1, <2>1, <2>2, Beginnings
  <2> QED BY <1>1, <1>2, <2>3, Zenon DEF NumOf
<1>3. CASE p # "prefilling"
  <2> DEFINE a == q.prompt
             o == q.out
             f == Front(o)
             t == TokensOf(p, q)
  <2>1. t = a \o f
    BY <1>3 DEF TokensOf
  <2>2. /\ f \in Seq(Nat) /\ Len(f) = Len(o) - 1 /\ Len(o) \in Nat
        /\ \A i \in 1 .. Len(o) - 1 : f[i] = o[i]
    BY <1>3, OutTokens DEF Stage
  <2>3. a \in Seq(Nat) /\ NumOf(p, q) = Len(t)
    BY <1>1 DEF NumOf
  <2> HIDE DEF f, t, a, o
  <2>4. /\ t \in Seq(Nat) /\ Len(t) = Len(a) + Len(f)
        /\ Len(t) \in Nat /\ Len(a) \in Nat /\ Len(f) \in Nat
        /\ \A i \in 1 .. Len(a) : t[i] = a[i]
        /\ \A i \in Len(a) + 1 .. Len(t) : i - Len(a) \in 1 .. Len(f) /\ t[i] = f[i - Len(a)]
    <3>1. a \in Seq(Nat) /\ f \in Seq(Nat)
      BY <2>2, <2>3
    <3> QED BY <2>1, <3>1, OneAfterTheOther
  <2>5. Len(t) = Len(a) + Len(o) - 1 /\ Len(t) >= Len(a)
    BY <2>2, <2>4
  <2>6. \A i \in Len(a) + 1 .. Len(t) : t[i] = o[i - Len(a)]
    BY <2>2, <2>4
  <2> QED BY <1>3, <2>3, <2>4, <2>5, <2>6, Zenon DEF a, o, t
<1> QED BY <1>2, <1>3

(* What the invariant says of one who holds blocks.                          *)
LEMMA HolderFacts ==
    ASSUME TypeInv, HoldersInv, NEW r \in Holders
    PROVE  /\ r \in Requests /\ req[r] \in RequestType /\ Stage(phase[r], req[r])
           /\ Room(phase[r], req[r])
           /\ TokensOf(phase[r], req[r]) \in Seq(Nat) /\ NumOf(phase[r], req[r]) \in Nat
           /\ NumOf(phase[r], req[r]) <= Capacity(req[r]) /\ Capacity(req[r]) \in Int
           /\ Len(TokensOf(phase[r], req[r])) = NumOf(phase[r], req[r])
<1>1. r \in Requests /\ req[r] \in RequestType
  BY DEF Holders, TypeInv
<1>2. Stage(phase[r], req[r]) /\ Room(phase[r], req[r])
  BY DEF HoldersInv
<1> QED BY <1>1, <1>2, TokenFacts, Fields DEF Room

(* Nobody has the place of a token that is yet to be computed.               *)
LEMMA Apart ==
    ASSUME TypeInv, HoldersInv, SharedInv, NEW r \in Holders, NEW o \in Holders,
           NEW i \in Nat, NEW j \in Nat,
           NumOf(phase[r], req[r]) <= i, i < Capacity(req[r]), j < Capacity(req[o]),
           Place(req[r], i) = Place(req[o], j)
    PROVE  r = o /\ i = j
<1>1. req[r] \in RequestType /\ req[o] \in RequestType /\ NumOf(phase[r], req[r]) \in Nat
  BY HolderFacts
<1>2. CASE r = o
  <2>1. IsInjective(req[r].table)
    BY HolderFacts DEF Room
  <2> QED BY <1>1, <1>2, <2>1, PlacesDiffer
<1>3. CASE r # o
  <2> DEFINE k == Index(req[r], i)
             l == Index(req[o], j)
  <2>1. /\ k \in DOMAIN req[r].table /\ l \in DOMAIN req[o].table
        /\ Place(req[r], i) = <<req[r].table[k], Slot(req[r], i)>>
        /\ Place(req[o], j) = <<req[o].table[l], Slot(req[o], j)>>
    BY <1>1, Places
  <2>2. k \in Nat /\ After(req[r], k) \in Int /\ i < After(req[r], k)
    BY <1>1, Indexing
  <2> HIDE DEF k, l
  <2>3. req[r].table[k] = req[o].table[l]
    <3>1. <<req[r].table[k], Slot(req[r], i)>> = <<req[o].table[l], Slot(req[o], j)>>
      BY <2>1, Zenon
    <3> QED BY <3>1
  <2>4. After(req[r], k) <= NumOf(phase[r], req[r])
    BY <1>3, <2>1, <2>3 DEF SharedInv
  <2> QED BY <1>1, <2>2, <2>4
<1> QED BY <1>2, <1>3

(* Places depend on table and offset only.                                   *)
LEMMA SamePlaces ==
    ASSUME NEW p, NEW q, p.table = q.table, p.offset = q.offset
    PROVE  /\ \A i : Place(p, i) = Place(q, i)
           /\ Capacity(p) = Capacity(q)
           /\ \A k : After(p, k) = After(q, k)
BY DEF Place, Capacity, After

-----------------------------------------------------------------------------
(* The slots of the tokens in the domain of new, and no others, have what    *)
(* new says.                                                                 *)
At(w) == Place(req[w[1]], w[2])

Wrote(new) ==
    /\ DOMAIN kv \subseteq DOMAIN kv'
    /\ \A w \in DOMAIN new : At(w)[1] \in DOMAIN kv' /\ kv'[At(w)[1]][At(w)[2]] = new[w]
    /\ \A b \in DOMAIN kv' :
          /\ DOMAIN kv'[b] = Slots
          /\ b \in DOMAIN kv \/ \E w \in DOMAIN new : At(w)[1] = b
          /\ \A s \in Slots : \/ \E w \in DOMAIN new : At(w) = <<b, s>>
                              \/ kv'[b][s] = IF b \in DOMAIN kv THEN kv[b][s] ELSE Zero

(* These are the next tokens of some requests, whose tables stay.            *)
Proceeds(new) ==
    /\ \A r \in Requests : /\ req'[r].table = req[r].table /\ req'[r].offset = req[r].offset
                           /\ phase'[r] \in HasBlocks <=> phase[r] \in HasBlocks
    /\ \A r \in Holders : Grows(TokensOf(phase[r], req[r]), TokensOf(phase'[r], req'[r]))
    /\ DOMAIN new = {w \in Holders \X Nat : /\ NumOf(phase[w[1]], req[w[1]]) <= w[2]
                                            /\ w[2] < NumOf(phase'[w[1]], req'[w[1]])}
    /\ \A w \in DOMAIN new : new[w] = SubSeq(TokensOf(phase'[w[1]], req'[w[1]]), 1, w[2] + 1)

(* What Stored stores at the places of these tokens is written there.        *)
LEMMA StoredWrote ==
    ASSUME NEW new, NEW at, kv' = Stored(at),
           \A w \in DOMAIN new : \E b \in Blocks, s \in Slots : At(w) = <<b, s>>,
           DOMAIN at = {At(w) : w \in DOMAIN new},
           \A w \in DOMAIN new : at[At(w)] = new[w]
    PROVE  Wrote(new)
<1> DEFINE blocks == {p[1] : p \in DOMAIN at}
<1>1. blocks = {At(w)[1] : w \in DOMAIN new}
  OBVIOUS
<1>2. kv' = [b \in DOMAIN kv \cup blocks |->
               [s \in Slots |-> IF <<b, s>> \in DOMAIN at THEN at[<<b, s>>]
                                ELSE IF b \in DOMAIN kv THEN kv[b][s] ELSE Zero]]
  BY DEF Stored
<1> HIDE DEF blocks
<1>3. DOMAIN kv' = DOMAIN kv \cup blocks
  BY <1>2
<1>4. ASSUME NEW b \in DOMAIN kv'
      PROVE  /\ DOMAIN kv'[b] = Slots
             /\ \A s \in Slots : kv'[b][s] = IF <<b, s>> \in DOMAIN at THEN at[<<b, s>>]
                                             ELSE IF b \in DOMAIN kv THEN kv[b][s] ELSE Zero
  BY <1>2, <1>3
<1>5. ASSUME NEW w \in DOMAIN new
      PROVE  At(w)[1] \in DOMAIN kv' /\ kv'[At(w)[1]][At(w)[2]] = new[w]
  <2>1. PICK b \in Blocks, s \in Slots : At(w) = <<b, s>>
    OBVIOUS
  <2>2. At(w)[1] = b /\ At(w)[2] = s
    BY <2>1
  <2>3. b \in DOMAIN kv'
    BY <1>1, <1>3, <2>2
  <2>4. <<b, s>> \in DOMAIN at /\ at[<<b, s>>] = new[w]
    BY <2>1
  <2>5. kv'[b][s] = new[w]
    BY <1>4, <2>3, <2>4
  <2> QED BY <2>2, <2>3, <2>5
<1>6. ASSUME NEW b \in DOMAIN kv'
       PROVE  /\ DOMAIN kv'[b] = Slots
              /\ b \in DOMAIN kv \/ \E w \in DOMAIN new : At(w)[1] = b
              /\ \A s \in Slots : \/ \E w \in DOMAIN new : At(w) = <<b, s>>
                                  \/ kv'[b][s] = IF b \in DOMAIN kv THEN kv[b][s] ELSE Zero
  <2>1. b \in DOMAIN kv \/ \E w \in DOMAIN new : At(w)[1] = b
    BY <1>1, <1>3
  <2>2. ASSUME NEW s \in Slots, ~ \E w \in DOMAIN new : At(w) = <<b, s>>
        PROVE  kv'[b][s] = IF b \in DOMAIN kv THEN kv[b][s] ELSE Zero
    <3>1. <<b, s>> \notin DOMAIN at
      BY <2>2
    <3> QED BY <1>4, <3>1
  <2> QED BY <1>4, <2>1, <2>2
<1>7. DOMAIN kv \subseteq DOMAIN kv'
  BY <1>3
<1> QED BY <1>5, <1>6, <1>7 DEF Wrote

(* What Written writes is written, if no two tokens have the same place.     *)
LEMMA WrittenWrote ==
    ASSUME NEW new, kv' = Written(new),
           \A w \in DOMAIN new : \E b \in Blocks, s \in Slots : At(w) = <<b, s>>,
           \A v, w \in DOMAIN new : At(v) = At(w) => v = w
    PROVE  Wrote(new)
<1> DEFINE place == [w \in DOMAIN new |-> At(w)]
           at == [p \in {place[w] : w \in DOMAIN new} |->
                    new[CHOOSE w \in DOMAIN new : place[w] = p]]
<1>1. kv' = Stored(at)
  BY DEF Written, At
<1>2. \A w \in DOMAIN new : place[w] = At(w)
  OBVIOUS
<1>3. DOMAIN at = {At(w) : w \in DOMAIN new}
  OBVIOUS
<1>4. \A w \in DOMAIN new : at[At(w)] = new[w]
  <2> TAKE w \in DOMAIN new
  <2> DEFINE v == CHOOSE v \in DOMAIN new : place[v] = At(w)
  <2>1. v \in DOMAIN new /\ place[v] = At(w)
    <3>1. place[w] = At(w)
      BY <1>2
    <3> HIDE DEF place
    <3> QED BY <3>1
  <2>2. at[At(w)] = new[v]
    BY <1>3
  <2> HIDE DEF v, at, place
  <2> QED BY <1>2, <2>1, <2>2
<1> HIDE DEF at
<1> QED BY <1>1, <1>3, <1>4, StoredWrote

(* A written slot is not written again as long as its block has tensors.     *)
WrittenOnce == \A b \in DOMAIN kv : b \in DOMAIN kv' =>
                  \A s \in Slots : kv[b][s] # Zero => kv'[b][s] = kv[b][s]

(* Writing the next tokens keeps what the invariant says of the slots.       *)
LEMMA WritingKeeps ==
    ASSUME TypeInv, TypeInv', PoolInv, HoldersInv, HoldersInv', HoldsInv, BlankInv, SharedInv,
           NEW new, Wrote(new), Proceeds(new)
    PROVE  PoolInv' /\ HoldsInv' /\ BlankInv' /\ SharedInv' /\ WrittenOnce
<1> DEFINE num(r) == NumOf(phase[r], req[r])
           num2(r) == NumOf(phase'[r], req'[r])
           tok(r) == TokensOf(phase[r], req[r])
           tok2(r) == TokensOf(phase'[r], req'[r])
<1>1. Holders' = Holders
  BY DEF Holders, Proceeds
<1>2. ASSUME NEW r \in Holders
      PROVE  /\ r \in Requests /\ req[r] \in RequestType /\ req'[r] \in RequestType
             /\ Stage(phase[r], req[r]) /\ Stage(phase'[r], req'[r])
             /\ tok(r) \in Seq(Nat) /\ tok2(r) \in Seq(Nat)
             /\ num(r) \in Nat /\ num2(r) \in Nat
             /\ Len(tok(r)) = num(r) /\ Len(tok2(r)) = num2(r)
             /\ num(r) <= num2(r) /\ Grows(tok(r), tok2(r))
             /\ Capacity(req'[r]) = Capacity(req[r]) /\ Capacity(req[r]) \in Int
             /\ num2(r) <= Capacity(req[r])
             /\ \A i : Place(req'[r], i) = Place(req[r], i)
             /\ \A k : After(req'[r], k) = After(req[r], k)
  <2>1. r \in Requests /\ req[r] \in RequestType /\ req'[r] \in RequestType
    BY DEF Holders, TypeInv
  <2>2. Stage(phase[r], req[r]) /\ Stage(phase'[r], req'[r]) /\ num2(r) <= Capacity(req'[r])
    BY <1>1 DEF HoldersInv, Room
  <2>3. /\ tok(r) \in Seq(Nat) /\ num(r) \in Nat /\ num(r) = Len(tok(r))
        /\ tok2(r) \in Seq(Nat) /\ num2(r) \in Nat /\ num2(r) = Len(tok2(r))
    BY <2>1, <2>2, TokenFacts
  <2>4. req'[r].table = req[r].table /\ req'[r].offset = req[r].offset /\ Grows(tok(r), tok2(r))
    BY <2>1 DEF Proceeds
  <2>5. /\ Capacity(req'[r]) = Capacity(req[r])
        /\ \A i : Place(req'[r], i) = Place(req[r], i)
        /\ \A k : After(req'[r], k) = After(req[r], k)
    BY <2>4, SamePlaces
  <2>6. num(r) <= num2(r)
    BY <2>3, <2>4 DEF Grows
  <2>7. Capacity(req[r]) \in Int
    BY <2>1, Fields
  <2> HIDE DEF num, num2, tok, tok2
  <2> QED BY <2>1, <2>2, <2>3, <2>4, <2>5, <2>6, <2>7
<1>3. \A w \in DOMAIN new : /\ w[1] \in Holders /\ w[2] \in Nat /\ w = <<w[1], w[2]>>
                            /\ num(w[1]) <= w[2] /\ w[2] < num2(w[1])
                            /\ new[w] = SubSeq(tok2(w[1]), 1, w[2] + 1)
  BY DEF Proceeds
<1>4. \A r \in Holders : \A i \in Nat :
         num(r) <= i /\ i < num2(r) =>
            /\ <<r, i>> \in DOMAIN new /\ new[<<r, i>>] = SubSeq(tok2(r), 1, i + 1)
            /\ At(<<r, i>>) = Place(req[r], i)
  <2> TAKE r \in Holders
  <2> TAKE i \in Nat
  <2> HAVE num(r) <= i /\ i < num2(r)
  <2>1. <<r, i>> \in DOMAIN new
    BY DEF Proceeds
  <2>2. <<r, i>>[1] = r /\ <<r, i>>[2] = i
    OBVIOUS
  <2>3. new[<<r, i>>] = SubSeq(tok2(<<r, i>>[1]), 1, <<r, i>>[2] + 1)
    BY <2>1 DEF Proceeds
  <2> HIDE DEF tok2
  <2> QED BY <2>1, <2>2, <2>3 DEF At
<1> HIDE DEF num, num2, tok, tok2
<1>5. ASSUME NEW w \in DOMAIN new, NEW r \in Holders, NEW i \in Nat, i < Capacity(req[r]),
             At(w) = Place(req[r], i)
      PROVE  w[1] = r /\ w[2] = i
  <2>1. w[1] \in Holders /\ w[2] \in Nat /\ num(w[1]) <= w[2] /\ w[2] < num2(w[1])
    BY <1>3
  <2>2. w[2] < Capacity(req[w[1]])
    BY <1>2, <2>1
  <2> QED BY <1>5, <2>1, <2>2, Apart DEF At, num
<1>6. ASSUME NEW w \in DOMAIN new
      PROVE  \E i \in DOMAIN req[w[1]].table : At(w)[1] = req[w[1]].table[i]
  <2>1. /\ w[1] \in Holders /\ w[2] \in Nat /\ req[w[1]] \in RequestType
        /\ w[2] < Capacity(req[w[1]])
    BY <1>2, <1>3
  <2>2. /\ At(w) = <<req[w[1]].table[Index(req[w[1]], w[2])], Slot(req[w[1]], w[2])>>
        /\ Index(req[w[1]], w[2]) \in DOMAIN req[w[1]].table
    BY <2>1, Places DEF At
  <2> QED BY <2>2
<1>7. \A r \in Requests : req'[r].table = req[r].table
  BY DEF Proceeds
<1>8. PoolInv'
  <2>1. InUse' = InUse
    BY <1>7 DEF InUse
  <2>2. ASSUME NEW b \in DOMAIN kv'
        PROVE  b \in InUse
    <3>1. CASE b \in DOMAIN kv
      BY <3>1 DEF PoolInv
    <3>2. ASSUME NEW w \in DOMAIN new, At(w)[1] = b
          PROVE  b \in InUse
      <4>1. w[1] \in Requests
        BY <1>2, <1>3
      <4>2. b \in ToSet(req[w[1]].table)
        BY <1>6, <3>2 DEF ToSet
      <4> QED BY <4>1, <4>2 DEF InUse
    <3> QED BY <3>1, <3>2 DEF Wrote
  <2>3. ASSUME NEW b \in DOMAIN kv', NEW s \in Slots
        PROVE  kv'[b][s] \in Seq(Nat)
    <3>1. ASSUME NEW w \in DOMAIN new, At(w) = <<b, s>>
          PROVE  kv'[b][s] \in Seq(Nat)
      <4>1. kv'[b][s] = new[w]
        <5>1. At(w)[1] = b /\ At(w)[2] = s
          BY <3>1
        <5> QED BY <5>1 DEF Wrote
      <4>2. /\ new[w] = SubSeq(tok2(w[1]), 1, w[2] + 1) /\ tok2(w[1]) \in Seq(Nat)
            /\ w[2] + 1 \in 0 .. Len(tok2(w[1]))
        BY <1>2, <1>3
      <4> QED BY <4>1, <4>2, Beginnings
    <3>2. CASE kv'[b][s] = IF b \in DOMAIN kv THEN kv[b][s] ELSE Zero
      BY <3>2 DEF PoolInv, Zero
    <3> QED BY <3>1, <3>2 DEF Wrote
  <2>4. \A b \in DOMAIN kv' : DOMAIN kv'[b] = Slots
    BY DEF Wrote
  <2> QED BY <2>1, <2>2, <2>3, <2>4 DEF PoolInv
<1>9. ASSUME NEW b, NEW s \in Slots, ~ \E w \in DOMAIN new : At(w) = <<b, s>>
      PROVE  /\ b \in DOMAIN kv' /\ b \in DOMAIN kv => kv'[b][s] = kv[b][s]
             /\ b \in DOMAIN kv' /\ b \notin DOMAIN kv => kv'[b][s] = Zero
  BY <1>9 DEF Wrote
<1>10. ASSUME NEW r \in Holders, NEW i \in Nat, i < num2(r)
       PROVE  Stands(kv', req'[r], tok2(r), i)
  <2>1. i < Capacity(req[r]) /\ req[r] \in RequestType
    BY <1>2, <1>10
  <2>2. PICK b \in Blocks, s \in Slots : Place(req[r], i) = <<b, s>>
    BY <2>1, Places, Indexing
  <2>3. Place(req'[r], i) = <<b, s>>
    BY <1>2, <2>2
  <2>4. CASE num(r) <= i
    <3>1. <<r, i>> \in DOMAIN new /\ new[<<r, i>>] = SubSeq(tok2(r), 1, i + 1) /\ At(<<r, i>>) = <<b, s>>
      BY <1>4, <1>10, <2>2, <2>4
    <3>2. At(<<r, i>>)[1] = b /\ At(<<r, i>>)[2] = s
      BY <3>1
    <3>3. b \in DOMAIN kv' /\ kv'[b][s] = SubSeq(tok2(r), 1, i + 1)
      BY <3>1, <3>2 DEF Wrote
    <3> QED BY <2>3, <3>3, StandsAt
  <2>5. CASE i < num(r)
    <3>1. Stands(kv, req[r], tok(r), i)
      BY <2>5 DEF HoldsInv, num, tok
    <3>2. b \in DOMAIN kv /\ kv[b][s] = SubSeq(tok(r), 1, i + 1)
      BY <2>2, <3>1, StandsAt
    <3>3. ~ \E w \in DOMAIN new : At(w) = <<b, s>>
      <4> SUFFICES ASSUME NEW w \in DOMAIN new, At(w) = <<b, s>>
                   PROVE  FALSE
        OBVIOUS
      <4>1. w[1] = r /\ w[2] = i
        BY <1>5, <2>1, <2>2
      <4> QED BY <1>2, <1>3, <2>5, <4>1
    <3>4. b \in DOMAIN kv' /\ kv'[b][s] = SubSeq(tok(r), 1, i + 1)
      BY <1>9, <3>2, <3>3 DEF Wrote
    <3>5. SubSeq(tok(r), 1, i + 1) = SubSeq(tok2(r), 1, i + 1)
      <4>1. i + 1 \in 0 .. Len(tok(r)) /\ tok(r) \in Seq(Nat) /\ tok2(r) \in Seq(Nat) /\ Grows(tok(r), tok2(r))
        BY <1>2, <2>5
      <4> QED BY <4>1, PrefixesAgree
    <3> QED BY <2>3, <3>4, <3>5, StandsAt
  <2> QED BY <1>2, <2>4, <2>5
<1>11. ASSUME NEW r \in Holders, NEW i \in Nat, num2(r) <= i, i < Capacity(req[r])
       PROVE  Blank(kv', req'[r], i)
  <2>1. req[r] \in RequestType /\ num(r) <= i
    BY <1>2, <1>11
  <2>2. PICK b \in Blocks, s \in Slots : Place(req[r], i) = <<b, s>>
    BY <1>11, <2>1, Places, Indexing
  <2>3. Place(req'[r], i) = <<b, s>>
    BY <1>2, <2>2
  <2>4. Blank(kv, req[r], i)
    BY <1>11, <2>1 DEF BlankInv, num
  <2>5. b \in DOMAIN kv => kv[b][s] = Zero
    BY <2>2, <2>4, BlankAt
  <2>6. ~ \E w \in DOMAIN new : At(w) = <<b, s>>
    <3> SUFFICES ASSUME NEW w \in DOMAIN new, At(w) = <<b, s>>
                 PROVE  FALSE
      OBVIOUS
    <3>1. w[1] = r /\ w[2] = i
      BY <1>5, <1>11, <2>2
    <3> QED BY <1>2, <1>3, <1>11, <3>1
  <2>7. b \in DOMAIN kv' => kv'[b][s] = Zero
    BY <1>9, <2>5, <2>6
  <2> QED BY <2>3, <2>7, BlankAt
<1>12. HoldsInv' /\ BlankInv'
  <2>1. \A r \in Holders : \A i \in Nat :
           /\ i < num2(r) => Stands(kv', req'[r], tok2(r), i)
           /\ num2(r) <= i /\ i < Capacity(req'[r]) => Blank(kv', req'[r], i)
    BY <1>2, <1>10, <1>11
  <2> QED BY <1>1, <2>1 DEF HoldsInv, BlankInv, num2, tok2
<1>13. SharedInv'
  <2> SUFFICES ASSUME NEW r \in Holders, NEW o \in Holders, r # o,
                      NEW i \in DOMAIN req'[r].table, NEW j \in DOMAIN req'[o].table,
                      req'[r].table[i] = req'[o].table[j]
               PROVE  After(req'[r], i) <= num2(r)
    BY <1>1 DEF SharedInv, num2
  <2>1. r \in Requests /\ o \in Requests
    BY <1>2
  <2>2. After(req[r], i) <= num(r)
    <3>1. /\ i \in DOMAIN req[r].table /\ j \in DOMAIN req[o].table
          /\ req[r].table[i] = req[o].table[j]
      BY <1>7, <2>1
    <3> QED BY <3>1 DEF SharedInv, num
  <2>3. After(req[r], i) \in Int
    <3>1. i \in Nat /\ req[r] \in RequestType
      <4>1. req[r] \in RequestType /\ DOMAIN req[r].table = 1 .. Len(req[r].table) /\ Len(req[r].table) \in Nat
        BY <1>2, Fields
      <4> QED BY <1>7, <2>1, <4>1
    <3> QED BY <3>1, Indexing
  <2>4. After(req'[r], i) = After(req[r], i) /\ num(r) \in Nat /\ num2(r) \in Nat /\ num(r) <= num2(r)
    BY <1>2
  <2> QED BY <2>2, <2>3, <2>4
<1>14. WrittenOnce
  <2> SUFFICES ASSUME NEW b \in DOMAIN kv, NEW s \in Slots, kv[b][s] # Zero, b \in DOMAIN kv'
               PROVE  kv'[b][s] = kv[b][s]
    BY DEF WrittenOnce
  <2>1. ~ \E w \in DOMAIN new : At(w) = <<b, s>>
    <3> SUFFICES ASSUME NEW w \in DOMAIN new, At(w) = <<b, s>>
                 PROVE  FALSE
      OBVIOUS
    <3>1. w[1] \in Holders /\ w[2] \in Nat /\ num(w[1]) <= w[2] /\ w[2] < Capacity(req[w[1]])
      BY <1>2, <1>3
    <3>2. Blank(kv, req[w[1]], w[2])
      BY <3>1 DEF BlankInv, num
    <3>3. Place(req[w[1]], w[2]) = <<b, s>>
      BY DEF At
    <3> QED BY <3>2, <3>3, BlankAt
  <2> QED BY <1>9, <2>1
<1> QED BY <1>8, <1>12, <1>13, <1>14

-----------------------------------------------------------------------------
(* The width of a batch is a number.                                         *)
LEMMA FiniteHasMax ==
    ASSUME NEW S \in SUBSET Int, IsFiniteSet(S), S # {}
    PROVE  Max(S) \in S
<1> DEFINE P == {k \in Nat : \A T \in SUBSET Int :
                     IsFiniteSet(T) /\ Cardinality(T) = k /\ T # {}
                         => \E m \in T : \A i \in T : m >= i}
<1>1. 0 \in P
  BY FS_EmptySet
<1>2. ASSUME NEW k \in 0 .. Cardinality(S) - 1, k \in P
      PROVE  k + 1 \in P
  <2> SUFFICES ASSUME NEW T \in SUBSET Int, IsFiniteSet(T), Cardinality(T) = k + 1, T # {}
               PROVE  \E m \in T : \A i \in T : m >= i
    OBVIOUS
  <2>1. PICK x \in T : TRUE
    OBVIOUS
  <2>2. /\ T \ {x} \in SUBSET Int /\ IsFiniteSet(T \ {x})
        /\ Cardinality(T \ {x}) = k /\ x \in Int
    <3>1. IsFiniteSet(T \ {x}) /\ Cardinality(T \ {x}) = Cardinality(T) - 1
      BY <2>1, FS_RemoveElement
    <3>2. Cardinality(T \ {x}) = k
      <4>1. k \in Int /\ k + 1 - 1 = k
        OBVIOUS
      <4> QED BY <3>1, <4>1
    <3>3. T \ {x} \in SUBSET Int /\ x \in Int
      BY <2>1
    <3> QED BY <3>1, <3>2, <3>3
  <2>3. CASE T \ {x} = {}
    <3>1. \A i \in T : i = x
      BY <2>3
    <3> QED BY <2>2, <3>1
  <2>4. CASE T \ {x} # {}
    <3>1. PICK m \in T \ {x} : \A i \in T \ {x} : m >= i
      BY <1>2, <2>2, <2>4
    <3>2. CASE m >= x
      BY <3>1, <3>2
    <3>3. CASE ~ (m >= x)
      <4>1. m \in Int /\ x \in Int
        BY <2>2
      <4>2. \A i \in T : x >= i
        <5> TAKE i \in T
        <5>1. i = x \/ (i \in T \ {x} /\ m >= i /\ i \in Int)
          BY <2>2, <3>1
        <5> QED BY <3>3, <4>1, <5>1
      <4> QED BY <2>1, <4>2
    <3> QED BY <3>2, <3>3
  <2> QED BY <2>3, <2>4
<1>3. Cardinality(S) \in Nat
  BY FS_CardinalityType
<1>4. Cardinality(S) \in P
  <2> HIDE DEF P
  <2>1. \A k \in 0 .. Cardinality(S) : k \in P
    BY <1>1, <1>2, <1>3, Joins!IntervalInduction
  <2> QED BY <1>3, <2>1
<1>5. \E m \in S : \A i \in S : m >= i
  BY <1>4
<1> QED BY <1>5 DEF Max

(* So the width of a batch is a number.                                      *)
LEMMA WidthIsNumber ==
    ASSUME NEW R \in SUBSET Requests, NEW f, \A r \in R : f[r] \in Int
    PROVE  MaxOver(R, f) \in Int
<1> DEFINE g == [r \in R |-> f[r]]
           T == {f[r] : r \in R}
<1>1. IsFiniteSet(R)
  BY BackendAssumption, FS_Subset
<1>2. g \in Surjection(R, T)
  BY DEF Surjection
<1>3. IsFiniteSet(T)
  BY <1>1, <1>2, FS_Surjection
<1>4. IsFiniteSet({0} \cup T) /\ {0} \cup T \in SUBSET Int /\ {0} \cup T # {}
  <2>1. T \in SUBSET Int
    OBVIOUS
  <2> HIDE DEF T
  <2>2. IsFiniteSet({0})
    BY FS_Singleton
  <2>3. IsFiniteSet({0} \cup T)
    BY <1>3, <2>2, FS_Union
  <2> QED BY <2>1, <2>3
<1>5. Max({0} \cup T) \in Int
  BY <1>4, FiniteHasMax
<1> QED BY <1>5 DEF MaxOver

-----------------------------------------------------------------------------
(* What the rows of a prefill or a decode are computed from.                 *)

(* What a holder has in its blocks, read with or without padding.            *)
LEMMA PastOf ==
    ASSUME IInv, NEW r \in Holders, NEW n, n = NumOf(phase[r], req[r]),
           NEW t, t = TokensOf(phase[r], req[r])
    PROVE  /\ t \in Seq(Nat) /\ Len(t) = n /\ n \in Nat
           /\ Read(req[r], n) = [i \in 1 .. n |-> SubSeq(t, 1, i)]
           /\ \A width \in Int : Visible(PastColumns(req[r], n, width), n)
                                    = [i \in 1 .. n |-> SubSeq(t, 1, i)]
<1>1. /\ req[r] \in RequestType /\ t \in Seq(Nat) /\ n \in Nat /\ Len(t) = n
      /\ n <= Capacity(req[r])
  BY HolderFacts DEF IInv
<1>2. \A i \in Nat : i < Len(t) => Stands(kv, req[r], t, i)
  BY <1>1 DEF IInv, HoldsInv
<1>3. Read(req[r], Len(t)) = [i \in 1 .. Len(t) |-> SubSeq(t, 1, i)]
  BY <1>1, <1>2, Reading DEF IInv
<1> DEFINE columns == [i \in 1 .. n |-> SubSeq(t, 1, i)]
<1>4. Read(req[r], n) = columns
  BY <1>1, <1>3
<1>5. columns \in Seq(Seq(Nat)) /\ Len(columns) = n
  <2>1. \A i \in 1 .. n : SubSeq(t, 1, i) \in Seq(Nat)
    BY <1>1, Beginnings
  <2>2. n \in Nat
    BY <1>1
  <2>3. columns \in [1 .. n -> Seq(Nat)]
    BY <2>1
  <2> HIDE DEF columns
  <2> QED BY <2>2, <2>3
<1> HIDE DEF columns
<1>6. \A width \in Int : Visible(PastColumns(req[r], n, width), n) = columns
  <2> TAKE width \in Int
  <2>1. width - n \in Int
    BY <1>1
  <2>2. SubSeq(columns \o [i \in 1 .. width - n |-> Zero], 1, Len(columns)) = columns
    BY <1>5, <2>1, NoPaddingSeen
  <2> QED BY <1>4, <1>5, <2>2 DEF Visible, PastColumns
<1> QED BY <1>1, <1>4, <1>6 DEF columns

LEMMA VisiblePast ==
    ASSUME IInv, NEW r \in Holders
    PROVE  LET n == NumOf(phase[r], req[r])
               t == TokensOf(phase[r], req[r])
           IN  \A v \in Int : Visible(PastColumns(req[r], n, v), n) = [i \in 1 .. n |-> SubSeq(t, 1, i)]
BY PastOf

(* A row of a prefill attends to the beginning of its prompt.                *)
LEMMA PrefillRow ==
    ASSUME IInv, NEW r \in Requests, phase[r] = "prefilling",
           NEW n \in Nat, req[r].progress <= n, n <= Len(req[r].prompt),
           NEW columns,
           columns = [i \in 1 .. req[r].progress |-> SubSeq(TokensOf(phase[r], req[r]), 1, i)]
    PROVE  Attend(columns, SubSeq(req[r].prompt, req[r].progress + 1, n)) = SubSeq(req[r].prompt, 1, n)
<1> DEFINE p == req[r].prompt
           start == req[r].progress
           t == SubSeq(p, 1, start)
           rest == SubSeq(p, start + 1, n)
<1>1. p \in Seq(Nat) /\ start \in Nat /\ Len(p) \in Nat
  BY Fields DEF IInv, TypeInv
<1>2. TokensOf(phase[r], req[r]) = t
  BY DEF TokensOf
<1> HIDE DEF p, start
<1>3. start <= n /\ n <= Len(p) /\ start \in 0 .. Len(p)
  BY <1>1 DEF p, start
<1>4. t \in Seq(Nat) /\ Len(t) = start
  BY <1>1, <1>3, Beginnings
<1>5. rest \in Seq(Nat)
  <2>1. start + 1 \in Int /\ n \in Int /\ \A i \in start + 1 .. n : p[i] \in Nat
    BY <1>1, <1>3
  <2> QED BY <2>1, SubSeqProperties
<1>6. t \o rest = SubSeq(p, 1, n)
  <2>1. 1 \in 1 .. Len(p) + 1 /\ start \in 1 - 1 .. Len(p) /\ n \in start .. Len(p)
    BY <1>1, <1>3
  <2> QED BY <1>1, <2>1, ConcatAdjacentSubSeq
<1> HIDE DEF t, rest
<1>7. columns = [i \in 1 .. Len(t) |-> SubSeq(t, 1, i)]
  BY <1>2, <1>4 DEF start
<1>8. Attend(columns, rest) = t \o rest
  BY <1>4, <1>5, <1>7, Attending
<1> QED BY <1>6, <1>8 DEF rest, p, start

-----------------------------------------------------------------------------
(* A prefill.                                                                *)

(* What it does to all but the pool, for each request it is about: it is     *)
(* prefilled up to end[r], and runs, with a first token, if that is all.     *)
MovesTo(r, n) ==
    /\ past'[r] = n
    /\ \/ /\ n = Len(req[r].prompt) /\ phase'[r] = "running"
          /\ \E first \in Vocabulary :
                req'[r] = [req[r] EXCEPT !.progress = n, !.out = <<first>>]
       \/ /\ n # Len(req[r].prompt) /\ phase'[r] = phase[r]
          /\ req'[r] = [req[r] EXCEPT !.progress = n]

Stays(r) ==
    /\ req'[r] = req[r] /\ phase'[r] = phase[r] /\ seen'[r] = seen[r]
    /\ (r \in DOMAIN past' <=> r \in DOMAIN past)
    /\ r \in DOMAIN past => past'[r] = past[r]

Moves(R, end) ==
    /\ R \subseteq In("prefilling")
    /\ \A r \in R : end[r] \in req[r].progress .. Len(req[r].prompt)
    /\ req' = [r \in Requests |-> req'[r]] /\ phase' = [r \in Requests |-> phase'[r]]
    /\ DOMAIN seen' = Requests
    /\ DOMAIN past' = DOMAIN past \cup R
    /\ \A r \in R : MovesTo(r, end[r])
    /\ \A r \in Requests \ R : Stays(r)

(* What this does to the request itself,                                     *)
LEMMA MovesOne ==
    ASSUME TypeInv, HoldersInv, NEW r \in In("prefilling"),
           NEW n \in req[r].progress .. Len(req[r].prompt), MovesTo(r, n)
    PROVE  /\ req'[r] \in RequestType /\ phase'[r] \in {"prefilling", "running"}
           /\ req'[r].table = req[r].table /\ req'[r].offset = req[r].offset
           /\ req'[r].prompt = req[r].prompt
           /\ TokensOf(phase'[r], req'[r]) = SubSeq(req[r].prompt, 1, n)
           /\ NumOf(phase'[r], req'[r]) = n
           /\ Grows(TokensOf(phase[r], req[r]), TokensOf(phase'[r], req'[r]))
           /\ Room(phase'[r], req'[r]) /\ Stage(phase'[r], req'[r])
           /\ ~ Len(req'[r].out) > 1
<1> DEFINE q == req[r]
           p == q.prompt
           u == req'[r]
<1>1. r \in Holders /\ phase[r] = "prefilling" /\ r \in Requests
  BY DEF In, Holders, HasBlocks
<1>2. q \in RequestType /\ Stage(phase[r], q) /\ Room(phase[r], q)
  BY <1>1, HolderFacts
<1>3. /\ p \in Seq(Nat) /\ Len(p) \in Nat /\ q.progress \in Nat /\ n \in Nat
      /\ q.progress <= n /\ n <= Len(p) /\ q.table \in Seq(Blocks) /\ q.offset \in Slots
      /\ Capacity(q) \in Int
  BY <1>2, Fields
<1>4. q.out = <<>> /\ TokensOf(phase[r], q) = SubSeq(p, 1, q.progress)
  BY <1>1, <1>2 DEF Stage, TokensOf
<1>5. /\ u.prompt = p /\ u.table = q.table /\ u.offset = q.offset /\ u \in RequestType
      /\ TokensOf(phase'[r], u) = SubSeq(p, 1, n) /\ Stage(phase'[r], u)
      /\ phase'[r] \in {"prefilling", "running"} /\ ~ Len(u.out) > 1
  <2>1. CASE n = Len(p) /\ phase'[r] = "running"
    <3>1. PICK first \in Vocabulary : u = [q EXCEPT !.progress = n, !.out = <<first>>]
      BY <1>1, <2>1 DEF MovesTo
    <3>2. first \in Nat
      BY BackendAssumption
    <3>3. /\ u.prompt = p /\ u.table = q.table /\ u.offset = q.offset
          /\ u.progress = n /\ u.out = <<first>> /\ u \in RequestType
      <4>1. <<first>> \in Seq(Nat)
        BY <3>2
      <4>2. q \in RequestType /\ n \in Nat
        BY <1>2, <1>3
      <4> HIDE DEF u, p, q
      <4> DEFINE o == <<first>>
      <4> HIDE DEF o
      <4>3. u = [q EXCEPT !.progress = n, !.out = o] /\ o \in Seq(Nat)
        BY <3>1, <4>1 DEF o
      <4>4. /\ u.prompt = q.prompt /\ u.table = q.table /\ u.offset = q.offset
            /\ u.progress = n /\ u.out = o /\ u \in RequestType
        BY <4>2, <4>3 DEF RequestType
      <4> QED BY <4>4 DEF p, o
    <3>4. Front(<<first>>) = <<>>
      BY DEF Front
    <3>5. p \o <<>> = p /\ SubSeq(p, 1, n) = p
      BY <1>3, <2>1
    <3> HIDE DEF u, p
    <3>6. TokensOf(phase'[r], u) = SubSeq(p, 1, n)
      BY <2>1, <3>3, <3>4, <3>5 DEF TokensOf
    <3>7. u.out # <<>> /\ Len(u.out) = 1
      BY <3>3
    <3>8. Stage(phase'[r], u)
      BY <1>3, <2>1, <3>3, <3>7 DEF Stage
    <3> QED BY <2>1, <3>3, <3>6, <3>7, <3>8
  <2>2. CASE n # Len(p) /\ phase'[r] = phase[r]
    <3>1. u = [q EXCEPT !.progress = n]
      BY <1>1, <2>2 DEF MovesTo
    <3>2. /\ u.prompt = p /\ u.table = q.table /\ u.offset = q.offset
          /\ u.progress = n /\ u.out = <<>> /\ u \in RequestType
      BY <1>2, <1>3, <1>4, <3>1 DEF RequestType
    <3> HIDE DEF u, p
    <3>3. TokensOf(phase'[r], u) = SubSeq(p, 1, n)
      BY <1>1, <2>2, <3>2 DEF TokensOf
    <3>4. Stage(phase'[r], u)
      BY <1>1, <1>3, <2>2, <3>2 DEF Stage
    <3>5. ~ Len(<<>>) > 1
      OBVIOUS
    <3> QED BY <1>1, <2>2, <3>2, <3>3, <3>4, <3>5
  <2> QED BY <2>1, <2>2 DEF MovesTo
<1> HIDE DEF u, p, q
<1>6. n \in 0 .. Len(p) /\ q.progress \in 0 .. Len(p)
  BY <1>3
<1>7. /\ Len(SubSeq(p, 1, n)) = n /\ \A i \in 1 .. n : SubSeq(p, 1, n)[i] = p[i]
      /\ Len(SubSeq(p, 1, q.progress)) = q.progress
      /\ \A i \in 1 .. q.progress : SubSeq(p, 1, q.progress)[i] = p[i]
  BY <1>3, <1>6, Beginnings
<1>8. NumOf(phase'[r], u) = n
  BY <1>5, <1>7 DEF NumOf
<1>9. Grows(SubSeq(p, 1, q.progress), SubSeq(p, 1, n))
  BY <1>3, <1>7 DEF Grows
<1>10. Room(phase'[r], u)
  <2>1. Capacity(u) = Capacity(q)
    BY <1>5, SamePlaces
  <2>2. IsInjective(q.table) /\ p # <<>> /\ Len(p) <= Capacity(q)
    BY <1>2 DEF Room, p
  <2> QED BY <1>3, <1>5, <1>8, <2>1, <2>2 DEF Room
<1> QED BY <1>4, <1>5, <1>8, <1>9, <1>10 DEF u, p, q

(* and to the pool, if the KV of its next tokens was written: the invariant  *)
(* is kept.                                                                  *)
LEMMA MovesKeeps ==
    ASSUME IInv, NEW R, NEW end, Moves(R, end), NEW new, Wrote(new),
           DOMAIN new = {w \in R \X Nat : req[w[1]].progress <= w[2] /\ w[2] < end[w[1]]},
           \A w \in DOMAIN new : new[w] = SubSeq(req[w[1]].prompt, 1, w[2] + 1)
    PROVE  IInv' /\ WrittenOnce
<1>1. ASSUME NEW r \in R
      PROVE  /\ r \in In("prefilling") /\ r \in Requests /\ r \in Holders
             /\ phase[r] = "prefilling"
             /\ end[r] \in req[r].progress .. Len(req[r].prompt)
             /\ MovesTo(r, end[r])
  BY <1>1 DEF Moves, In, Holders, HasBlocks
<1>2. ASSUME NEW r \in R
      PROVE  /\ req'[r] \in RequestType /\ phase'[r] \in {"prefilling", "running"}
             /\ req'[r].table = req[r].table /\ req'[r].offset = req[r].offset
             /\ req'[r].prompt = req[r].prompt
             /\ TokensOf(phase'[r], req'[r]) = SubSeq(req[r].prompt, 1, end[r])
             /\ NumOf(phase'[r], req'[r]) = end[r]
             /\ Grows(TokensOf(phase[r], req[r]), TokensOf(phase'[r], req'[r]))
             /\ Room(phase'[r], req'[r]) /\ Stage(phase'[r], req'[r])
             /\ ~ Len(req'[r].out) > 1
  BY <1>1, <1>2, MovesOne DEF IInv
<1>3. ASSUME NEW r \in Requests, r \notin R
      PROVE  /\ req'[r] = req[r] /\ phase'[r] = phase[r] /\ seen'[r] = seen[r]
             /\ (r \in DOMAIN past' <=> r \in DOMAIN past)
             /\ r \in DOMAIN past => past'[r] = past[r]
  BY <1>3 DEF Moves, Stays
<1>4. TypeInv'
  <2>1. \A r \in Requests : req'[r] \in RequestType /\ phase'[r] \in Phases
    <3> TAKE r \in Requests
    <3>1. req[r] \in RequestType /\ phase[r] \in Phases
      BY DEF IInv, TypeInv
    <3> QED BY <1>2, <1>3, <3>1 DEF Phases
  <2>2. req' \in [Requests -> RequestType] /\ phase' \in [Requests -> Phases]
    BY <2>1 DEF Moves
  <2>3. DOMAIN seen' = Requests /\ DOMAIN past' \subseteq Requests
    BY <1>1 DEF Moves, IInv, TypeInv
  <2> QED BY <2>2, <2>3 DEF TypeInv
<1>5. \A r \in Requests : phase'[r] \in HasBlocks <=> phase[r] \in HasBlocks
  <2> TAKE r \in Requests
  <2>1. CASE r \in R
    BY <1>1, <1>2, <2>1 DEF HasBlocks
  <2>2. CASE r \notin R
    BY <1>3, <2>2
  <2> QED BY <2>1, <2>2
<1>6. Holders' = Holders
  BY <1>5 DEF Holders
<1>7. HoldersInv'
  <2> SUFFICES ASSUME NEW r \in Holders
               PROVE  Room(phase'[r], req'[r]) /\ Stage(phase'[r], req'[r])
    BY <1>6 DEF HoldersInv
  <2>1. CASE r \in R
    BY <1>2, <2>1
  <2>2. CASE r \notin R
    BY <1>3, <2>2 DEF Holders, IInv, HoldersInv
  <2> QED BY <2>1, <2>2
<1>8. NobodyInv'
  <2> SUFFICES ASSUME NEW r \in Requests
               PROVE  /\ phase'[r] = "new" => r \notin DOMAIN past'
                      /\ r \notin Holders => req'[r] = NoRequest
    BY <1>6 DEF NobodyInv
  <2>1. CASE r \in R
    BY <1>1, <1>2, <2>1
  <2>2. CASE r \notin R
    BY <1>3, <2>2 DEF IInv, NobodyInv
  <2> QED BY <2>1, <2>2
<1>9. PastInv'
  <2> SUFFICES ASSUME NEW r \in Requests
               PROVE  /\ phase'[r] = "running" =>
                            r \in DOMAIN past' /\ past'[r] = NumOf(phase'[r], req'[r])
                      /\ phase'[r] = "prefilling" /\ r \notin DOMAIN past' => AtBlockEnd(req'[r])
    BY DEF PastInv
  <2>1. CASE r \in R
    <3>1. r \in DOMAIN past' /\ past'[r] = end[r]
      BY <1>1, <2>1 DEF Moves, MovesTo
    <3> QED BY <1>2, <2>1, <3>1
  <2>2. CASE r \notin R
    BY <1>3, <2>2 DEF IInv, PastInv
  <2> QED BY <2>1, <2>2
<1>10. DecodesFromAllTokens'
  <2> SUFFICES ASSUME NEW r \in Requests, phase'[r] = "running", Len(req'[r].out) > 1
               PROVE  seen'[r] = req'[r].prompt \o Front(req'[r].out)
    BY DEF DecodesFromAllTokens, In
  <2>1. r \notin R
    BY <1>2
  <2> QED BY <1>3, <2>1 DEF IInv, DecodesFromAllTokens, In
<1>11. \A r \in Holders : Grows(TokensOf(phase[r], req[r]), TokensOf(phase'[r], req'[r]))
  <2> TAKE r \in Holders
  <2>1. CASE r \in R
    BY <1>2, <2>1
  <2>2. CASE r \notin R
    <3>1. NumOf(phase[r], req[r]) \in Nat /\ r \in Requests
      BY HolderFacts DEF IInv
    <3> QED BY <1>3, <2>2, <3>1 DEF Grows, NumOf
  <2> QED BY <2>1, <2>2
<1>12. ASSUME NEW r \in Holders
       PROVE  /\ r \in R => /\ NumOf(phase[r], req[r]) = req[r].progress
                            /\ NumOf(phase'[r], req'[r]) = end[r]
              /\ r \notin R => /\ NumOf(phase'[r], req'[r]) = NumOf(phase[r], req[r])
                               /\ NumOf(phase[r], req[r]) \in Nat
  <2>1. req[r] \in RequestType /\ Stage(phase[r], req[r]) /\ NumOf(phase[r], req[r]) \in Nat /\ r \in Requests
    BY HolderFacts DEF IInv
  <2>2. CASE r \in R
    <3>1. NumOf(phase[r], req[r]) = req[r].progress
      BY <1>1, <2>1, <2>2, TokenFacts
    <3>2. NumOf(phase'[r], req'[r]) = end[r]
      BY <1>2, <2>2
    <3> QED BY <2>2, <3>1, <3>2
  <2>3. CASE r \notin R
    <3>1. phase'[r] = phase[r] /\ req'[r] = req[r]
      BY <1>3, <2>1, <2>3
    <3> QED BY <2>1, <2>3, <3>1
  <2> QED BY <2>2, <2>3
<1>13. DOMAIN new = {w \in Holders \X Nat : /\ NumOf(phase[w[1]], req[w[1]]) <= w[2]
                                            /\ w[2] < NumOf(phase'[w[1]], req'[w[1]])}
  <2> DEFINE D == {w \in Holders \X Nat : /\ NumOf(phase[w[1]], req[w[1]]) <= w[2]
                                          /\ w[2] < NumOf(phase'[w[1]], req'[w[1]])}
  <2>1. ASSUME NEW r \in Holders, NEW i \in Nat
        PROVE  <<r, i>> \in DOMAIN new <=> /\ NumOf(phase[r], req[r]) <= i
                                           /\ i < NumOf(phase'[r], req'[r])
    <3>1. CASE r \in R
      BY <1>12, <3>1
    <3>2. CASE r \notin R
      BY <1>12, <3>2
    <3> QED BY <3>1, <3>2
  <2>2. ASSUME NEW w \in DOMAIN new
        PROVE  w \in D
    <3>1. PICK r \in R, i \in Nat : w = <<r, i>>
      OBVIOUS
    <3>2. r \in Holders /\ NumOf(phase[r], req[r]) <= i /\ i < NumOf(phase'[r], req'[r])
      BY <1>1, <2>1, <3>1
    <3> QED BY <3>1, <3>2
  <2>3. ASSUME NEW w \in D
        PROVE  w \in DOMAIN new
    <3>1. PICK r \in Holders, i \in Nat : w = <<r, i>>
      OBVIOUS
    <3>2. NumOf(phase[r], req[r]) <= i /\ i < NumOf(phase'[r], req'[r])
      BY <3>1
    <3> QED BY <2>1, <3>1, <3>2
  <2> QED BY <2>2, <2>3
<1>14. \A w \in DOMAIN new : new[w] = SubSeq(TokensOf(phase'[w[1]], req'[w[1]]), 1, w[2] + 1)
  <2> TAKE w \in DOMAIN new
  <2>1. PICK r \in R, i \in Nat : w = <<r, i>> /\ i < end[r]
    OBVIOUS
  <2> DEFINE p == req[r].prompt
  <2>2. p \in Seq(Nat) /\ Len(p) \in Nat /\ req[r].progress \in Nat
    BY <1>1, Fields DEF IInv, TypeInv
  <2>3. end[r] \in 0 .. Len(p) /\ end[r] \in Nat
    BY <1>1, <2>2
  <2>4. new[w] = SubSeq(p, 1, i + 1)
    BY <2>1
  <2>5. TokensOf(phase'[w[1]], req'[w[1]]) = SubSeq(p, 1, end[r]) /\ w[2] = i
    BY <1>2, <2>1
  <2> HIDE DEF p
  <2> DEFINE b == SubSeq(p, 1, end[r])
  <2>6. b \in Seq(Nat) /\ Len(b) = end[r] /\ \A k \in 1 .. end[r] : b[k] = p[k]
    BY <2>2, <2>3, Beginnings
  <2> HIDE DEF b
  <2>7. Grows(b, p)
    BY <2>2, <2>3, <2>6 DEF Grows
  <2>8. i + 1 \in 0 .. Len(b)
    BY <2>1, <2>3, <2>6
  <2>9. SubSeq(b, 1, i + 1) = SubSeq(p, 1, i + 1)
    BY <2>2, <2>6, <2>7, <2>8, PrefixesAgree
  <2> QED BY <2>4, <2>5, <2>9 DEF b
<1>15. \A r \in Requests : /\ req'[r].table = req[r].table /\ req'[r].offset = req[r].offset
  BY <1>2, <1>3
<1>16. Proceeds(new)
  BY <1>5, <1>11, <1>13, <1>14, <1>15 DEF Proceeds
<1>17. PoolInv' /\ HoldsInv' /\ BlankInv' /\ SharedInv' /\ WrittenOnce
  BY <1>4, <1>7, <1>16, WritingKeeps DEF IInv
<1> QED BY <1>4, <1>7, <1>8, <1>9, <1>10, <1>17 DEF IInv

(* Tokens that are yet to be computed have places of their own.              *)
LEMMA NewPlaces ==
    ASSUME IInv, NEW W \in SUBSET (Holders \X Nat),
           \A w \in W : /\ NumOf(phase[w[1]], req[w[1]]) <= w[2]
                        /\ w[2] < Capacity(req[w[1]])
    PROVE  /\ \A w \in W : \E b \in Blocks, s \in Slots : At(w) = <<b, s>>
           /\ \A v, w \in W : At(v) = At(w) => v = w
<1>1. ASSUME NEW w \in W
      PROVE  \E b \in Blocks, s \in Slots : At(w) = <<b, s>>
  <2>1. PICK r \in Holders, i \in Nat : w = <<r, i>>
    OBVIOUS
  <2>2. req[r] \in RequestType /\ i < Capacity(req[r])
    BY <2>1, HolderFacts DEF IInv
  <2>3. /\ Place(req[r], i) = <<req[r].table[Index(req[r], i)], Slot(req[r], i)>>
        /\ req[r].table[Index(req[r], i)] \in Blocks /\ Slot(req[r], i) \in Slots
    BY <2>2, Places, Indexing
  <2> QED BY <2>1, <2>3 DEF At
<1>2. ASSUME NEW v \in W, NEW w \in W, At(v) = At(w)
      PROVE  v = w
  <2>1. PICK o \in Holders, j \in Nat : v = <<o, j>>
    OBVIOUS
  <2>2. PICK r \in Holders, i \in Nat : w = <<r, i>>
    OBVIOUS
  <2>3. /\ NumOf(phase[o], req[o]) <= j /\ j < Capacity(req[o])
        /\ i < Capacity(req[r]) /\ Place(req[o], j) = Place(req[r], i)
    BY <1>2, <2>1, <2>2 DEF At
  <2>4. o = r /\ j = i
    BY <2>3, Apart DEF IInv
  <2> QED BY <2>1, <2>2, <2>4
<1> QED BY <1>1, <1>2

(* The tokens of a prefill are to be written: they have a place, which is    *)
(* free.                                                                     *)
LEMMA PrefillTokens ==
    ASSUME IInv, NEW R, NEW end, Moves(R, end),
           NEW w \in R \X Nat, req[w[1]].progress <= w[2], w[2] < end[w[1]]
    PROVE  /\ w \in Holders \X Nat /\ phase[w[1]] = "prefilling"
           /\ NumOf(phase[w[1]], req[w[1]]) <= w[2] /\ w[2] < Capacity(req[w[1]])
<1>1. PICK r \in R, i \in Nat : w = <<r, i>>
  OBVIOUS
<1>2. r \in Holders /\ phase[r] = "prefilling" /\ end[r] \in req[r].progress .. Len(req[r].prompt)
  BY DEF Moves, In, Holders, HasBlocks
<1>3. req[r] \in RequestType /\ Stage(phase[r], req[r]) /\ Room(phase[r], req[r])
  BY <1>2, HolderFacts DEF IInv
<1>4. NumOf(phase[r], req[r]) = req[r].progress /\ Len(req[r].prompt) <= Capacity(req[r])
  BY <1>2, <1>3, TokenFacts DEF Room
<1>5. Len(req[r].prompt) \in Int /\ req[r].progress \in Int /\ Capacity(req[r]) \in Int
  BY <1>3, Fields
<1>6. req[r].progress <= i /\ i < end[r]
  BY <1>1
<1> QED BY <1>1, <1>2, <1>4, <1>5, <1>6

(* A prefill that wrote them.                                                *)
LEMMA PrefillKeeps ==
    ASSUME IInv, NEW R, NEW end, Moves(R, end), NEW new, kv' = Written(new),
           DOMAIN new = {w \in R \X Nat : req[w[1]].progress <= w[2] /\ w[2] < end[w[1]]},
           \A w \in DOMAIN new : new[w] = SubSeq(req[w[1]].prompt, 1, w[2] + 1)
    PROVE  IInv' /\ WrittenOnce
<1>1. \A w \in DOMAIN new : /\ w \in Holders \X Nat
                            /\ NumOf(phase[w[1]], req[w[1]]) <= w[2]
                            /\ w[2] < Capacity(req[w[1]])
  BY PrefillTokens
<1>2. /\ \A w \in DOMAIN new : \E b \in Blocks, s \in Slots : At(w) = <<b, s>>
      /\ \A v, w \in DOMAIN new : At(v) = At(w) => v = w
  <2> DEFINE W == DOMAIN new
  <2>1. W \in SUBSET (Holders \X Nat)
    BY <1>1
  <2>2. \A w \in W : /\ NumOf(phase[w[1]], req[w[1]]) <= w[2]
                     /\ w[2] < Capacity(req[w[1]])
    BY <1>1
  <2> HIDE DEF W
  <2>3. /\ \A w \in W : \E b \in Blocks, s \in Slots : At(w) = <<b, s>>
        /\ \A v, w \in W : At(v) = At(w) => v = w
    BY <2>1, <2>2, NewPlaces
  <2> QED BY <2>3 DEF W
<1>3. Wrote(new)
  BY <1>2, WrittenWrote
<1> QED BY <1>3, MovesKeeps

(* A prefill that writes nothing: there was nothing left.                    *)
LEMMA NothingLeftKeeps ==
    ASSUME IInv, NEW R, NEW end, Moves(R, end), \A r \in R : end[r] = req[r].progress,
           kv' = kv
    PROVE  IInv' /\ WrittenOnce
<1> DEFINE new == [w \in {} |-> Zero]
<1>1. {w \in R \X Nat : req[w[1]].progress <= w[2] /\ w[2] < end[w[1]]} = {}
  <2> SUFFICES ASSUME NEW r \in R, NEW i \in Nat, req[r].progress <= i, i < end[r]
               PROVE  FALSE
    OBVIOUS
  <2>1. req[r] \in RequestType
    BY DEF IInv, TypeInv, Moves, In
  <2>2. req[r].progress \in Nat
    BY <2>1, Fields
  <2> QED BY <2>2
<1>2. DOMAIN new = {}
  OBVIOUS
<1> HIDE DEF new
<1>3. Wrote(new)
  BY <1>2 DEF Wrote, IInv, PoolInv
<1> QED BY <1>1, <1>2, <1>3, MovesKeeps

-----------------------------------------------------------------------------
(* Prefill.                                                                  *)

(* The row that is written for token i was computed from the tokens up to    *)
(* it.                                                                       *)
LEMMA RowOfToken ==
    ASSUME IInv, NEW r \in In("prefilling"), NEW i \in Nat,
           req[r].progress <= i, i < Len(req[r].prompt),
           NEW columns,
           columns = [k \in 1 .. req[r].progress |-> SubSeq(TokensOf(phase[r], req[r]), 1, k)]
    PROVE  /\ req[r].progress \in Nat
           /\ Attend(columns, SubSeq(req[r].prompt, req[r].progress + 1,
                                     req[r].progress + (i - req[r].progress + 1)))
                  = SubSeq(req[r].prompt, 1, i + 1)
<1>1. r \in Requests /\ phase[r] = "prefilling"
  BY DEF In
<1>2. req[r] \in RequestType
  BY <1>1 DEF IInv, TypeInv
<1>3. req[r].progress \in Nat /\ Len(req[r].prompt) \in Nat
  BY <1>2, Fields
<1> DEFINE n == i + 1
<1>4. n \in Nat /\ req[r].progress <= n /\ n <= Len(req[r].prompt)
  BY <1>3
<1>5. req[r].progress + (i - req[r].progress + 1) = n
  BY <1>3
<1> HIDE DEF n
<1>6. Attend(columns, SubSeq(req[r].prompt, req[r].progress + 1, n)) = SubSeq(req[r].prompt, 1, n)
  BY <1>1, <1>4, PrefillRow
<1> QED BY <1>3, <1>5, <1>6 DEF n

(* What the invariant says of one in prefill.                                *)
LEMMA PrefillingFacts ==
    ASSUME IInv, NEW r \in In("prefilling")
    PROVE  /\ r \in Requests /\ r \in Holders /\ phase[r] = "prefilling"
           /\ req[r] \in RequestType /\ req[r].progress \in Nat
           /\ Len(req[r].prompt) \in Nat /\ req[r].progress <= Len(req[r].prompt)
           /\ NumOf(phase[r], req[r]) = req[r].progress
           /\ Len(req[r].prompt) <= Capacity(req[r]) /\ Capacity(req[r]) \in Int
           /\ req[r].prompt # <<>>
<1>1. r \in Holders /\ r \in Requests /\ phase[r] = "prefilling"
  BY DEF In, Holders, HasBlocks
<1>2. req[r] \in RequestType /\ Stage(phase[r], req[r]) /\ Room(phase[r], req[r])
  BY <1>1, HolderFacts DEF IInv
<1>3. NumOf(phase[r], req[r]) = req[r].progress
  BY <1>1, <1>2, TokenFacts
<1>4. /\ req[r].progress \in Nat /\ Len(req[r].prompt) \in Nat /\ Capacity(req[r]) \in Int
  BY <1>2, Fields
<1>5. /\ req[r].progress <= Len(req[r].prompt) /\ Len(req[r].prompt) <= Capacity(req[r])
      /\ req[r].prompt # <<>>
  BY <1>2 DEF Stage, Room
<1> QED BY <1>1, <1>2, <1>3, <1>4, <1>5

(* batch_prefill: the rows of the others, and padding, are in nobody's KV.   *)
LEMMA BatchKeeps ==
    ASSUME IInv, NEW R \in SUBSET In("prefilling"), NEW end, DOMAIN end = R,
           \A r \in R : end[r] \in req[r].progress .. Len(req[r].prompt),
           BatchPrefill(R, end)
    PROVE  IInv' /\ WrittenOnce
<1> DEFINE start == [r \in R |-> req[r].progress]
           length == [r \in R |-> end[r] - start[r]]
           batch == {r \in R : length[r] > 0}
           width == MaxOver(batch, start)
           Past(r) == Visible(PastColumns(req[r], start[r], width), start[r])
           Row(r, j) == IF j > length[r] THEN Junk
                        ELSE Attend(Past(r), SubSeq(req[r].prompt, start[r] + 1, start[r] + j))
           done == {r \in R : end[r] = Len(req[r].prompt)}
           tokens == UNION {{r} \X (start[r] .. end[r] - 1) : r \in batch}
           new == [w \in tokens |-> Row(w[1], w[2] - start[w[1]] + 1)]
<1>1. ASSUME NEW r \in R
      PROVE  /\ r \in Requests /\ start[r] = req[r].progress /\ start[r] \in Nat
             /\ length[r] = end[r] - start[r] /\ end[r] \in Nat
             /\ start[r] <= end[r] /\ end[r] <= Len(req[r].prompt) /\ Len(req[r].prompt) \in Nat
  <2>1. r \in In("prefilling")
    OBVIOUS
  <2>2. /\ r \in Requests /\ req[r].progress \in Nat /\ Len(req[r].prompt) \in Nat
    BY <2>1, PrefillingFacts
  <2>3. end[r] \in req[r].progress .. Len(req[r].prompt)
    OBVIOUS
  <2> QED BY <2>2, <2>3
<1>2. Moves(R, end)
  <2>1. /\ kv' = Written(new)
        /\ past' = Recorded(end)
        /\ DOMAIN seen' = Requests /\ \A r \in Requests \ R : seen'[r] = seen[r]
        /\ phase' = [r \in Requests |-> IF r \in done THEN "running" ELSE phase[r]]
    BY DEF BatchPrefill
  <2>2. PICK first \in [done -> Vocabulary] :
           req' = [r \in Requests |->
                     IF r \in done
                     THEN [req[r] EXCEPT !.progress = end[r], !.out = <<first[r]>>]
                     ELSE IF r \in R THEN [req[r] EXCEPT !.progress = end[r]]
                     ELSE req[r]]
    BY DEF BatchPrefill
  <2>3. /\ DOMAIN past' = DOMAIN past \cup R
        /\ \A r \in R : past'[r] = end[r]
        /\ \A r \in Requests \ R : (r \in DOMAIN past' <=> r \in DOMAIN past)
    BY <2>1 DEF Recorded
  <2>4. ASSUME NEW r \in R
        PROVE  MovesTo(r, end[r])
    <3>1. CASE end[r] = Len(req[r].prompt)
      <4>1. r \in done
        BY <3>1
      <4>2. first[r] \in Vocabulary /\ r \in Requests
        BY <1>1, <2>2, <4>1
      <4>3. req'[r] = [req[r] EXCEPT !.progress = end[r], !.out = <<first[r]>>]
        BY <2>2, <4>1, <4>2, Zenon
      <4>4. phase'[r] = "running" /\ past'[r] = end[r]
        BY <2>1, <2>3, <4>1, <4>2
      <4> QED BY <3>1, <4>2, <4>3, <4>4 DEF MovesTo
    <3>2. CASE end[r] # Len(req[r].prompt)
      <4>1. r \notin done /\ r \in Requests
        BY <1>1, <3>2
      <4>2. req'[r] = [req[r] EXCEPT !.progress = end[r]]
        BY <2>2, <4>1, Zenon
      <4>3. phase'[r] = phase[r] /\ past'[r] = end[r]
        BY <2>1, <2>3, <4>1
      <4> QED BY <3>2, <4>2, <4>3 DEF MovesTo
    <3> QED BY <3>1, <3>2
  <2>5. ASSUME NEW r \in Requests \ R
        PROVE  /\ req'[r] = req[r] /\ phase'[r] = phase[r] /\ seen'[r] = seen[r]
               /\ (r \in DOMAIN past' <=> r \in DOMAIN past)
               /\ r \in DOMAIN past => past'[r] = past[r]
    <3>1. r \notin done
      OBVIOUS
    <3>2. req'[r] = req[r]
      BY <2>2, <3>1, Zenon
    <3>3. r \in DOMAIN past => past'[r] = past[r]
      BY <2>1 DEF Recorded
    <3> QED BY <2>1, <2>3, <3>1, <3>2, <3>3
  <2>6. /\ req' = [r \in Requests |-> req'[r]] /\ phase' = [r \in Requests |-> phase'[r]]
    BY <2>1, <2>2
  <2>7. \A r \in R : end[r] \in req[r].progress .. Len(req[r].prompt)
    OBVIOUS
  <2>8. \A r \in Requests \ R : Stays(r)
    BY <2>5, Zenon DEF Stays
  <2>9. R \subseteq In("prefilling") /\ DOMAIN seen' = Requests /\ DOMAIN past' = DOMAIN past \cup R
    BY <2>1, <2>3
  <2> QED BY <2>4, <2>6, <2>7, <2>8, <2>9, Zenon DEF Moves
<1>3. DOMAIN new = {w \in R \X Nat : req[w[1]].progress <= w[2] /\ w[2] < end[w[1]]}
  <2> DEFINE D == {w \in R \X Nat : req[w[1]].progress <= w[2] /\ w[2] < end[w[1]]}
  <2>1. ASSUME NEW w \in tokens
        PROVE  w \in D
    <3>1. PICK r \in batch : w \in {r} \X (start[r] .. end[r] - 1)
      OBVIOUS
    <3>2. PICK i \in start[r] .. end[r] - 1 : w = <<r, i>>
      BY <3>1
    <3>3. r \in R
      OBVIOUS
    <3>4. i \in Nat /\ req[r].progress <= i /\ i < end[r]
      BY <1>1, <3>2, <3>3
    <3> QED BY <3>2, <3>3, <3>4
  <2>2. ASSUME NEW w \in D
        PROVE  w \in tokens
    <3>1. PICK r \in R, i \in Nat : w = <<r, i>> /\ req[r].progress <= i /\ i < end[r]
      OBVIOUS
    <3>2. i \in start[r] .. end[r] - 1 /\ length[r] > 0
      <4>1. start[r] = req[r].progress /\ start[r] \in Nat /\ end[r] \in Nat /\ length[r] = end[r] - start[r]
        BY <1>1
      <4> HIDE DEF start, length
      <4> QED BY <3>1, <4>1
    <3>3. r \in batch
      BY <3>2
    <3>4. w \in {r} \X (start[r] .. end[r] - 1)
      BY <3>1, <3>2
    <3> HIDE DEF batch, start
    <3> QED BY <3>3, <3>4
  <2> QED BY <2>1, <2>2
<1>4. \A w \in DOMAIN new : new[w] = SubSeq(req[w[1]].prompt, 1, w[2] + 1)
  <2> TAKE w \in DOMAIN new
  <2>1. PICK r \in R, i \in Nat : w = <<r, i>> /\ req[r].progress <= i /\ i < end[r]
    <3>1. w \in {w_1 \in R \X Nat : req[w_1[1]].progress <= w_1[2] /\ w_1[2] < end[w_1[1]]}
      BY <1>3, Zenon
    <3> HIDE DEF new, tokens
    <3> QED BY <3>1
  <2> DEFINE j == i - start[r] + 1
  <2>2. new[w] = Row(r, j)
    BY <2>1
  <2>3. /\ r \in In("prefilling") /\ r \in Holders
        /\ start[r] = NumOf(phase[r], req[r]) /\ start[r] = req[r].progress /\ start[r] \in Nat
        /\ i < Len(req[r].prompt) /\ ~ (j > length[r])
    <3>1. r \in In("prefilling")
      OBVIOUS
    <3>2. r \in Holders /\ NumOf(phase[r], req[r]) = req[r].progress
      BY <3>1, PrefillingFacts
    <3>3. /\ start[r] = req[r].progress /\ start[r] \in Nat
          /\ length[r] = end[r] - start[r] /\ end[r] \in Nat
          /\ start[r] <= end[r] /\ end[r] <= Len(req[r].prompt) /\ Len(req[r].prompt) \in Nat
      BY <1>1
    <3> HIDE DEF start, length
    <3> QED BY <2>1, <3>1, <3>2, <3>3
  <2>4. width \in Int
    <3>1. \A q \in batch : start[q] \in Int
      BY <1>1
    <3>2. batch \in SUBSET Requests
      BY <1>1
    <3> HIDE DEF batch, start
    <3> QED BY <3>1, <3>2, WidthIsNumber
  <2>5. Past(r) = [k \in 1 .. start[r] |-> SubSeq(TokensOf(phase[r], req[r]), 1, k)]
    <3> HIDE DEF width, start
    <3>1. LET n == NumOf(phase[r], req[r])
              t == TokensOf(phase[r], req[r])
          IN  \A v \in Int : Visible(PastColumns(req[r], n, v), n) = [k \in 1 .. n |-> SubSeq(t, 1, k)]
      BY <2>3, VisiblePast
    <3>2. Visible(PastColumns(req[r], start[r], width), start[r])
             = [k \in 1 .. start[r] |-> SubSeq(TokensOf(phase[r], req[r]), 1, k)]
      BY <2>3, <2>4, <3>1
    <3> QED BY <3>2
  <2> HIDE DEF Past, width
  <2>6. Row(r, j) = Attend(Past(r), SubSeq(req[r].prompt, start[r] + 1, start[r] + j))
    <3> HIDE DEF j, start, length
    <3> QED BY <2>3
  <2> DEFINE columns == Past(r)
  <2>7. columns = [k \in 1 .. req[r].progress |-> SubSeq(TokensOf(phase[r], req[r]), 1, k)]
    BY <2>3, <2>5
  <2>8. Row(r, j) = Attend(columns, SubSeq(req[r].prompt, req[r].progress + 1,
                                           req[r].progress + (i - req[r].progress + 1)))
    BY <2>3, <2>6
  <2> HIDE DEF columns, Row, new, j
  <2>9. Row(r, j) = SubSeq(req[r].prompt, 1, i + 1)
    BY <2>1, <2>3, <2>7, <2>8, RowOfToken
  <2> QED BY <2>1, <2>2, <2>9
<1>5. kv' = Written(new)
  BY DEF BatchPrefill
<1> HIDE DEF new
<1> QED BY <1>2, <1>3, <1>4, <1>5, PrefillKeeps

(* A chunk is as long as asked for, or as what is left.                      *)
LEMMA MinOfTwo ==
    ASSUME NEW a \in Int, NEW b \in Int
    PROVE  /\ Min({a, b}) = a \/ Min({a, b}) = b
           /\ Min({a, b}) <= a /\ Min({a, b}) <= b /\ Min({a, b}) \in Int
<1>1. \E x \in {a, b} : \A y \in {a, b} : x <= y
  <2>1. CASE a <= b
    BY <2>1
  <2>2. CASE ~ (a <= b)
    BY <2>2
  <2> QED BY <2>1, <2>2
<1>2. Min({a, b}) \in {a, b} /\ \A y \in {a, b} : Min({a, b}) <= y
  BY <1>1 DEF Min
<1> QED BY <1>2

(* How far a chunk goes.                                                     *)
LEMMA ChunkEnds ==
    ASSUME IInv, NEW r \in In("prefilling"), NEW n \in Int,
           LET left == Len(req[r].prompt) - req[r].progress
           IN  n <= Min({MaxChunk, left}) /\ n >= Min({1, left})
    PROVE  req[r].progress + n \in req[r].progress .. Len(req[r].prompt)
<1> DEFINE left == Len(req[r].prompt) - req[r].progress
<1>1. /\ req[r].progress \in Nat /\ Len(req[r].prompt) \in Nat
      /\ req[r].progress <= Len(req[r].prompt)
  BY PrefillingFacts
<1>2. left \in Nat /\ left \in Int /\ 1 \in Int
  BY <1>1
<1>3. MaxChunk \in Int
  BY BackendAssumption
<1>4. n <= Min({MaxChunk, left}) /\ n >= Min({1, left})
  OBVIOUS
<1> HIDE DEF left
<1>5. Min({MaxChunk, left}) <= left /\ Min({MaxChunk, left}) \in Int
  BY <1>2, <1>3, MinOfTwo, Zenon
<1>6. (Min({1, left}) = 1 \/ Min({1, left}) = left) /\ Min({1, left}) \in Int
  BY <1>2, MinOfTwo, Zenon
<1>7. n <= left /\ n >= 0
  BY <1>2, <1>4, <1>5, <1>6
<1> QED BY <1>1, <1>7 DEF left

(* prefill_step of the engine, for any choice of requests and of chunks.     *)
LEMMA PrefillStep == IInv /\ Prefill => IInv' /\ WrittenOnce
<1> SUFFICES ASSUME IInv, Prefill PROVE IInv' /\ WrittenOnce
  OBVIOUS
<1>1. PICK R \in (SUBSET In("prefilling")) \ {{}} :
          \E end \in [R -> 1 .. MaxOver(R, [r \in R |-> Len(req[r].prompt)])] :
              /\ \A r \in R :
                    LET left == Len(req[r].prompt) - req[r].progress
                    IN  /\ end[r] - req[r].progress <= Min({MaxChunk, left})
                        /\ end[r] - req[r].progress >= Min({1, left})
              /\ BatchPrefill(R, end)
  BY DEF Prefill
<1> DEFINE longest == MaxOver(R, [r \in R |-> Len(req[r].prompt)])
<1>2. PICK end \in [R -> 1 .. longest] :
              /\ \A r \in R :
                    LET left == Len(req[r].prompt) - req[r].progress
                    IN  /\ end[r] - req[r].progress <= Min({MaxChunk, left})
                        /\ end[r] - req[r].progress >= Min({1, left})
              /\ BatchPrefill(R, end)
  BY <1>1
<1>3. longest \in Int
  <2> DEFINE f == [r \in R |-> Len(req[r].prompt)]
  <2>1. \A r \in R : f[r] \in Int
    BY PrefillingFacts
  <2>2. R \in SUBSET Requests
    BY DEF In
  <2> HIDE DEF f
  <2>3. MaxOver(R, f) \in Int
    BY <2>1, <2>2, WidthIsNumber
  <2> QED BY <2>3 DEF f
<1> HIDE DEF longest
<1>4. ASSUME NEW r \in R
      PROVE  end[r] \in req[r].progress .. Len(req[r].prompt)
  <2>1. r \in In("prefilling") /\ end[r] \in Int
    BY <1>2, <1>3
  <2>2. req[r].progress \in Nat
    BY <2>1, PrefillingFacts
  <2>3. PICK n \in Int : n = end[r] - req[r].progress
    BY <2>1, <2>2
  <2>4. end[r] = req[r].progress + n
    BY <2>1, <2>2, <2>3
  <2>5. LET left == Len(req[r].prompt) - req[r].progress
        IN  n <= Min({MaxChunk, left}) /\ n >= Min({1, left})
    BY <1>2, <2>3
  <2>6. req[r].progress + n \in req[r].progress .. Len(req[r].prompt)
    BY <2>1, <2>5, ChunkEnds
  <2> QED BY <2>4, <2>6
<1>5. R \in SUBSET In("prefilling") /\ DOMAIN end = R
  BY <1>1, <1>2
<1> QED BY <1>2, <1>4, <1>5, BatchKeeps

(* prefill() of one request.                                                 *)
LEMMA AnsweredMoves ==
    ASSUME IInv, NEW r \in In("prefilling"),
           NEW n \in req[r].progress .. Len(req[r].prompt), NEW row, Answered(r, n, row)
    PROVE  Moves({r}, [q \in {r} |-> n])
<1> DEFINE end == [q \in {r} |-> n]
<1>1. /\ r \in Requests /\ req \in [Requests -> RequestType] /\ phase \in [Requests -> Phases]
      /\ DOMAIN seen = Requests
  BY DEF In, IInv, TypeInv
<1>2. past' = Recorded(end)
  BY DEF Answered
<1>3. DOMAIN past' = DOMAIN past \cup {r} /\ past'[r] = n
  BY <1>2 DEF Recorded
<1>4. \A q \in Requests \ {r} : /\ q \in DOMAIN past' <=> q \in DOMAIN past
                                /\ q \in DOMAIN past => past'[q] = past[q]
  BY <1>2 DEF Recorded
<1>5. /\ DOMAIN req' = Requests /\ req' = [q \in Requests |-> req'[q]]
      /\ DOMAIN seen' = Requests /\ phase' = [q \in Requests |-> phase'[q]]
      /\ \A q \in Requests \ {r} : req'[q] = req[q] /\ phase'[q] = phase[q] /\ seen'[q] = seen[q]
      /\ MovesTo(r, n)
  <2>1. CASE n = Len(req[r].prompt)
    <3>1. seen' = [seen EXCEPT ![r] = row] /\ phase' = [phase EXCEPT ![r] = "running"]
      BY <2>1 DEF Answered
    <3>2. PICK first \in Vocabulary : req' = [req EXCEPT ![r].progress = n, ![r].out = <<first>>]
      BY <2>1 DEF Answered
    <3>3. req' = [req EXCEPT ![r] = [req[r] EXCEPT !.progress = n, !.out = <<first>>]]
      BY <1>1, <3>2
    <3>4. req'[r] = [req[r] EXCEPT !.progress = n, !.out = <<first>>] /\ phase'[r] = "running"
      BY <1>1, <3>1, <3>3
    <3>5. MovesTo(r, n)
      BY <1>3, <2>1, <3>4 DEF MovesTo
    <3>6. /\ DOMAIN req' = Requests /\ req' = [q \in Requests |-> req'[q]]
          /\ \A q \in Requests \ {r} : req'[q] = req[q]
      BY <1>1, <3>3
    <3>7. /\ DOMAIN seen' = Requests /\ phase' = [q \in Requests |-> phase'[q]]
          /\ \A q \in Requests \ {r} : phase'[q] = phase[q] /\ seen'[q] = seen[q]
      BY <1>1, <3>1
    <3> QED BY <3>5, <3>6, <3>7
  <2>2. CASE n # Len(req[r].prompt)
    <3>1. seen' = seen /\ phase' = phase /\ req' = [req EXCEPT ![r].progress = n]
      BY <2>2 DEF Answered
    <3>2. req' = [req EXCEPT ![r] = [req[r] EXCEPT !.progress = n]]
      BY <1>1, <3>1
    <3>3. req'[r] = [req[r] EXCEPT !.progress = n] /\ phase'[r] = phase[r]
      BY <1>1, <3>1, <3>2
    <3>4. MovesTo(r, n)
      BY <1>3, <2>2, <3>3 DEF MovesTo
    <3>5. /\ DOMAIN req' = Requests /\ req' = [q \in Requests |-> req'[q]]
          /\ \A q \in Requests \ {r} : req'[q] = req[q]
      BY <1>1, <3>2
    <3>6. /\ DOMAIN seen' = Requests /\ phase' = [q \in Requests |-> phase'[q]]
          /\ \A q \in Requests \ {r} : phase'[q] = phase[q] /\ seen'[q] = seen[q]
      BY <1>1, <3>1
    <3> QED BY <3>4, <3>5, <3>6
  <2> QED BY <2>1, <2>2
<1>6. \A q \in Requests \ {r} : Stays(q)
  BY <1>4, <1>5 DEF Stays
<1>7. \A q \in {r} : end[q] \in req[q].progress .. Len(req[q].prompt) /\ MovesTo(q, end[q])
  BY <1>5
<1> HIDE DEF end
<1> QED BY <1>3, <1>5, <1>6, <1>7 DEF Moves

(* _prefill_chunk.                                                           *)
LEMMA ChunkStep ==
    ASSUME IInv, NEW r \in In("prefilling"),
           NEW end \in req[r].progress .. Len(req[r].prompt), PrefillChunk(r, end)
    PROVE  IInv' /\ WrittenOnce
<1> DEFINE start == req[r].progress
           columns == Read(req[r], start)
           Row(j) == Attend(columns, SubSeq(req[r].prompt, start + 1, start + j))
           tokens == {r} \X (start .. end - 1)
           new == [w \in tokens |-> Row(w[2] - start + 1)]
           R == {r}
           ends == [q \in {r} |-> end]
<1>1. /\ r \in Holders /\ start \in Nat /\ end \in Nat /\ start <= end
      /\ end <= Len(req[r].prompt) /\ Len(req[r].prompt) \in Nat
      /\ start = NumOf(phase[r], req[r])
  <2>1. /\ r \in Holders /\ start \in Nat /\ Len(req[r].prompt) \in Nat
        /\ start = NumOf(phase[r], req[r])
    BY PrefillingFacts
  <2> QED BY <2>1
<1>2. CASE end = start /\ kv' = kv /\ Answered(r, end, Attend(columns, <<Last(req[r].prompt)>>))
  <2>1. Moves(R, ends)
    BY <1>2, AnsweredMoves
  <2>2. \A q \in R : ends[q] = req[q].progress
    BY <1>2
  <2> HIDE DEF R, ends
  <2> QED BY <1>2, <2>1, <2>2, NothingLeftKeeps
<1>3. CASE end > start /\ kv' = Written(new) /\ Answered(r, end, Row(end - start))
  <2>1. Moves(R, ends)
    <3> DEFINE row == Row(end - start)
    <3>1. Answered(r, end, row)
      BY <1>3
    <3> HIDE DEF row
    <3> QED BY <3>1, AnsweredMoves
  <2>2. DOMAIN new = {w \in R \X Nat : req[w[1]].progress <= w[2] /\ w[2] < ends[w[1]]}
    <3>1. tokens = {w \in R \X Nat : req[w[1]].progress <= w[2] /\ w[2] < ends[w[1]]}
      <4> DEFINE D == {w \in R \X Nat : req[w[1]].progress <= w[2] /\ w[2] < ends[w[1]]}
      <4>1. ASSUME NEW w \in tokens PROVE w \in D
        <5>1. PICK i \in start .. end - 1 : w = <<r, i>>
          OBVIOUS
        <5>2. i \in Nat /\ start <= i /\ i < end
          BY <1>1, <5>1
        <5> QED BY <5>1, <5>2
      <4>2. ASSUME NEW w \in D PROVE w \in tokens
        <5>1. PICK i \in Nat : w = <<r, i>> /\ start <= i /\ i < end
          OBVIOUS
        <5>2. i \in start .. end - 1
          BY <1>1, <5>1
        <5> QED BY <5>1, <5>2
      <4> QED BY <4>1, <4>2
    <3> QED BY <3>1
  <2>3. \A w \in DOMAIN new : new[w] = SubSeq(req[w[1]].prompt, 1, w[2] + 1)
    <3> TAKE w \in DOMAIN new
    <3>1. PICK i \in start .. end - 1 : w = <<r, i>>
      OBVIOUS
    <3>2. i \in Nat /\ start <= i /\ i < Len(req[r].prompt)
      BY <1>1, <3>1
    <3>3. new[w] = Row(i - start + 1)
      BY <3>1
    <3>4. columns = [k \in 1 .. start |-> SubSeq(TokensOf(phase[r], req[r]), 1, k)]
      BY <1>1, PastOf
    <3> HIDE DEF columns, new
    <3>5. Row(i - start + 1) = SubSeq(req[r].prompt, 1, i + 1)
      BY <3>2, <3>4, RowOfToken
    <3> QED BY <3>1, <3>3, <3>5
  <2> HIDE DEF R, ends, new
  <2> QED BY <1>3, <2>1, <2>2, <2>3, PrefillKeeps
<1> QED BY <1>2, <1>3 DEF PrefillChunk

-----------------------------------------------------------------------------
(* _prefill_full.                                                            *)

(* Where the blocks end that it reuses, and what it reads from them.         *)
LEMMA ReusedBlocks ==
    ASSUME IInv, NEW r \in In("prefilling"), r \notin DOMAIN past,
           req[r].progress = 0 => req[r].offset = 0,
           NEW k, k = (req[r].offset + req[r].progress) \div BlockSize
    PROVE  /\ k \in Nat /\ k * BlockSize \in Nat /\ req[r].offset + req[r].progress = k * BlockSize
           /\ k <= Len(req[r].table)
           /\ Read([req[r] EXCEPT !.table = SubSeq(@, 1, k)], req[r].progress)
                 = [i \in 1 .. req[r].progress |-> SubSeq(TokensOf(phase[r], req[r]), 1, i)]
<1> DEFINE q == req[r]
           n == q.offset + q.progress
           t == TokensOf(phase[r], q)
<1>1. /\ r \in Holders /\ phase[r] = "prefilling" /\ q \in RequestType /\ q.progress \in Nat
      /\ r \in Requests /\ NumOf(phase[r], q) = q.progress
      /\ q.progress <= Capacity(q)
  <2>1. /\ r \in Holders /\ phase[r] = "prefilling" /\ q \in RequestType /\ q.progress \in Nat
        /\ r \in Requests /\ NumOf(phase[r], q) = q.progress
        /\ Len(q.prompt) \in Nat /\ q.progress <= Len(q.prompt)
        /\ Len(q.prompt) <= Capacity(q) /\ Capacity(q) \in Int
    BY PrefillingFacts
  <2> QED BY <2>1
<1>2. /\ q.offset \in Nat /\ Len(q.table) \in Nat /\ q.table \in Seq(Blocks)
      /\ Capacity(q) = After(q, Len(q.table)) /\ Capacity(q) \in Int /\ n \in Nat
  BY <1>1, Fields
<1>3. n % BlockSize = 0
  <2>1. AtBlockEnd(q)
    BY <1>1 DEF IInv, PastInv
  <2>2. CASE q.progress = 0
    <3>1. n = 0
      BY <2>2
    <3>2. 0 % BlockSize = 0
      BY Sizes
    <3> QED BY <3>1, <3>2
  <2>3. CASE q.progress # 0
    BY <2>1, <2>3 DEF AtBlockEnd
  <2> QED BY <2>2, <2>3
<1>4. k \in Nat /\ k * BlockSize \in Nat /\ n = k * BlockSize
  <2> HIDE DEF n, q
  <2>1. n \div BlockSize \in Nat /\ n = ((n \div BlockSize) * BlockSize) + (n % BlockSize)
    BY <1>2, Division
  <2>2. k = n \div BlockSize
    BY DEF n, q
  <2>3. k \in Nat /\ k * BlockSize \in Nat
    BY <2>1, <2>2, DivisionBounds
  <2> DEFINE x == k * BlockSize
  <2>4. n = x + 0
    BY <1>3, <2>1, <2>2
  <2> QED BY <2>3, <2>4
<1>5. k <= Len(q.table)
  <2> DEFINE m == Len(q.table)
             x == k * BlockSize
             y == m * BlockSize
  <2>1. m \in Nat /\ y \in Nat /\ (y < x => y \div BlockSize < k) /\ (x <= y => k <= y \div BlockSize)
    BY <1>2, <1>4, DivisionBounds
  <2>2. y \div BlockSize = m
    <3>1. 0 \in Slots
      BY Sizes DEF Slots
    <3>2. (y + 0) \div BlockSize = m
      BY <1>2, <3>1, DivisionIsUnique
    <3>3. y + 0 = y
      BY <2>1
    <3> QED BY <3>2, <3>3
  <2>3. x <= y
    <3>1. Capacity(q) = y - q.offset
      BY <1>2 DEF After
    <3>2. n = x
      BY <1>4
    <3> HIDE DEF x, y
    <3> QED BY <1>1, <1>2, <2>1, <3>1, <3>2
  <2> HIDE DEF x, y
  <2> QED BY <2>1, <2>2, <2>3
<1> DEFINE u == [q EXCEPT !.table = SubSeq(@, 1, k)]
<1>6. /\ SubSeq(q.table, 1, k) \in Seq(Blocks) /\ Len(SubSeq(q.table, 1, k)) = k
      /\ \A i \in 1 .. k : SubSeq(q.table, 1, k)[i] = q.table[i]
  <2>1. \A i \in 1 .. k : q.table[i] \in Blocks
    BY <1>2, <1>4, <1>5
  <2>2. 1 \in Int /\ k \in Int
    BY <1>4
  <2> DEFINE b == SubSeq(q.table, 1, k)
  <2>3. /\ b \in Seq(Blocks) /\ Len(b) = IF 1 <= k THEN k - 1 + 1 ELSE 0
        /\ \A i \in 1 .. k - 1 + 1 : b[i] = q.table[1 + i - 1]
    BY <2>1, <2>2, SubSeqProperties
  <2> HIDE DEF b
  <2>4. Len(b) = k /\ k - 1 + 1 = k /\ \A i \in 1 .. k : 1 + i - 1 = i
    BY <1>4, <2>3
  <2> QED BY <2>3, <2>4 DEF b
<1>7. u \in RequestType /\ u.table = SubSeq(q.table, 1, k) /\ u.offset = q.offset
  BY <1>1, <1>6 DEF RequestType
<1>8. Capacity(u) = q.progress
  <2>1. Capacity(u) = After(u, k)
    BY <1>6, <1>7, Fields
  <2>2. After(u, k) = (k * BlockSize) - q.offset
    BY <1>7 DEF After
  <2> HIDE DEF u
  <2> QED BY <1>1, <1>2, <1>4, <2>1, <2>2
<1>9. \A i \in Nat : i < q.progress => Stands(kv, u, t, i)
  <2> SUFFICES ASSUME NEW i \in Nat, i < q.progress PROVE Stands(kv, u, t, i)
    OBVIOUS
  <2>1. Stands(kv, q, t, i)
    BY <1>1 DEF IInv, HoldsInv
  <2>2. Index(u, i) \in 1 .. k /\ Place(u, i) = <<u.table[Index(u, i)], Slot(u, i)>>
    BY <1>6, <1>7, <1>8, Places
  <2>3. Index(u, i) = Index(q, i) /\ Slot(u, i) = Slot(q, i)
    BY <1>7 DEF Index, Slot
  <2>4. Place(q, i) = <<q.table[Index(q, i)], Slot(q, i)>>
    BY <1>1, Places
  <2>5. Place(u, i) = Place(q, i)
    <3> HIDE DEF u, q
    <3> QED BY <1>6, <1>7, <2>2, <2>3, <2>4
  <2> QED BY <2>1, <2>5 DEF Stands
<1>10. t \in Seq(Nat) /\ Len(t) = q.progress
  BY <1>1, HolderFacts DEF IInv
<1>11. Read(u, q.progress) = [i \in 1 .. q.progress |-> SubSeq(t, 1, i)]
  <2> HIDE DEF u, t
  <2>1. Len(t) <= Capacity(u)
    BY <1>1, <1>8, <1>10
  <2> QED BY <1>7, <1>9, <1>10, <2>1, Reading DEF IInv
<1> QED BY <1>4, <1>5, <1>11

(* Slot w of the blocks that are filled is that of the token d after the     *)
(* first of them.                                                            *)
Number(w) == (w[1] - 1) * BlockSize + w[2] + 1
Ahead(d, l, s) == d = ((l - 1) * BlockSize) + s
BeginsAfter(q, start, k) == q.offset + start = k * BlockSize /\ k <= Len(q.table)

LEMMA Numbers ==
    ASSUME NEW l \in Nat \ {0}, NEW s \in Slots
    PROVE  /\ \E d \in Nat : Ahead(d, l, s)
           /\ \A d \in Nat : Ahead(d, l, s) => Number(<<l, s>>) = d + 1
<1>1. PICK c \in Nat : c = l - 1
  OBVIOUS
<1> DEFINE x == c * BlockSize
<1>2. x \in Nat /\ x + s \in Nat /\ s \in Nat
  BY <1>1, DivisionBounds, Sizes DEF Slots
<1>3. Number(<<l, s>>) = (l - 1) * BlockSize + s + 1
  BY DEF Number
<1>4. Number(<<l, s>>) = x + s + 1
  BY <1>1, <1>3
<1>5. ((l - 1) * BlockSize) + s = x + s
  BY <1>1
<1>6. \A d : Ahead(d, l, s) <=> d = x + s
  BY <1>5 DEF Ahead
<1> HIDE DEF x
<1>7. x + s + 1 = (x + s) + 1
  BY <1>2
<1> QED BY <1>2, <1>4, <1>7, <1>6

LEMMA FilledPlace ==
    ASSUME NEW q \in RequestType, NEW start \in Nat, NEW k \in Nat,
           BeginsAfter(q, start, k),
           NEW l \in Nat \ {0}, NEW s \in Slots, NEW d \in Nat, Ahead(d, l, s)
    PROVE  Place(q, start + d) = <<q.table[k + l], s>>
<1>1. PICK c \in Nat : c = l - 1
  OBVIOUS
<1> DEFINE m == k + c
           x == k * BlockSize
           y == c * BlockSize
           z == m * BlockSize
<1>2. x \in Nat /\ y \in Nat /\ z \in Nat /\ m \in Nat /\ s \in Nat /\ q.offset \in Nat
  BY <1>1, DivisionBounds, Sizes, Fields DEF Slots
<1>3. z = x + y
  BY <1>1, Sizes
<1>4. d = y + s /\ q.offset + start = x
  BY <1>1 DEF Ahead, BeginsAfter
<1>5. start + d \in Nat /\ q.offset + (start + d) = z + s
  <2> HIDE DEF x, y, z, m
  <2> QED BY <1>2, <1>3, <1>4
<1>6. q.offset + (start + d) = (m * BlockSize) + s
  BY <1>5
<1>7. m + 1 = k + l
  BY <1>1
<1> HIDE DEF m, x, y, z
<1> DEFINE i == start + d
<1>8. i \in Nat /\ q.offset + i = (m * BlockSize) + s
  BY <1>5, <1>6
<1> HIDE DEF i
<1>9. Place(q, i) = <<q.table[m + 1], s>>
  BY <1>2, <1>8, PlaceInBlock
<1> QED BY <1>7, <1>9 DEF i

(* Each slot of these blocks is that of a token,                             *)
LEMMA FilledSlot ==
    ASSUME NEW q \in RequestType, NEW start \in Nat, NEW k \in Nat,
           BeginsAfter(q, start, k),
           NEW l \in Nat \ {0}, NEW s \in Slots
    PROVE  \E i \in Nat : /\ start <= i /\ Number(<<l, s>>) = i - start + 1
                          /\ Place(q, i) = <<q.table[k + l], s>>
<1>1. PICK d \in Nat : Ahead(d, l, s) /\ Number(<<l, s>>) = d + 1
  BY Numbers
<1>2. Place(q, start + d) = <<q.table[k + l], s>>
  BY <1>1, FilledPlace
<1> DEFINE i == start + d
<1>3. i \in Nat /\ start <= i /\ d + 1 = i - start + 1
  OBVIOUS
<1>4. Place(q, i) = <<q.table[k + l], s>>
  BY <1>2
<1> HIDE DEF i
<1> QED BY <1>1, <1>3, <1>4

(* and each token has one of them.                                           *)
LEMMA FilledToken ==
    ASSUME NEW q \in RequestType, NEW start \in Nat, NEW k \in Nat,
           BeginsAfter(q, start, k),
           NEW i \in Nat, start <= i, i < Capacity(q)
    PROVE  \E l \in 1 .. Len(q.table) - k : \E s \in Slots :
              Number(<<l, s>>) = i - start + 1 /\ Place(q, i) = <<q.table[k + l], s>>
<1>1. PICK d \in Nat : d = i - start
  OBVIOUS
<1>2. PICK c \in Nat, s \in Slots : d = (c * BlockSize) + s
  BY Division
<1>3. PICK l \in Nat \ {0} : l = c + 1
  OBVIOUS
<1>4. l - 1 = c
  BY <1>3
<1>5. Ahead(d, l, s)
  BY <1>2, <1>4 DEF Ahead
<1>6. Number(<<l, s>>) = d + 1
  BY <1>5, Numbers
<1>7. Place(q, start + d) = <<q.table[k + l], s>>
  BY <1>5, FilledPlace
<1>8. start + d = i
  BY <1>1
<1>9. k + l <= Len(q.table)
  <2>1. Index(q, i) \in 1 .. Len(q.table)
    BY Places
  <2> DEFINE m == k + c
             x == k * BlockSize
             y == c * BlockSize
             z == m * BlockSize
  <2>2. x \in Nat /\ y \in Nat /\ z \in Nat /\ m \in Nat
    BY DivisionBounds
  <2>3. z = x + y
    BY Sizes
  <2>4. q.offset + start = x /\ d = y + s
    BY <1>2 DEF BeginsAfter
  <2>5. q.offset \in Nat /\ s \in Nat
    BY Sizes, Fields DEF Slots
  <2>6. q.offset + i = z + s
    <3> HIDE DEF x, y, z, m
    <3> QED BY <1>8, <2>2, <2>3, <2>4, <2>5
  <2>7. q.offset + i = (m * BlockSize) + s
    BY <2>6
  <2>8. Index(q, i) = m + 1
    <3> HIDE DEF m, x, y, z
    <3> QED BY <2>2, <2>7, PlaceInBlock
  <2>9. m + 1 = k + l
    BY <1>3
  <2> HIDE DEF m, x, y, z
  <2> QED BY <2>1, <2>8, <2>9
<1>10. l \in 1 .. Len(q.table) - k
  <2>1. Len(q.table) \in Nat
    BY Fields
  <2> QED BY <1>9, <2>1
<1> QED BY <1>1, <1>6, <1>7, <1>8, <1>10

(* The slots of the tokens from start on are filled with the rows.           *)
Fills(r, q, start, n, k, blocks, rows, new) ==
    /\ q = req[r] /\ q \in RequestType /\ IsInjective(q.table)
    /\ start \in Nat /\ n \in Nat /\ start <= n /\ n <= Capacity(q)
    /\ k \in Nat /\ BeginsAfter(q, start, k)
    /\ DOMAIN blocks = 1 .. Len(q.table) - k
    /\ \A l \in 1 .. Len(q.table) - k : blocks[l] = q.table[k + l]
    /\ Len(rows) = n - start
    /\ kv' = Filled(blocks, rows)
    /\ DOMAIN new = {w \in {r} \X Nat : start <= w[2] /\ w[2] < n}
    /\ \A w \in DOMAIN new : new[w] = rows[w[2] - start + 1]

(* write_blocks writes what write_token would have.                          *)
LEMMA FilledWrote ==
    ASSUME NEW r, NEW q, NEW start, NEW n, NEW k, NEW blocks, NEW rows, NEW new,
           Fills(r, q, start, n, k, blocks, rows, new)
    PROVE  Wrote(new)
<1>1. q \in RequestType /\ start \in Nat /\ k \in Nat /\ BeginsAfter(q, start, k)
  BY DEF Fills
<1>2. \A l \in Nat \ {0} : \A s \in Slots :
         \E i \in Nat : /\ start <= i /\ Number(<<l, s>>) = i - start + 1
                        /\ Place(q, i) = <<q.table[k + l], s>>
  BY <1>1, FilledSlot, Zenon
<1>3. \A i \in Nat : start <= i /\ i < Capacity(q)
         => \E l \in 1 .. Len(q.table) - k : \E s \in Slots :
               Number(<<l, s>>) = i - start + 1 /\ Place(q, i) = <<q.table[k + l], s>>
  BY <1>1, FilledToken, ZenonT(30)
<1> USE DEF Fills
<1> DEFINE slots == {w \in (DOMAIN blocks) \X Slots : Number(w) <= Len(rows)}
           at == [p \in {<<blocks[w[1]], w[2]>> : w \in slots} |->
                     LET w == CHOOSE w \in slots : <<blocks[w[1]], w[2]>> = p
                     IN  rows[Number(w)]]
<1>4. kv' = Stored(at)
  BY DEF Filled, Number
<1>5. Capacity(q) \in Int /\ Len(q.table) \in Nat
  BY Fields
<1>6. ASSUME NEW w \in slots
      PROVE  \E i \in Nat : /\ start <= i /\ i < n /\ Number(w) = i - start + 1
                            /\ Place(q, i) = <<blocks[w[1]], w[2]>>
  <2>1. PICK l \in 1 .. Len(q.table) - k, s \in Slots : w = <<l, s>> /\ Number(w) <= Len(rows)
    OBVIOUS
  <2>2. l \in Nat \ {0}
    BY <1>5, <2>1
  <2>3. PICK i \in Nat : /\ start <= i /\ Number(<<l, s>>) = i - start + 1
                         /\ Place(q, i) = <<q.table[k + l], s>>
    BY <1>2, <2>2
  <2>4. i - start + 1 <= n - start
    BY <2>1, <2>3
  <2> QED BY <2>1, <2>3, <2>4
<1>7. ASSUME NEW i \in Nat, start <= i, i < n
      PROVE  \E w \in slots : Place(q, i) = <<blocks[w[1]], w[2]>>
  <2>1. i < Capacity(q)
    BY <1>5, <1>7
  <2>2. PICK l \in 1 .. Len(q.table) - k :
           \E s \in Slots : Number(<<l, s>>) = i - start + 1 /\ Place(q, i) = <<q.table[k + l], s>>
    BY <1>3, <1>7, <2>1
  <2>3. PICK s \in Slots : Number(<<l, s>>) = i - start + 1 /\ Place(q, i) = <<q.table[k + l], s>>
    BY <2>2
  <2>4. Number(<<l, s>>) <= Len(rows)
    BY <1>7, <2>3
  <2> DEFINE w == <<l, s>>
  <2>5. w \in slots
    BY <2>4
  <2>6. Place(q, i) = <<blocks[w[1]], w[2]>>
    BY <2>3
  <2> HIDE DEF w, slots
  <2> QED BY <2>5, <2>6
<1>8. ASSUME NEW w \in DOMAIN new
      PROVE  \E i \in Nat : /\ w = <<r, i>> /\ start <= i /\ i < n
                            /\ At(w) = Place(q, i) /\ new[w] = rows[i - start + 1]
  <2>1. PICK i \in Nat : w = <<r, i>> /\ start <= i /\ i < n
    OBVIOUS
  <2>2. new[w] = rows[i - start + 1] /\ At(w) = Place(q, i)
    BY <2>1 DEF At
  <2> QED BY <2>1, <2>2
<1>9. \A i, j \in Nat : i < n /\ j < n /\ Place(q, i) = Place(q, j) => i = j
  <2> TAKE i, j \in Nat
  <2> HAVE i < n /\ j < n /\ Place(q, i) = Place(q, j)
  <2>1. i < Capacity(q) /\ j < Capacity(q)
    BY <1>5
  <2> QED BY <2>1, PlacesDiffer
<1>10. \A w \in DOMAIN new : \E b \in Blocks, s \in Slots : At(w) = <<b, s>>
  <2> TAKE w \in DOMAIN new
  <2>1. PICK i \in Nat : i < n /\ At(w) = Place(q, i)
    BY <1>8
  <2>2. i < Capacity(q)
    BY <1>5, <2>1
  <2>3. /\ Place(q, i) = <<q.table[Index(q, i)], Slot(q, i)>>
        /\ q.table[Index(q, i)] \in Blocks /\ Slot(q, i) \in Slots
    BY <2>2, Places, Indexing
  <2> QED BY <2>1, <2>3
<1>11. DOMAIN at = {At(w) : w \in DOMAIN new}
  <2>1. ASSUME NEW p \in DOMAIN at
        PROVE  p \in {At(w) : w \in DOMAIN new}
    <3>1. PICK w \in slots : p = <<blocks[w[1]], w[2]>>
      OBVIOUS
    <3>2. PICK i \in Nat : start <= i /\ i < n /\ Place(q, i) = p
      BY <1>6, <3>1
    <3>3. <<r, i>> \in DOMAIN new /\ At(<<r, i>>) = p
      BY <3>2 DEF At
    <3> QED BY <3>3
  <2>2. ASSUME NEW w \in DOMAIN new
        PROVE  At(w) \in DOMAIN at
    <3>1. PICK i \in Nat : start <= i /\ i < n /\ At(w) = Place(q, i)
      BY <1>8
    <3>2. PICK v \in slots : Place(q, i) = <<blocks[v[1]], v[2]>>
      BY <1>7, <3>1
    <3> QED BY <3>1, <3>2
  <2> HIDE DEF at
  <2> QED BY <2>1, <2>2
<1>12. \A w \in DOMAIN new : at[At(w)] = new[w]
  <2> TAKE w \in DOMAIN new
  <2>1. PICK i \in Nat : /\ start <= i /\ i < n /\ At(w) = Place(q, i)
                         /\ new[w] = rows[i - start + 1]
    BY <1>8
  <2>2. \E v \in slots : <<blocks[v[1]], v[2]>> = At(w)
    BY <1>7, <2>1
  <2> DEFINE v == CHOOSE v \in slots : <<blocks[v[1]], v[2]>> = At(w)
  <2>3. v \in slots /\ <<blocks[v[1]], v[2]>> = At(w)
    <3> HIDE DEF slots
    <3> QED BY <2>2
  <2>4. at[At(w)] = rows[Number(v)]
    <3>1. At(w) \in {<<blocks[u[1]], u[2]>> : u \in slots}
      <4> HIDE DEF slots
      <4> QED BY <2>2
    <3> HIDE DEF slots
    <3> QED BY <3>1
  <2> HIDE DEF v, at
  <2>5. PICK j \in Nat : /\ start <= j /\ j < n /\ Number(v) = j - start + 1
                         /\ Place(q, j) = At(w)
    BY <1>6, <2>3
  <2>6. j = i
    BY <1>9, <2>1, <2>5
  <2> QED BY <2>1, <2>4, <2>5, <2>6
<1> HIDE DEF at
<1> QED BY <1>4, <1>10, <1>11, <1>12, StoredWrote

(* The end of a sequence, and of a table.                                    *)
LEMMA Endings ==
    ASSUME NEW S, NEW s \in Seq(S), NEW k \in Nat, k <= Len(s),
           NEW t, t = SubSeq(s, k + 1, Len(s))
    PROVE  /\ t \in Seq(S) /\ Len(t) = Len(s) - k /\ DOMAIN t = 1 .. Len(s) - k
           /\ \A i \in 1 .. Len(s) - k : t[i] = s[k + i]
<1> DEFINE m == k + 1
           n == Len(s)
<1>1. m \in Int /\ n \in Int /\ \A i \in m .. n : s[i] \in S
  OBVIOUS
<1> HIDE DEF m, n
<1> DEFINE b == SubSeq(s, m, n)
<1>2. /\ b \in Seq(S) /\ Len(b) = IF m <= n THEN n - m + 1 ELSE 0
      /\ \A i \in 1 .. n - m + 1 : b[i] = s[m + i - 1]
  BY <1>1, SubSeqProperties
<1>3. t = b
  BY DEF m, n
<1> HIDE DEF b
<1>4. DOMAIN b = 1 .. Len(b)
  BY <1>2
<1>5. /\ n - m + 1 = Len(s) - k
      /\ m <= n => Len(b) = Len(s) - k
      /\ ~ (m <= n) => Len(b) = 0 /\ Len(s) - k = 0
  BY <1>2 DEF m, n
<1>6. Len(b) = Len(s) - k
  BY <1>5
<1>7. \A i \in 1 .. Len(s) - k : m + i - 1 = k + i
  BY DEF m
<1> QED BY <1>2, <1>3, <1>4, <1>5, <1>6, <1>7

LEMMA RestOfPrompt ==
    ASSUME NEW p \in Seq(Nat), NEW start \in Nat, start <= Len(p),
           NEW j \in 1 .. Len(p) - start
    PROVE  SubSeq(SubSeq(p, start + 1, Len(p)), 1, j) = SubSeq(p, start + 1, start + j)
<1> DEFINE i == start + 1
           l == Len(p)
           n == 1
<1>1. i \in 1 .. Len(p) /\ l \in 1 .. Len(p) /\ n \in 1 .. l - i + 1 /\ j \in 1 .. l - i + 1
  OBVIOUS
<1>2. i + n - 1 = start + 1 /\ i + j - 1 = start + j
  OBVIOUS
<1> HIDE DEF i, l, n
<1>3. SubSeq(SubSeq(p, i, l), n, j) = SubSeq(p, i + n - 1, i + j - 1)
  BY <1>1, SubSeqOfSubSeq
<1> QED BY <1>2, <1>3 DEF i, l, n

(* _prefill_full, which counts on what is reused to be whole blocks          *)
(* (PastInv).                                                                *)
LEMMA FullStep ==
    ASSUME IInv, NEW r \in In("prefilling"), r \notin DOMAIN past,
           req[r].progress = 0 => req[r].offset = 0, PrefillFull(r)
    PROVE  IInv' /\ WrittenOnce
<1> DEFINE q == req[r]
           start == q.progress
           reused == (q.offset + start) \div BlockSize
           columns == Read([q EXCEPT !.table = SubSeq(@, 1, reused)], start)
           rest == SubSeq(q.prompt, start + 1, Len(q.prompt))
           Row(j) == Attend(columns, SubSeq(rest, 1, j))
           blocks == SubSeq(q.table, reused + 1, Len(q.table))
           rows == [j \in DOMAIN rest |-> Row(j)]
           n == Len(q.prompt)
           R == {r}
           ends(end) == [o \in {r} |-> end]
<1>1. /\ r \in Requests /\ r \in Holders /\ phase[r] = "prefilling"
      /\ q \in RequestType /\ start \in Nat /\ n \in Nat /\ start <= n
      /\ NumOf(phase[r], q) = start /\ n <= Capacity(q) /\ Capacity(q) \in Int
  BY PrefillingFacts
<1>2. q.prompt \in Seq(Nat) /\ q.table \in Seq(Blocks) /\ Len(q.table) \in Nat /\ IsInjective(q.table)
  BY <1>1, Fields, HolderFacts DEF IInv, Room
<1>3. /\ reused \in Nat /\ q.offset + start = reused * BlockSize /\ reused <= Len(q.table)
      /\ columns = [i \in 1 .. start |-> SubSeq(TokensOf(phase[r], q), 1, i)]
  BY ReusedBlocks
<1>4. CASE /\ rest = <<>> /\ kv' = kv
           /\ Answered(r, start, Attend(columns, <<Last(q.prompt)>>))
  <2>1. start \in q.progress .. Len(q.prompt)
    BY <1>1
  <2>2. Moves(R, ends(start))
    BY <1>4, <2>1, AnsweredMoves
  <2> DEFINE e == ends(start)
  <2>3. \A o \in R : e[o] = req[o].progress
    OBVIOUS
  <2>4. Moves(R, e)
    BY <2>2
  <2> HIDE DEF R, e
  <2> QED BY <1>4, <2>3, <2>4, NothingLeftKeeps
<1>5. CASE /\ rest # <<>> /\ kv' = Filled(blocks, rows)
           /\ Answered(r, n, Row(Len(rest)))
  <2> DEFINE e == ends(n)
             W == {w \in {r} \X Nat : start <= w[2] /\ w[2] < n}
             new == [w \in W |-> rows[w[2] - start + 1]]
  <2>1. Moves(R, e)
    <3>1. n \in q.progress .. Len(q.prompt)
      BY <1>1
    <3> DEFINE row == Row(Len(rest))
    <3>2. Answered(r, n, row)
      BY <1>5
    <3> HIDE DEF row
    <3> QED BY <3>1, <3>2, AnsweredMoves
  <2>2. /\ Len(rest) = n - start /\ DOMAIN rest = 1 .. n - start
        /\ Len(rows) = n - start
    <3>1. Len(rest) = n - start /\ DOMAIN rest = 1 .. n - start
      <4> DEFINE p == q.prompt
                 t == rest
      <4>1. p \in Seq(Nat) /\ start \in Nat /\ start <= Len(p) /\ t = SubSeq(p, start + 1, Len(p))
        BY <1>1, <1>2
      <4> HIDE DEF p, t, start
      <4>2. Len(t) = Len(p) - start /\ DOMAIN t = 1 .. Len(p) - start
        BY <4>1, Endings
      <4> QED BY <4>2 DEF p, t
    <3>2. n - start \in Nat
      BY <1>1
    <3> DEFINE m == n - start
    <3>3. rows = [j \in 1 .. m |-> Row(j)] /\ m \in Nat
      BY <3>1, <3>2
    <3> HIDE DEF rest, Row, m
    <3>4. Len(rows) = m
      BY <3>3
    <3> QED BY <3>1, <3>4 DEF m
  <2>3. /\ DOMAIN blocks = 1 .. Len(q.table) - reused
        /\ \A l \in 1 .. Len(q.table) - reused : blocks[l] = q.table[reused + l]
    <3> DEFINE s == q.table
               t == blocks
               m == reused
    <3>1. s \in Seq(Blocks) /\ m \in Nat /\ m <= Len(s) /\ t = SubSeq(s, m + 1, Len(s))
      BY <1>2, <1>3
    <3> HIDE DEF s, t, m
    <3>2. DOMAIN t = 1 .. Len(s) - m /\ \A l \in 1 .. Len(s) - m : t[l] = s[m + l]
      BY <3>1, Endings
    <3> QED BY <3>2 DEF s, t, m
  <2>4. BeginsAfter(q, start, reused)
    BY <1>3 DEF BeginsAfter
  <2>5. DOMAIN new = W /\ \A w \in DOMAIN new : new[w] = rows[w[2] - start + 1]
    OBVIOUS
  <2>6. Wrote(new)
    <3> DEFINE u == q
    <3>1. u = req[r]
      OBVIOUS
    <3>2. /\ u \in RequestType /\ IsInjective(u.table) /\ n <= Capacity(u)
          /\ BeginsAfter(u, start, reused)
          /\ DOMAIN blocks = 1 .. Len(u.table) - reused
          /\ \A l \in 1 .. Len(u.table) - reused : blocks[l] = u.table[reused + l]
      BY <1>1, <1>2, <2>3, <2>4
    <3>3. start \in Nat /\ n \in Nat /\ start <= n /\ reused \in Nat /\ Len(rows) = n - start
      BY <1>1, <1>3, <2>2
    <3>4. DOMAIN new = {w \in {r} \X Nat : start <= w[2] /\ w[2] < n}
      BY <2>5
    <3>5. kv' = Filled(blocks, rows)
      BY <1>5
    <3> HIDE DEF u, n, start, reused, blocks, rows, new
    <3>6. Fills(r, u, start, n, reused, blocks, rows, new)
      BY <2>5, <3>1, <3>2, <3>3, <3>4, <3>5, Zenon DEF Fills
    <3> QED BY <3>6, FilledWrote
  <2>7. \A w \in DOMAIN new : new[w] = SubSeq(req[w[1]].prompt, 1, w[2] + 1)
    <3> TAKE w \in DOMAIN new
    <3>1. PICK i \in Nat : w = <<r, i>> /\ start <= i /\ i < n
      BY <2>5
    <3>2. PICK j \in 1 .. n - start : j = i - start + 1
      <4>1. start \in Nat /\ n \in Nat /\ start <= i /\ i < n
        BY <1>1, <3>1
      <4> HIDE DEF start, n
      <4> QED BY <4>1
    <3>3. new[w] = Row(j)
      <4>1. new[w] = rows[j]
        BY <2>5, <3>1, <3>2
      <4>2. j \in DOMAIN rest
        BY <2>2
      <4> HIDE DEF new, rest, Row
      <4> QED BY <4>1, <4>2
    <3>4. SubSeq(rest, 1, j) = SubSeq(q.prompt, start + 1, start + j)
      <4> DEFINE p == q.prompt
      <4>1. p \in Seq(Nat) /\ start \in Nat /\ start <= Len(p) /\ j \in 1 .. Len(p) - start
        BY <1>1, <1>2
      <4> HIDE DEF p, start
      <4>2. SubSeq(SubSeq(p, start + 1, Len(p)), 1, j) = SubSeq(p, start + 1, start + j)
        BY <4>1, RestOfPrompt
      <4> QED BY <4>2 DEF p
    <3> DEFINE m == i + 1
    <3>5. m \in Nat /\ start <= m /\ m <= n /\ start + j = m
      <4>1. start \in Nat /\ n \in Nat /\ start <= i /\ i < n /\ j = i - start + 1
        BY <1>1, <3>1, <3>2
      <4> HIDE DEF start, n
      <4> QED BY <4>1
    <3> HIDE DEF m, columns
    <3>6. Attend(columns, SubSeq(q.prompt, start + 1, m)) = SubSeq(q.prompt, 1, m)
      BY <1>1, <1>3, <3>5, PrefillRow
    <3>7. new[w] = SubSeq(q.prompt, 1, m)
      BY <3>3, <3>4, <3>5, <3>6
    <3> QED BY <3>1, <3>7 DEF m
  <2>8. DOMAIN new = {w \in R \X Nat : req[w[1]].progress <= w[2] /\ w[2] < e[w[1]]}
    <3>1. ASSUME NEW w \in R \X Nat
          PROVE  /\ start <= w[2] <=> req[w[1]].progress <= w[2]
                 /\ w[2] < n <=> w[2] < e[w[1]]
      <4>1. w[1] = r
        OBVIOUS
      <4> QED BY <4>1
    <3>2. W = {w \in R \X Nat : start <= w[2] /\ w[2] < n}
      OBVIOUS
    <3> HIDE DEF new, W, e, n, start, R
    <3> QED BY <2>5, <3>1, <3>2
  <2> HIDE DEF R, e, new
  <2> QED BY <2>1, <2>6, <2>7, <2>8, MovesKeeps
<1> QED BY <1>4, <1>5 DEF PrefillFull

(* prefill(), chunk by chunk or at once.                                     *)
LEMMA PrefillOneStep == IInv /\ PrefillOne => IInv' /\ WrittenOnce
<1> SUFFICES ASSUME IInv, PrefillOne PROVE IInv' /\ WrittenOnce
  OBVIOUS
<1>1. PICK r \in In("prefilling") :
        LET q == req[r]
            left == Len(q.prompt) - q.progress
        IN  \/ \E n \in Min({1, left}) .. Min({MaxChunk, left}) : PrefillChunk(r, q.progress + n)
            \/ /\ r \notin DOMAIN past
               /\ q.progress = 0 => q.offset = 0
               /\ PrefillFull(r)
  BY DEF PrefillOne
<1> DEFINE left == Len(req[r].prompt) - req[r].progress
<1>2. CASE \E n \in Min({1, left}) .. Min({MaxChunk, left}) : PrefillChunk(r, req[r].progress + n)
  <2>1. left \in Int /\ 1 \in Int /\ MaxChunk \in Int
    BY PrefillingFacts, BackendAssumption
  <2>2. Min({1, left}) \in Int /\ Min({MaxChunk, left}) \in Int
    <3> HIDE DEF left
    <3> QED BY <2>1, MinOfTwo, Zenon
  <2>3. PICK n \in Min({1, left}) .. Min({MaxChunk, left}) : PrefillChunk(r, req[r].progress + n)
    BY <1>2
  <2>4. n \in Int /\ n <= Min({MaxChunk, left}) /\ n >= Min({1, left})
    BY <2>2, <2>3
  <2>5. req[r].progress + n \in req[r].progress .. Len(req[r].prompt)
    BY <2>4, ChunkEnds
  <2> QED BY <2>3, <2>5, ChunkStep
<1>3. CASE r \notin DOMAIN past /\ (req[r].progress = 0 => req[r].offset = 0) /\ PrefillFull(r)
  BY <1>3, FullStep
<1> QED BY <1>1, <1>2, <1>3

-----------------------------------------------------------------------------
(* A decode.                                                                 *)
LEMMA FrontAndLast ==
    ASSUME NEW o \in Seq(Nat), o # <<>>, NEW x \in Nat
    PROVE  /\ Front(o) \o <<Last(o)>> = o
           /\ Append(o, x) \in Seq(Nat) /\ Append(o, x) # <<>> /\ Len(Append(o, x)) = Len(o) + 1
           /\ Front(Append(o, x)) = o
<1> DEFINE n == Len(o)
           u == Append(o, x)
<1>1. n \in 1 .. Len(o) /\ n \in Nat /\ n >= 1
  OBVIOUS
<1>2. Front(o) \o <<Last(o)>> = o
  <2>1. 1 \in 1 .. Len(o) /\ n \in 1 .. Len(o)
    BY <1>1
  <2>2. SubSeq(o, 1, n) = SubSeq(o, 1, n - 1) \o << o[n] >>
    BY <1>1, <2>1, SubSeqRecursiveSecond
  <2>3. SubSeq(o, 1, n) = o
    BY SubSeqFull
  <2> QED BY <2>2, <2>3 DEF Front, Last
<1>3. /\ u \in Seq(Nat) /\ u # <<>> /\ Len(u) = n + 1 /\ \A i \in 1 .. n : u[i] = o[i]
  BY AppendProperties
<1>4. Front(u) = o
  <2> HIDE DEF u
  <2>1. Len(u) - 1 = n /\ n \in 0 .. Len(u)
    BY <1>1, <1>3
  <2>2. Front(u) = SubSeq(u, 1, n)
    BY <2>1 DEF Front
  <2>3. /\ SubSeq(u, 1, n) \in Seq(Nat) /\ Len(SubSeq(u, 1, n)) = n
        /\ \A i \in 1 .. n : SubSeq(u, 1, n)[i] = u[i]
    BY <1>3, <2>1, Beginnings
  <2> DEFINE b == SubSeq(u, 1, n)
  <2>4. b \in Seq(Nat) /\ Len(b) = Len(o) /\ \A i \in 1 .. Len(b) : b[i] = o[i]
    BY <1>3, <2>3
  <2> HIDE DEF b
  <2>5. b = o
    BY <2>4, SeqEqual
  <2> QED BY <2>2, <2>5 DEF b
<1> QED BY <1>2, <1>3, <1>4

LEMMA Regrouped ==
    ASSUME NEW a \in Seq(Nat), NEW f \in Seq(Nat), NEW l \in Seq(Nat)
    PROVE  (a \o f) \o l = a \o (f \o l)
<1> DEFINE x == a \o f
           y == f \o l
           u == x \o l
           v == a \o y
<1>1. /\ x \in Seq(Nat) /\ Len(x) = Len(a) + Len(f)
      /\ Len(a) \in Nat /\ Len(f) \in Nat
      /\ \A i \in 1 .. Len(a) : x[i] = a[i]
      /\ \A i \in Len(a) + 1 .. Len(x) : x[i] = f[i - Len(a)]
  BY OneAfterTheOther
<1>2. /\ y \in Seq(Nat) /\ Len(y) = Len(f) + Len(l) /\ Len(l) \in Nat
      /\ \A i \in 1 .. Len(f) : y[i] = f[i]
      /\ \A i \in Len(f) + 1 .. Len(y) : y[i] = l[i - Len(f)]
  BY OneAfterTheOther
<1> HIDE DEF x, y
<1>3. u = x \o l /\ v = a \o y
  OBVIOUS
<1> HIDE DEF u, v
<1>4. x \in Seq(Nat) /\ y \in Seq(Nat)
  BY <1>1, <1>2
<1>5. /\ u \in Seq(Nat) /\ Len(u) = Len(x) + Len(l)
      /\ \A i \in 1 .. Len(x) : u[i] = x[i]
      /\ \A i \in Len(x) + 1 .. Len(u) : u[i] = l[i - Len(x)]
  BY <1>3, <1>4, OneAfterTheOther
<1>6. /\ v \in Seq(Nat) /\ Len(v) = Len(a) + Len(y)
      /\ \A i \in 1 .. Len(a) : v[i] = a[i]
      /\ \A i \in Len(a) + 1 .. Len(v) : v[i] = y[i - Len(a)]
  BY <1>3, <1>4, OneAfterTheOther
<1>7. Len(u) = Len(v) /\ Len(u) = Len(a) + Len(f) + Len(l)
  BY <1>1, <1>2, <1>5, <1>6
<1>8. ASSUME NEW i \in 1 .. Len(u)
      PROVE  u[i] = v[i]
  <2>1. CASE i <= Len(a)
    <3>1. i \in 1 .. Len(x) /\ i \in 1 .. Len(a)
      BY <1>1, <1>7, <2>1
    <3> QED BY <1>1, <1>5, <1>6, <3>1
  <2>2. CASE Len(a) < i /\ i <= Len(x)
    <3>1. /\ i \in 1 .. Len(x) /\ i \in Len(a) + 1 .. Len(x) /\ i \in Len(a) + 1 .. Len(v)
          /\ i - Len(a) \in 1 .. Len(f)
      BY <1>1, <1>2, <1>7, <2>2
    <3>2. u[i] = f[i - Len(a)] /\ v[i] = y[i - Len(a)]
      BY <1>1, <1>5, <1>6, <3>1
    <3>3. y[i - Len(a)] = f[i - Len(a)]
      BY <1>2, <3>1
    <3> QED BY <3>2, <3>3
  <2>3. CASE Len(x) < i
    <3>1. i \in Len(x) + 1 .. Len(u) /\ i \in Len(a) + 1 .. Len(v)
      BY <1>1, <1>7, <2>3
    <3>2. i - Len(a) \in Len(f) + 1 .. Len(y)
      BY <1>1, <1>2, <1>7, <2>3
    <3>3. (i - Len(a)) - Len(f) = i - Len(x)
      BY <1>1
    <3>4. u[i] = l[i - Len(x)] /\ v[i] = y[i - Len(a)]
      BY <1>5, <1>6, <3>1
    <3>5. y[i - Len(a)] = l[(i - Len(a)) - Len(f)]
      BY <1>2, <3>2
    <3> QED BY <3>4, <3>5, <3>3
  <2> QED BY <1>1, <2>1, <2>2, <2>3
<1>9. u = v
  BY <1>5, <1>6, <1>7, <1>8, SeqEqual
<1> QED BY <1>9 DEF u, v, x, y

(* The tokens of one who has been prefilled.                                 *)
LEMMA DecodedTokens ==
    ASSUME NEW q \in RequestType, NEW p, p # "prefilling", Stage(p, q)
    PROVE  /\ NumOf(p, q) \in Nat /\ NumOf(p, q) = Len(q.prompt) + Len(q.out) - 1
           /\ \A i \in 1 .. Len(q.prompt) : TokensOf(p, q)[i] = q.prompt[i]
           /\ \A i \in Len(q.prompt) + 1 .. NumOf(p, q) :
                 TokensOf(p, q)[i] = q.out[i - Len(q.prompt)]
BY TokenFacts

(* One token more.                                                           *)
GetsToken(q, u, x, p) ==
    /\ q \in RequestType /\ Stage("running", q) /\ Room("running", q)
    /\ Len(q.prompt) + Len(q.out) <= Capacity(q)
    /\ x \in Nat /\ u = [q EXCEPT !.out = Append(@, x)]
    /\ p \in {"running", "ended"} /\ (p = "running" => ~ (Len(q.out) + 1 >= MaxNew))

(* What it does to the request,                                              *)
LEMMA DecodesOne ==
    ASSUME NEW q, NEW u, NEW x, NEW p, GetsToken(q, u, x, p)
    PROVE  /\ u \in RequestType /\ u.table = q.table /\ u.offset = q.offset /\ u.prompt = q.prompt
           /\ u.out = Append(q.out, x) /\ Front(u.out) = q.out
           /\ TokensOf(p, u) = q.prompt \o q.out
           /\ TokensOf("running", q) \o <<Last(q.out)>> = q.prompt \o q.out
           /\ NumOf("running", q) \in Nat
           /\ NumOf(p, u) = NumOf("running", q) + 1
           /\ Grows(TokensOf("running", q), TokensOf(p, u))
           /\ Room(p, u) /\ Stage(p, u)
<1> DEFINE a == q.prompt
           o == q.out
           c == Len(a)
           d == Len(o)
<1> USE DEF GetsToken
<1>1. /\ a \in Seq(Nat) /\ o \in Seq(Nat) /\ q.table \in Seq(Blocks) /\ Capacity(q) \in Int
      /\ c \in Nat /\ d \in Nat
  BY Fields
<1>2. o # <<>> /\ (d = 1 \/ d < MaxNew) /\ d >= 1 /\ q.progress <= c
  BY <1>1 DEF Stage
<1>3. /\ Front(o) \o <<Last(o)>> = o
      /\ Append(o, x) \in Seq(Nat) /\ Append(o, x) # <<>> /\ Len(Append(o, x)) = d + 1
      /\ Front(Append(o, x)) = o
  <2> HIDE DEF o
  <2>1. /\ Front(o) \o <<Last(o)>> = o
        /\ Append(o, x) \in Seq(Nat) /\ Append(o, x) # <<>> /\ Len(Append(o, x)) = Len(o) + 1
        /\ Front(Append(o, x)) = o
    BY <1>1, <1>2, FrontAndLast
  <2> QED BY <2>1
<1>4. /\ u \in RequestType /\ u.table = q.table /\ u.offset = q.offset /\ u.prompt = a
      /\ u.out = Append(o, x) /\ u.progress = q.progress
  <2> DEFINE v == Append(o, x)
  <2>1. u = [q EXCEPT !.out = v] /\ v \in Seq(Nat)
    BY <1>3
  <2> HIDE DEF v
  <2>2. /\ u \in RequestType /\ u.table = q.table /\ u.offset = q.offset /\ u.prompt = q.prompt
        /\ u.out = v /\ u.progress = q.progress
    BY <2>1 DEF RequestType
  <2> QED BY <2>2 DEF v
<1>5. TokensOf(p, u) = a \o o
  BY <1>3, <1>4 DEF TokensOf
<1>6. TokensOf("running", q) \o <<Last(o)>> = a \o o
  <2>1. TokensOf("running", q) = a \o Front(o)
    BY DEF TokensOf
  <2>2. Front(o) \in Seq(Nat) /\ Last(o) \in Nat
    BY <1>2, OutTokens
  <2> DEFINE f == Front(o)
             l == <<Last(o)>>
  <2>3. f \in Seq(Nat) /\ l \in Seq(Nat)
    BY <2>2
  <2> HIDE DEF f, l, a, o
  <2>4. (a \o f) \o l = a \o (f \o l)
    <3>1. a \in Seq(Nat)
      BY <1>1
    <3> QED BY <2>3, <3>1, Regrouped, ZenonT(30)
  <2> QED BY <1>3, <2>1, <2>4 DEF f, l
<1>7. /\ Len(u.out) = d + 1 /\ MaxNew \in Nat
  BY <1>3, <1>4, Sizes
<1>8. Stage(p, u)
  <2>1. u.out # <<>>
    BY <1>3, <1>4
  <2>2. d + 1 <= 2 \/ d + 1 <= MaxNew
    <3> HIDE DEF d
    <3> QED BY <1>1, <1>2, <1>7
  <2>3. p = "running" => d + 1 < MaxNew
    <3> HIDE DEF d
    <3>1. p = "running" => ~ (d + 1 >= MaxNew)
      BY DEF d
    <3> QED BY <1>1, <1>7, <3>1
  <2> HIDE DEF d
  <2> QED BY <1>2, <1>4, <1>7, <2>1, <2>2, <2>3 DEF Stage
<1>9. /\ NumOf("running", q) \in Nat /\ NumOf("running", q) = c + d - 1
      /\ \A i \in 1 .. c : TokensOf("running", q)[i] = a[i]
      /\ \A i \in c + 1 .. NumOf("running", q) : TokensOf("running", q)[i] = o[i - c]
  BY TokenFacts
<1>10. /\ NumOf(p, u) \in Nat /\ NumOf(p, u) = c + Len(u.out) - 1
       /\ \A i \in 1 .. c : TokensOf(p, u)[i] = a[i]
       /\ \A i \in c + 1 .. NumOf(p, u) : TokensOf(p, u)[i] = u.out[i - c]
  <2>1. p # "prefilling"
    OBVIOUS
  <2> HIDE DEF GetsToken
  <2>2. /\ NumOf(p, u) \in Nat /\ NumOf(p, u) = Len(u.prompt) + Len(u.out) - 1
        /\ \A i \in 1 .. Len(u.prompt) : TokensOf(p, u)[i] = u.prompt[i]
        /\ \A i \in Len(u.prompt) + 1 .. NumOf(p, u) :
              TokensOf(p, u)[i] = u.out[i - Len(u.prompt)]
    BY <1>4, <1>8, <2>1, DecodedTokens, ZenonT(30)
  <2>3. u.prompt = a
    BY <1>4
  <2> HIDE DEF a
  <2> QED BY <2>2, <2>3
<1>11. NumOf(p, u) = NumOf("running", q) + 1 /\ NumOf(p, u) = c + d
  <2>1. NumOf(p, u) = c + Len(u.out) - 1 /\ NumOf("running", q) = c + d - 1
    BY <1>9, <1>10
  <2>2. c \in Nat /\ d \in Nat /\ Len(u.out) = d + 1
    BY <1>1, <1>7
  <2> HIDE DEF c, d, GetsToken
  <2> QED BY <2>1, <2>2
<1>12. \A i \in 1 .. d : u.out[i] = o[i]
  BY <1>1, <1>4, AppendProperties
<1>13. Grows(TokensOf("running", q), TokensOf(p, u))
  <2> DEFINE m == NumOf("running", q)
  <2>1. ASSUME NEW i \in 1 .. m
        PROVE  TokensOf(p, u)[i] = TokensOf("running", q)[i]
    <3> HIDE DEF c, d, a, o, m
    <3>1. m = c + d - 1
      BY <1>9 DEF m
    <3>2. CASE i <= c
      <4>1. i \in 1 .. c
        BY <1>1, <1>9, <2>1, <3>1, <3>2
      <4> QED BY <1>9, <1>10, <4>1
    <3>3. CASE ~ (i <= c)
      <4>1. i \in c + 1 .. m /\ i \in c + 1 .. NumOf(p, u) /\ i - c \in 1 .. d
        BY <1>1, <1>11, <2>1, <3>1, <3>3
      <4>2. TokensOf("running", q)[i] = o[i - c] /\ TokensOf(p, u)[i] = u.out[i - c]
        BY <1>9, <1>10, <4>1 DEF m
      <4> QED BY <1>12, <4>1, <4>2
    <3> QED BY <3>2, <3>3
  <2>2. NumOf("running", q) <= NumOf(p, u)
    BY <1>9, <1>11
  <2> QED BY <2>1, <2>2 DEF Grows, NumOf
<1>14. Room(p, u)
  <2>1. Capacity(u) = Capacity(q)
    BY <1>4, SamePlaces
  <2> QED BY <1>4, <1>11, <2>1 DEF Room
<1> QED BY <1>3, <1>4, <1>5, <1>6, <1>8, <1>9, <1>11, <1>13, <1>14

(* What the invariant says of one who runs.                                  *)
LEMMA RunningFacts ==
    ASSUME IInv, NEW r \in In("running")
    PROVE  /\ r \in Requests /\ r \in Holders /\ phase[r] = "running"
           /\ req[r] \in RequestType /\ Stage("running", req[r]) /\ Room("running", req[r])
           /\ NumOf("running", req[r]) \in Nat
           /\ r \in DOMAIN past /\ past[r] = NumOf("running", req[r])
<1>1. r \in Requests /\ r \in Holders /\ phase[r] = "running"
  BY DEF In, Holders, HasBlocks
<1>2. req[r] \in RequestType /\ Stage(phase[r], req[r]) /\ Room(phase[r], req[r])
      /\ NumOf(phase[r], req[r]) \in Nat
  BY <1>1, HolderFacts DEF IInv
<1>3. r \in DOMAIN past /\ past[r] = NumOf(phase[r], req[r])
  BY <1>1 DEF IInv, PastInv
<1> QED BY <1>1, <1>2, <1>3

(* What a row of a decode is computed from.                                  *)
LEMMA DecodeRow ==
    ASSUME IInv, NEW r \in In("running"), NEW width \in Int, NEW n, n = past[r],
           Len(req[r].prompt) + Len(req[r].out) <= Capacity(req[r])
    PROVE  Attend(Visible(PastColumns(req[r], n, width), n), <<Last(req[r].out)>>)
              = req[r].prompt \o req[r].out
<1> DEFINE t == TokensOf("running", req[r])
           l == <<Last(req[r].out)>>
<1>1. /\ r \in Holders /\ phase[r] = "running" /\ req[r] \in RequestType
      /\ Stage("running", req[r]) /\ n = NumOf(phase[r], req[r])
  BY RunningFacts
<1>2. t \in Seq(Nat) /\ n = Len(t)
  <2>1. TokensOf(phase[r], req[r]) \in Seq(Nat)
    BY <1>1, TokenFacts
  <2> QED BY <1>1, <2>1 DEF NumOf
<1>3. Visible(PastColumns(req[r], n, width), n) = [i \in 1 .. Len(t) |-> SubSeq(t, 1, i)]
  <2>1. LET m == NumOf(phase[r], req[r])
            u == TokensOf(phase[r], req[r])
        IN  \A v \in Int : Visible(PastColumns(req[r], m, v), m) = [k \in 1 .. m |-> SubSeq(u, 1, k)]
    BY <1>1, VisiblePast
  <2>2. Visible(PastColumns(req[r], n, width), n)
           = [k \in 1 .. n |-> SubSeq(TokensOf(phase[r], req[r]), 1, k)]
    BY <1>1, <2>1
  <2> QED BY <1>1, <1>2, <2>2
<1>4. l \in Seq(Nat)
  <2>1. Last(req[r].out) \in Nat
    BY <1>1, OutTokens DEF Stage
  <2> QED BY <2>1
<1>5. t \o l = req[r].prompt \o req[r].out
  <2> DEFINE a == req[r].prompt
             o == req[r].out
             f == Front(o)
  <2>1. a \in Seq(Nat) /\ f \in Seq(Nat) /\ o \in Seq(Nat) /\ o # <<>>
    BY <1>1, Fields, OutTokens DEF Stage
  <2>2. t = a \o f
    BY DEF TokensOf
  <2>3. f \o l = o
    BY <2>1, FrontAndLast
  <2> HIDE DEF a, f, o, t, l
  <2>4. (a \o f) \o l = a \o (f \o l)
    BY <1>4, <2>1, Regrouped, ZenonT(30)
  <2> QED BY <2>2, <2>3, <2>4 DEF a, o
<1> HIDE DEF t, l
<1>6. Attend([i \in 1 .. Len(t) |-> SubSeq(t, 1, i)], l) = t \o l
  BY <1>2, <1>4, Attending
<1> QED BY <1>3, <1>5, <1>6 DEF l

(* What a decode does to all but the pool, when next[r] is the next token of *)
(* r, for those in D, and the others get none.                               *)
Decodes(D, next) ==
    /\ D \subseteq In("running")
    /\ req' = [r \in Requests |-> req'[r]] /\ phase' = [r \in Requests |-> phase'[r]]
    /\ DOMAIN seen' = Requests /\ DOMAIN past' = DOMAIN past
    /\ \A r \in In("running") :
          Len(req[r].prompt) + Len(req[r].out) <= Capacity(req[r])
    /\ \A r \in D :
          /\ next[r] \in Nat /\ req'[r] = [req[r] EXCEPT !.out = Append(@, next[r])]
          /\ past'[r] = past[r] + 1 /\ seen'[r] = req[r].prompt \o req[r].out
          /\ \/ phase'[r] = "running" /\ ~ (Len(req[r].out) + 1 >= MaxNew)
             \/ phase'[r] = "ended"
    /\ \A r \in In("running") \ D : phase'[r] = "ended" /\ req'[r] = req[r]
    /\ \A r \in Requests \ In("running") :
          /\ phase'[r] = phase[r] /\ req'[r] = req[r]
          /\ r \in DOMAIN past => past'[r] = past[r]

(* and to the pool, if the KV of the token before was written: the invariant *)
(* is kept.                                                                  *)
LEMMA DecodesKeeps ==
    ASSUME IInv, NEW D, NEW next, Decodes(D, next),
           NEW new, kv' = Written(new), DOMAIN new = {<<r, past[r]>> : r \in D},
           \A r \in D : new[<<r, past[r]>>] = req[r].prompt \o req[r].out
    PROVE  IInv' /\ WrittenOnce
<1>1. ASSUME NEW r \in D
      PROVE  /\ r \in In("running") /\ r \in Requests /\ r \in Holders /\ phase[r] = "running"
             /\ req[r] \in RequestType /\ Stage("running", req[r]) /\ Room("running", req[r])
             /\ NumOf("running", req[r]) \in Nat
             /\ r \in DOMAIN past /\ past[r] = NumOf("running", req[r])
  BY RunningFacts DEF Decodes
<1>2. ASSUME NEW r \in D
      PROVE  /\ req'[r] \in RequestType /\ phase'[r] \in {"running", "ended"}
             /\ req'[r].table = req[r].table /\ req'[r].offset = req[r].offset
             /\ req'[r].prompt = req[r].prompt
             /\ Front(req'[r].out) = req[r].out
             /\ TokensOf(phase'[r], req'[r]) = req[r].prompt \o req[r].out
             /\ NumOf(phase'[r], req'[r]) = NumOf("running", req[r]) + 1
             /\ Grows(TokensOf("running", req[r]), TokensOf(phase'[r], req'[r]))
             /\ Room(phase'[r], req'[r]) /\ Stage(phase'[r], req'[r])
  <2> DEFINE q == req[r]
             u == req'[r]
             x == next[r]
             p == phase'[r]
  <2>1. q \in RequestType /\ Stage("running", q) /\ Room("running", q)
    BY <1>1
  <2>2. Len(q.prompt) + Len(q.out) <= Capacity(q)
    BY <1>1 DEF Decodes
  <2>3. /\ x \in Nat /\ u = [q EXCEPT !.out = Append(@, x)] /\ p \in {"running", "ended"}
        /\ p = "running" => ~ (Len(q.out) + 1 >= MaxNew)
    BY DEF Decodes
  <2> HIDE DEF q, u, x, p
  <2>4. /\ u \in RequestType /\ u.table = q.table /\ u.offset = q.offset /\ u.prompt = q.prompt
        /\ Front(u.out) = q.out
        /\ TokensOf(p, u) = q.prompt \o q.out
        /\ NumOf(p, u) = NumOf("running", q) + 1
        /\ Grows(TokensOf("running", q), TokensOf(p, u))
        /\ Room(p, u) /\ Stage(p, u)
    <3>1. GetsToken(q, u, x, p)
      BY <2>1, <2>2, <2>3, Zenon DEF GetsToken
    <3> QED BY <3>1, DecodesOne
  <2> QED BY <2>3, <2>4 DEF q, u, p
<1>3. ASSUME NEW r \in D
       PROVE  /\ r \in Holders /\ past[r] \in Nat /\ NumOf(phase[r], req[r]) = past[r]
              /\ NumOf(phase'[r], req'[r]) = past[r] + 1
  <2>1. /\ r \in Holders /\ phase[r] = "running" /\ NumOf("running", req[r]) \in Nat
        /\ past[r] = NumOf("running", req[r])
    BY <1>1
  <2>2. NumOf(phase'[r], req'[r]) = NumOf("running", req[r]) + 1
    BY <1>2
  <2> QED BY <2>1, <2>2
<1>4. ASSUME NEW r \in In("running"), r \notin D
      PROVE  phase'[r] = "ended" /\ req'[r] = req[r] /\ phase[r] = "running" /\ r \in Requests
  BY <1>4, RunningFacts DEF Decodes
<1>5. ASSUME NEW r \in Requests, r \notin In("running")
      PROVE  /\ phase'[r] = phase[r] /\ req'[r] = req[r] /\ phase[r] # "running" /\ r \notin D
             /\ r \in DOMAIN past => past'[r] = past[r]
  <2>1. phase[r] # "running"
    BY <1>5 DEF In
  <2> QED BY <1>5, <2>1 DEF Decodes
<1>6. TypeInv'
  <2>1. \A r \in Requests : req'[r] \in RequestType /\ phase'[r] \in Phases
    <3> TAKE r \in Requests
    <3>1. req[r] \in RequestType /\ phase[r] \in Phases
      BY DEF IInv, TypeInv
    <3> QED BY <1>2, <1>4, <1>5, <3>1 DEF Phases
  <2>2. req' \in [Requests -> RequestType] /\ phase' \in [Requests -> Phases]
    BY <2>1 DEF Decodes
  <2>3. DOMAIN seen' = Requests /\ DOMAIN past' \subseteq Requests
    BY DEF Decodes, IInv, TypeInv
  <2> QED BY <2>2, <2>3 DEF TypeInv
<1>7. \A r \in Requests : phase'[r] \in HasBlocks <=> phase[r] \in HasBlocks
  <2> TAKE r \in Requests
  <2>1. CASE r \in D
    BY <1>1, <1>2, <2>1 DEF HasBlocks
  <2>2. CASE r \in In("running") /\ r \notin D
    BY <1>4, <2>2 DEF HasBlocks
  <2>3. CASE r \notin In("running")
    BY <1>5, <2>3
  <2> QED BY <2>1, <2>2, <2>3
<1>8. Holders' = Holders
  BY <1>7 DEF Holders
<1>9. ASSUME NEW r \in Holders, r \notin D
      PROVE  /\ r \in Requests /\ req'[r] = req[r]
             /\ phase'[r] = phase[r] \/ (phase[r] = "running" /\ phase'[r] = "ended")
  <2>1. r \in Requests
    BY DEF Holders
  <2> QED BY <1>4, <1>5, <1>9, <2>1
<1>10. ASSUME NEW r \in Holders, r \notin D
      PROVE  /\ TokensOf(phase'[r], req'[r]) = TokensOf(phase[r], req[r])
             /\ NumOf(phase'[r], req'[r]) = NumOf(phase[r], req[r])
             /\ NumOf(phase[r], req[r]) \in Nat
             /\ Room(phase'[r], req'[r]) /\ Stage(phase'[r], req'[r])
  <2>1. /\ Room(phase[r], req[r]) /\ Stage(phase[r], req[r])
        /\ NumOf(phase[r], req[r]) \in Nat
    BY HolderFacts DEF IInv
  <2>2. CASE phase'[r] = phase[r]
    BY <1>9, <1>10, <2>1, <2>2
  <2>3. CASE phase[r] = "running" /\ phase'[r] = "ended"
    <3>1. TokensOf("ended", req[r]) = TokensOf("running", req[r])
      BY DEF TokensOf
    <3>2. NumOf("ended", req[r]) = NumOf("running", req[r])
      BY <3>1 DEF NumOf
    <3>3. Room("ended", req[r]) /\ Stage("ended", req[r])
      BY <2>1, <2>3, <3>2 DEF Room, Stage
    <3> QED BY <1>9, <1>10, <2>1, <2>3, <3>1, <3>2, <3>3
  <2> QED BY <1>9, <1>10, <2>2, <2>3
<1>11. HoldersInv'
  <2> SUFFICES ASSUME NEW r \in Holders
               PROVE  Room(phase'[r], req'[r]) /\ Stage(phase'[r], req'[r])
    BY <1>8 DEF HoldersInv
  <2> QED BY <1>2, <1>10
<1>12. NobodyInv'
  <2> SUFFICES ASSUME NEW r \in Requests
               PROVE  /\ phase'[r] = "new" => r \notin DOMAIN past'
                      /\ r \notin Holders => req'[r] = NoRequest
    BY <1>8 DEF NobodyInv
  <2>1. DOMAIN past' = DOMAIN past
    BY DEF Decodes
  <2>2. CASE r \in D
    BY <1>1, <1>2, <2>2
  <2>3. CASE r \in In("running") /\ r \notin D
    BY <1>4, <2>3, RunningFacts
  <2>4. CASE r \notin In("running")
    BY <1>5, <2>1, <2>4 DEF IInv, NobodyInv
  <2> QED BY <2>2, <2>3, <2>4
<1>13. PastInv'
  <2> SUFFICES ASSUME NEW r \in Requests
               PROVE  /\ phase'[r] = "running" =>
                            r \in DOMAIN past' /\ past'[r] = NumOf(phase'[r], req'[r])
                      /\ phase'[r] = "prefilling" /\ r \notin DOMAIN past' => AtBlockEnd(req'[r])
    BY DEF PastInv
  <2>1. DOMAIN past' = DOMAIN past
    BY DEF Decodes
  <2>2. CASE r \in D
    <3>1. past'[r] = past[r] + 1
      BY <2>2 DEF Decodes
    <3> QED BY <1>1, <1>2, <2>1, <2>2, <3>1
  <2>3. CASE r \in In("running") /\ r \notin D
    BY <1>4, <2>3
  <2>4. CASE r \notin In("running")
    BY <1>5, <2>1, <2>4 DEF IInv, PastInv
  <2> QED BY <2>2, <2>3, <2>4
<1>14. DecodesFromAllTokens'
  <2> SUFFICES ASSUME NEW r \in Requests, phase'[r] = "running"
               PROVE  seen'[r] = req'[r].prompt \o Front(req'[r].out)
    BY DEF DecodesFromAllTokens, In
  <2>1. r \in D
    BY <1>4, <1>5
  <2>2. seen'[r] = req[r].prompt \o req[r].out
    BY <2>1 DEF Decodes
  <2> QED BY <1>2, <2>1, <2>2
<1>15. \A r \in Holders : Grows(TokensOf(phase[r], req[r]), TokensOf(phase'[r], req'[r]))
  <2> TAKE r \in Holders
  <2>1. CASE r \in D
    BY <1>1, <1>2, <2>1
  <2>2. CASE r \notin D
    BY <1>10, <2>2 DEF Grows, NumOf
  <2> QED BY <2>1, <2>2
<1>16. DOMAIN new = {w \in Holders \X Nat : /\ NumOf(phase[w[1]], req[w[1]]) <= w[2]
                                            /\ w[2] < NumOf(phase'[w[1]], req'[w[1]])}
  <2> DEFINE E == {w \in Holders \X Nat : /\ NumOf(phase[w[1]], req[w[1]]) <= w[2]
                                          /\ w[2] < NumOf(phase'[w[1]], req'[w[1]])}
  <2>1. ASSUME NEW w \in DOMAIN new
        PROVE  w \in E
    <3>1. PICK r \in D : w = <<r, past[r]>>
      OBVIOUS
    <3>2. /\ r \in Holders /\ past[r] \in Nat /\ NumOf(phase[r], req[r]) <= past[r]
          /\ past[r] < NumOf(phase'[r], req'[r])
      BY <1>3
    <3> QED BY <3>1, <3>2
  <2>2. ASSUME NEW w \in E
        PROVE  w \in DOMAIN new
    <3>1. PICK r \in Holders, i \in Nat : w = <<r, i>>
      OBVIOUS
    <3>2. NumOf(phase[r], req[r]) <= i /\ i < NumOf(phase'[r], req'[r])
      BY <3>1
    <3>3. r \in D
      BY <1>10, <3>2
    <3>4. i = past[r]
      <4>1. /\ past[r] \in Nat /\ NumOf(phase[r], req[r]) = past[r]
            /\ NumOf(phase'[r], req'[r]) = past[r] + 1
        BY <1>3, <3>3
      <4> QED BY <3>2, <4>1
    <3> QED BY <3>1, <3>3, <3>4
  <2> QED BY <2>1, <2>2
<1>17. \A w \in DOMAIN new : new[w] = SubSeq(TokensOf(phase'[w[1]], req'[w[1]]), 1, w[2] + 1)
  <2> TAKE w \in DOMAIN new
  <2>1. PICK r \in D : w = <<r, past[r]>>
    OBVIOUS
  <2> DEFINE t == TokensOf(phase'[r], req'[r])
  <2>2. new[w] = t
    BY <1>2, <2>1
  <2>3. t \in Seq(Nat) /\ Len(t) = past[r] + 1
    <3>1. t \in Seq(Nat)
      BY <1>2, TokenFacts
    <3>2. Len(t) = NumOf(phase'[r], req'[r])
      BY DEF NumOf
    <3> QED BY <1>1, <1>2, <3>1, <3>2
  <2> HIDE DEF t
  <2>4. SubSeq(t, 1, Len(t)) = t
    BY <2>3, SubSeqFull
  <2>5. w[1] = r /\ w[2] + 1 = Len(t)
    BY <2>1, <2>3
  <2> QED BY <2>2, <2>4, <2>5 DEF t
<1>18. \A r \in Requests : /\ req'[r].table = req[r].table /\ req'[r].offset = req[r].offset
  BY <1>2, <1>4, <1>5
<1>19. Proceeds(new)
  BY <1>7, <1>15, <1>16, <1>17, <1>18 DEF Proceeds
<1>20. Wrote(new)
  <2> DEFINE W == DOMAIN new
  <2>1. ASSUME NEW w \in W
        PROVE  /\ w \in Holders \X Nat /\ NumOf(phase[w[1]], req[w[1]]) <= w[2]
               /\ w[2] < Capacity(req[w[1]])
    <3>1. PICK r \in D : w = <<r, past[r]>>
      OBVIOUS
    <3>2. /\ r \in Holders /\ past[r] \in Nat /\ NumOf(phase[r], req[r]) <= past[r]
          /\ NumOf(phase'[r], req'[r]) = past[r] + 1
      BY <1>3
    <3>3. past[r] + 1 <= Capacity(req'[r]) /\ Capacity(req'[r]) \in Int
      BY <1>2, <3>2, Fields DEF Room
    <3>4. Capacity(req'[r]) = Capacity(req[r])
      BY <1>2, SamePlaces
    <3>5. past[r] < Capacity(req[r])
      BY <3>2, <3>3, <3>4
    <3> QED BY <3>1, <3>2, <3>5
  <2>2. W \in SUBSET (Holders \X Nat)
    BY <2>1
  <2> HIDE DEF W
  <2>3. /\ \A w \in W : \E b \in Blocks, s \in Slots : At(w) = <<b, s>>
        /\ \A v, w \in W : At(v) = At(w) => v = w
    BY <2>1, <2>2, NewPlaces
  <2>4. /\ \A w \in DOMAIN new : \E b \in Blocks, s \in Slots : At(w) = <<b, s>>
        /\ \A v, w \in DOMAIN new : At(v) = At(w) => v = w
    BY <2>3 DEF W
  <2> QED BY <2>4, WrittenWrote
<1>21. PoolInv' /\ HoldsInv' /\ BlankInv' /\ SharedInv' /\ WrittenOnce
  BY <1>6, <1>11, <1>19, <1>20, WritingKeeps DEF IInv
<1> QED BY <1>6, <1>11, <1>12, <1>13, <1>14, <1>21 DEF IInv

(* batch_decode, whoever ends with it.                                       *)
LEMMA DecodeStep == IInv /\ Decode => IInv' /\ WrittenOnce
<1> SUFFICES ASSUME IInv, Decode PROVE IInv' /\ WrittenOnce
  OBVIOUS
<1> DEFINE R == In("running")
           width == MaxOver(R, past)
           Row(r) == Attend(Visible(PastColumns(req[r], past[r], width), past[r]),
                            <<Last(req[r].out)>>)
<1>1. /\ \A r \in R : Len(req[r].prompt) + Len(req[r].out) <= Capacity(req[r])
      /\ seen' = [r \in Requests |-> IF r \in R THEN Row(r) ELSE seen[r]]
  BY DEF Decode
<1>2. PICK next \in [R -> Vocabulary \cup {None}] :
        /\ kv' = Written([w \in {<<r, past[r]>> : r \in {q \in R : next[q] # None}} |-> Row(w[1])])
        /\ past' = Advanced(R, next)
        /\ req' = [r \in Requests |->
                      IF r \in R /\ next[r] # None
                      THEN [req[r] EXCEPT !.out = Append(@, next[r])] ELSE req[r]]
        /\ phase' = [r \in Requests |-> IF r \in Ends(R, next) THEN "ended" ELSE phase[r]]
  BY DEF Decode
<1> DEFINE D == {q \in R : next[q] # None}
           new == [w \in {<<r, past[r]>> : r \in D} |-> Row(w[1])]
<1>3. ASSUME NEW r \in R
      PROVE  r \in Requests /\ r \in DOMAIN past /\ past[r] \in Int /\ phase[r] = "running"
  BY RunningFacts
<1>4. width \in Int
  <2>1. R \in SUBSET Requests
    BY <1>3
  <2> HIDE DEF R
  <2> QED BY <1>3, <2>1, WidthIsNumber
<1>5. \A r \in R : Row(r) = req[r].prompt \o req[r].out
  <2> TAKE r \in R
  <2>1. Len(req[r].prompt) + Len(req[r].out) <= Capacity(req[r])
    BY <1>1
  <2> HIDE DEF width
  <2> QED BY <1>4, <2>1, DecodeRow
<1> HIDE DEF Row, width
<1>6. Decodes(D, next)
  <2>1. D \subseteq R
    OBVIOUS
  <2>2. req' = [r \in Requests |-> req'[r]] /\ phase' = [r \in Requests |-> phase'[r]]
    BY <1>2
  <2>3. DOMAIN seen' = Requests /\ DOMAIN past' = DOMAIN past
    BY <1>1, <1>2 DEF Advanced
  <2>4. ASSUME NEW r \in D
        PROVE  /\ next[r] \in Nat /\ req'[r] = [req[r] EXCEPT !.out = Append(@, next[r])]
               /\ past'[r] = past[r] + 1 /\ seen'[r] = req[r].prompt \o req[r].out
               /\ \/ phase'[r] = "running" /\ ~ (Len(req[r].out) + 1 >= MaxNew)
                  \/ phase'[r] = "ended"
    <3>1. r \in R /\ next[r] # None /\ r \in Requests /\ r \in DOMAIN past /\ phase[r] = "running"
      BY <1>3
    <3>2. next[r] \in Nat
      BY <1>2, <3>1, BackendAssumption
    <3>3. req'[r] = [req[r] EXCEPT !.out = Append(@, next[r])]
      <4> HIDE DEF R
      <4> QED BY <1>2, <3>1, Zenon
    <3>4. past'[r] = past[r] + 1
      BY <1>2, <3>1 DEF Advanced
    <3>5. seen'[r] = req[r].prompt \o req[r].out
      BY <1>1, <1>5, <3>1
    <3>6. \/ phase'[r] = "running" /\ ~ (Len(req[r].out) + 1 >= MaxNew)
          \/ phase'[r] = "ended"
      BY <1>2, <3>1 DEF Ends
    <3> QED BY <3>2, <3>3, <3>4, <3>5, <3>6
  <2>5. ASSUME NEW r \in R, r \notin D
        PROVE  phase'[r] = "ended" /\ req'[r] = req[r]
    <3>1. next[r] = None /\ r \in Requests
      BY <1>3, <2>5
    <3>2. req'[r] = req[r]
      <4> HIDE DEF R
      <4> QED BY <1>2, <3>1, Zenon
    <3>3. r \in Ends(R, next)
      BY <2>5, <3>1 DEF Ends
    <3> QED BY <1>2, <3>1, <3>2, <3>3
  <2>6. ASSUME NEW r \in Requests, r \notin R
        PROVE  /\ phase'[r] = phase[r] /\ req'[r] = req[r]
               /\ r \in DOMAIN past => past'[r] = past[r]
    <3>1. req'[r] = req[r]
      <4> HIDE DEF R
      <4> QED BY <1>2, <2>6, Zenon
    <3>2. r \notin Ends(R, next)
      BY <2>6 DEF Ends
    <3> QED BY <1>2, <2>6, <3>1, <3>2 DEF Advanced
  <2>7. \A r \in R : Len(req[r].prompt) + Len(req[r].out) <= Capacity(req[r])
    BY <1>1
  <2> HIDE DEF D
  <2> QED BY <2>1, <2>2, <2>3, <2>4, <2>5, <2>6, <2>7, Zenon DEF Decodes
<1>7. kv' = Written(new)
  BY <1>2
<1>8. DOMAIN new = {<<r, past[r]>> : r \in D}
  OBVIOUS
<1>9. \A r \in D : new[<<r, past[r]>>] = req[r].prompt \o req[r].out
  <2> TAKE r \in D
  <2>1. new[<<r, past[r]>>] = Row(r)
    OBVIOUS
  <2> QED BY <1>5, <2>1
<1> HIDE DEF new, D
<1> QED BY <1>6, <1>7, <1>8, <1>9, DecodesKeeps

-----------------------------------------------------------------------------
(* The engine: what it does to the tables.                                   *)
InTable(q, b) == \E i \in DOMAIN q.table : q.table[i] = b

(* A block is in use if it is in a table.                                    *)
LEMMA BlocksInUse ==
    /\ \A b : b \in InUse <=> \E r \in Requests : InTable(req[r], b)
    /\ \A b : b \in InUse' <=> \E r \in Requests : InTable(req'[r], b)
BY DEF InUse, ToSet, InTable

(* Request r is admitted as q: its table begins with blocks that hold the    *)
(* KV of its first tokens, whoever else has them, and the others are free.   *)
Admits(r, q) ==
    /\ r \in Requests /\ phase[r] = "new"
    /\ req' = [req EXCEPT ![r] = q] /\ phase' = [phase EXCEPT ![r] = "prefilling"]
    /\ kv' = kv /\ past' = past /\ seen' = seen
    /\ q \in RequestType /\ q.out = <<>> /\ q.prompt # <<>> /\ IsInjective(q.table)
    /\ q.progress <= Len(q.prompt) /\ Len(q.prompt) <= Capacity(q) /\ AtBlockEnd(q)
    /\ \A i \in Nat : i < q.progress => Stands(kv, q, SubSeq(q.prompt, 1, q.progress), i)
    /\ \A i \in Nat : q.progress <= i /\ i < Capacity(q) => Blank(kv, q, i)
    /\ \A o \in Holders : \A i \in DOMAIN q.table : \A j \in DOMAIN req[o].table :
          q.table[i] = req[o].table[j] => /\ After(q, i) <= q.progress
                                          /\ After(req[o], j) <= NumOf(phase[o], req[o])

(* Admission keeps the invariant.                                            *)
LEMMA AdmitsKeeps ==
    ASSUME IInv, NEW r, NEW q, Admits(r, q)
    PROVE  IInv' /\ WrittenOnce
<1>1. /\ r \in Requests /\ req'[r] = q /\ phase'[r] = "prefilling" /\ kv' = kv
      /\ past' = past /\ seen' = seen /\ phase[r] = "new"
      /\ \A o \in Requests : o # r => req'[o] = req[o] /\ phase'[o] = phase[o]
  BY DEF Admits, IInv, TypeInv
<1>2. r \notin Holders /\ Holders' = Holders \cup {r}
  BY <1>1 DEF Holders, HasBlocks
<1>3. /\ q \in RequestType /\ q.prompt \in Seq(Nat) /\ q.progress \in Nat /\ Len(q.prompt) \in Nat
      /\ q.progress <= Len(q.prompt) /\ Len(q.prompt) <= Capacity(q) /\ Capacity(q) \in Int
  BY Fields DEF Admits
<1>4. /\ TokensOf("prefilling", q) = SubSeq(q.prompt, 1, q.progress)
      /\ NumOf("prefilling", q) = q.progress
  <2>1. q.progress \in 0 .. Len(q.prompt)
    BY <1>3
  <2>2. TokensOf("prefilling", q) = SubSeq(q.prompt, 1, q.progress)
    BY DEF TokensOf
  <2> QED BY <1>3, <2>1, <2>2, Beginnings DEF NumOf
<1>5. \A o \in Holders : o \in Requests /\ o # r /\ req'[o] = req[o] /\ phase'[o] = phase[o]
  BY <1>1, <1>2 DEF Holders
<1>6. TypeInv'
  BY <1>1, <1>3 DEF Admits, IInv, TypeInv, Phases
<1>7. PoolInv'
  <2>1. ASSUME NEW b \in DOMAIN kv
        PROVE  b \in InUse'
    <3>1. PICK o \in Requests : InTable(req[o], b)
      BY BlocksInUse DEF IInv, PoolInv
    <3>2. req[r].table = <<>>
      BY <1>1, <1>2 DEF IInv, NobodyInv, NoRequest
    <3>3. o # r
      BY <3>1, <3>2 DEF InTable
    <3> QED BY <1>1, <3>1, <3>3, BlocksInUse
  <2> QED BY <1>1, <2>1 DEF IInv, PoolInv
<1>8. NobodyInv'
  <2> SUFFICES ASSUME NEW o \in Requests
               PROVE  /\ phase'[o] = "new" => o \notin DOMAIN past'
                      /\ o \notin Holders' => req'[o] = NoRequest
    BY DEF NobodyInv
  <2> QED BY <1>1, <1>2 DEF IInv, NobodyInv
<1>9. HoldersInv'
  <2>1. Room("prefilling", q) /\ Stage("prefilling", q)
    BY <1>3, <1>4 DEF Admits, Room, Stage
  <2>2. \A o \in Holders' : Room(phase'[o], req'[o]) /\ Stage(phase'[o], req'[o])
    BY <1>1, <1>2, <1>5, <2>1 DEF IInv, HoldersInv
  <2> QED BY <2>2 DEF HoldersInv
<1>10. PastInv'
  <2> SUFFICES ASSUME NEW o \in Requests
               PROVE  /\ phase'[o] = "running" =>
                            o \in DOMAIN past' /\ past'[o] = NumOf(phase'[o], req'[o])
                      /\ phase'[o] = "prefilling" /\ o \notin DOMAIN past' => AtBlockEnd(req'[o])
    BY DEF PastInv
  <2>1. CASE o = r
    BY <1>1, <2>1 DEF Admits
  <2>2. CASE o # r
    BY <1>1, <2>2 DEF IInv, PastInv
  <2> QED BY <2>1, <2>2
<1>11. HoldsInv'
  <2>1. ASSUME NEW o \in Holders', NEW i \in Nat, i < NumOf(phase'[o], req'[o])
        PROVE  Stands(kv', req'[o], TokensOf(phase'[o], req'[o]), i)
    <3>1. CASE o = r
      <4>1. i < q.progress
        BY <1>1, <1>4, <2>1, <3>1
      <4>2. Stands(kv, q, SubSeq(q.prompt, 1, q.progress), i)
        BY <4>1 DEF Admits
      <4> QED BY <1>1, <1>4, <3>1, <4>2
    <3>2. CASE o # r
      <4>1. o \in Holders
        BY <1>2, <3>2
      <4> QED BY <1>1, <1>5, <2>1, <4>1 DEF IInv, HoldsInv
    <3> QED BY <3>1, <3>2
  <2> QED BY <2>1 DEF HoldsInv
<1>12. BlankInv'
  <2>1. ASSUME NEW o \in Holders', NEW i \in Nat,
               NumOf(phase'[o], req'[o]) <= i, i < Capacity(req'[o])
        PROVE  Blank(kv', req'[o], i)
    <3>1. CASE o = r
      <4>1. q.progress <= i /\ i < Capacity(q)
        BY <1>1, <1>4, <2>1, <3>1
      <4>2. Blank(kv, q, i)
        BY <4>1 DEF Admits
      <4> QED BY <1>1, <3>1, <4>2
    <3>2. CASE o # r
      <4>1. o \in Holders
        BY <1>2, <3>2
      <4> QED BY <1>1, <1>5, <2>1, <4>1 DEF IInv, BlankInv
    <3> QED BY <3>1, <3>2
  <2> QED BY <2>1 DEF BlankInv, Capacity
<1>13. SharedInv'
  <2>1. ASSUME NEW o \in Holders', NEW u \in Holders', o # u,
               NEW i \in DOMAIN req'[o].table, NEW j \in DOMAIN req'[u].table,
               req'[o].table[i] = req'[u].table[j]
        PROVE  After(req'[o], i) <= NumOf(phase'[o], req'[o])
    <3>1. CASE o = r
      <4>1. u \in Holders
        BY <1>2, <2>1, <3>1
      <4>2. i \in DOMAIN q.table /\ j \in DOMAIN req[u].table /\ q.table[i] = req[u].table[j]
        BY <1>1, <1>5, <2>1, <3>1, <4>1
      <4>3. After(q, i) <= q.progress
        BY <4>1, <4>2 DEF Admits
      <4> QED BY <1>1, <1>4, <3>1, <4>3
    <3>2. CASE o # r /\ u = r
      <4>1. o \in Holders
        BY <1>2, <3>2
      <4>2. j \in DOMAIN q.table /\ i \in DOMAIN req[o].table /\ q.table[j] = req[o].table[i]
        BY <1>1, <1>5, <2>1, <3>2, <4>1
      <4>3. After(req[o], i) <= NumOf(phase[o], req[o])
        BY <4>1, <4>2 DEF Admits
      <4> QED BY <1>5, <4>1, <4>3
    <3>3. CASE o # r /\ u # r
      <4>1. o \in Holders /\ u \in Holders
        BY <1>2, <3>3
      <4> QED BY <1>5, <2>1, <4>1 DEF IInv, SharedInv
    <3> QED BY <3>1, <3>2, <3>3
  <2> QED BY <2>1 DEF SharedInv, After
<1>14. DecodesFromAllTokens'
  <2> SUFFICES ASSUME NEW o \in Requests, phase'[o] = "running", Len(req'[o].out) > 1
               PROVE  seen'[o] = req'[o].prompt \o Front(req'[o].out)
    BY DEF DecodesFromAllTokens, In
  <2>1. o # r
    BY <1>1
  <2> QED BY <1>1, <2>1 DEF IInv, DecodesFromAllTokens, In
<1>15. WrittenOnce
  BY <1>1 DEF WrittenOnce
<1> QED BY <1>6, <1>7, <1>8, <1>9, <1>10, <1>11, <1>12, <1>13, <1>14, <1>15 DEF IInv

(* The free blocks of an admission are different ones.                       *)
LEMMA FreeBlocks ==
    ASSUME NEW n \in Nat, NEW F \in SUBSET Blocks, NEW s \in [1 .. n -> F],
           Cardinality(ToSet(s)) = n
    PROVE  s \in Seq(Blocks) /\ Len(s) = n /\ IsInjective(s) /\ \A i \in 1 .. n : s[i] \in F
<1>1. s \in Surjection(1 .. n, ToSet(s))
  BY DEF Surjection, ToSet
<1>2. IsFiniteSet(1 .. n) /\ Cardinality(1 .. n) = n
  <2>1. IsFiniteSet(1 .. n) /\ Cardinality(1 .. n) = IF 1 > n THEN 0 ELSE n - 1 + 1
    BY FS_Interval
  <2> QED BY <2>1
<1>3. s \in Injection(1 .. n, ToSet(s))
  BY <1>1, <1>2, FS_SurjSameCardinalityImpliesInj
<1>4. IsInjective(s)
  BY <1>3 DEF Injection, IsInjective
<1> QED BY <1>4

(* A request that begins with k blocks of others, full of the KV of its      *)
(* first tokens, and goes on with free blocks.                               *)
BeginsWith(q, k, reused, s, n) ==
    /\ k \in Nat /\ reused \in Seq(Blocks) /\ Len(reused) = k
    /\ IsInjective(reused) /\ \A i \in 1 .. k : reused[i] \in InUse
    /\ n \in Nat /\ s \in [1 .. n -> Blocks \ InUse] /\ Cardinality(ToSet(s)) = n
    /\ q.offset \in Slots
    /\ q = [prompt |-> q.prompt, table |-> reused \o s, offset |-> q.offset,
            progress |-> IF k = 0 THEN 0 ELSE (k * BlockSize) - q.offset, out |-> <<>>]

(* Its table repeats no block, since what is reused was in a table and what  *)
(* is free in none; and what it reuses ends with a block.                    *)
LEMMA TableOf ==
    ASSUME NEW q, NEW k, NEW reused, NEW s, NEW n, BeginsWith(q, k, reused, s, n),
           q.prompt \in Seq(Nat)
    PROVE  /\ q \in RequestType /\ IsInjective(q.table) /\ q.out = <<>>
           /\ Len(q.table) = k + n /\ k \in Nat
           /\ \A i \in 1 .. k : q.table[i] = reused[i]
           /\ \A i \in DOMAIN q.table : q.table[i] \in InUse <=> i <= k
           /\ q.progress = Upto(q, k) /\ AtBlockEnd(q)
<1> USE DEF BeginsWith
<1>1. s \in Seq(Blocks) /\ Len(s) = n /\ IsInjective(s) /\ \A i \in 1 .. n : s[i] \in Blocks \ InUse
  <2> DEFINE F == Blocks \ InUse
  <2>1. F \in SUBSET Blocks /\ n \in Nat /\ s \in [1 .. n -> F] /\ Cardinality(ToSet(s)) = n
    OBVIOUS
  <2> HIDE DEF F
  <2>2. s \in Seq(Blocks) /\ Len(s) = n /\ IsInjective(s) /\ \A i \in 1 .. n : s[i] \in F
    BY <2>1, FreeBlocks
  <2> QED BY <2>2 DEF F
<1>2. /\ q.table = reused \o s /\ q.out = <<>> /\ q.offset \in Slots
      /\ q.progress = IF k = 0 THEN 0 ELSE (k * BlockSize) - q.offset
  <2> DEFINE p == q.prompt
             t == reused \o s
             o == q.offset
             g == IF k = 0 THEN 0 ELSE (k * BlockSize) - q.offset
  <2>1. q = [prompt |-> p, table |-> t, offset |-> o, progress |-> g, out |-> <<>>]
    OBVIOUS
  <2> HIDE DEF p, t, o, g
  <2>2. q.table = t /\ q.out = <<>> /\ q.progress = g
    BY <2>1
  <2> QED BY <2>2 DEF t, g
<1>3. q.progress = Upto(q, k)
  BY <1>2 DEF Upto, After
<1>4. q.progress \in Nat
  <2> DEFINE x == k * BlockSize
             y == 1 * BlockSize
  <2>1. k \in Nat /\ q.offset \in Nat /\ q.offset < BlockSize /\ BlockSize \in Nat
    BY <1>2, Sizes DEF Slots
  <2>2. CASE k = 0
    BY <1>2, <2>2
  <2>3. CASE k # 0
    <3>1. x \in Nat /\ y = BlockSize
      BY <2>1, DivisionBounds
    <3>2. y <= x
      <4>1. 1 \in Nat /\ 1 <= k
        BY <2>1, <2>3
      <4> QED BY <2>1, <4>1, Multiples
    <3>3. q.progress = x - q.offset
      BY <1>2, <2>3
    <3> HIDE DEF x, y
    <3> QED BY <2>1, <3>1, <3>2, <3>3
  <2> QED BY <2>2, <2>3
<1>5. /\ reused \o s \in Seq(Blocks) /\ Len(reused \o s) = k + n
      /\ \A i \in 1 .. k + n : (reused \o s)[i] = IF i <= k THEN reused[i] ELSE s[i - k]
  <2>1. reused \in Seq(Blocks) /\ Len(reused) = k
    OBVIOUS
  <2> HIDE DEF BeginsWith
  <2>2. /\ reused \o s \in Seq(Blocks) /\ Len(reused \o s) = Len(reused) + Len(s)
        /\ \A i \in 1 .. Len(reused) + Len(s) :
              (reused \o s)[i] = IF i <= Len(reused) THEN reused[i] ELSE s[i - Len(reused)]
    BY <1>1, <2>1, ConcatProperties, Zenon
  <2> QED BY <1>1, <2>1, <2>2
<1>6. q \in RequestType
  <2> DEFINE p == q.prompt
             t == reused \o s
             o == q.offset
             g == IF k = 0 THEN 0 ELSE (k * BlockSize) - q.offset
  <2>1. q = [prompt |-> p, table |-> t, offset |-> o, progress |-> g, out |-> <<>>]
    OBVIOUS
  <2>2. p \in Seq(Nat) /\ t \in Seq(Blocks) /\ o \in Slots /\ g \in Nat
    BY <1>2, <1>4, <1>5
  <2> HIDE DEF p, t, o, g
  <2> QED BY <2>1, <2>2 DEF RequestType
<1> DEFINE t == q.table
<1>7. /\ t \in Seq(Blocks) /\ Len(t) = k + n /\ DOMAIN t = 1 .. k + n /\ k \in Nat /\ n \in Nat
      /\ \A i \in 1 .. k : t[i] = reused[i]
      /\ \A i \in k + 1 .. k + n : i - k \in 1 .. n /\ t[i] = s[i - k]
  <2>1. t = reused \o s /\ k \in Nat /\ n \in Nat
    BY <1>2
  <2>2. /\ t \in Seq(Blocks) /\ Len(t) = k + n
        /\ \A i \in 1 .. k + n : t[i] = IF i <= k THEN reused[i] ELSE s[i - k]
    BY <1>5, <2>1
  <2> HIDE DEF t
  <2> QED BY <2>1, <2>2
<1> HIDE DEF t
<1>8. /\ IsInjective(reused) /\ DOMAIN reused = 1 .. k /\ DOMAIN s = 1 .. n
      /\ \A i \in 1 .. k : reused[i] \in InUse
  OBVIOUS
<1>9. \A i \in DOMAIN t : t[i] \in InUse <=> i <= k
  <2> TAKE i \in DOMAIN t
  <2>1. CASE i <= k
    <3>1. i \in 1 .. k
      BY <1>7, <2>1
    <3> QED BY <1>7, <1>8, <2>1, <3>1
  <2>2. CASE ~ (i <= k)
    <3>1. i \in k + 1 .. k + n
      BY <1>7, <2>2
    <3> QED BY <1>1, <1>7, <2>2, <3>1
  <2> QED BY <2>1, <2>2
<1>10. IsInjective(t)
  <2> SUFFICES ASSUME NEW i \in DOMAIN t, NEW j \in DOMAIN t, t[i] = t[j]
               PROVE  i = j
    BY DEF IsInjective
  <2>1. i <= k <=> j <= k
    BY <1>9
  <2>2. CASE i <= k /\ j <= k
    <3>1. i \in 1 .. k /\ j \in 1 .. k
      BY <1>7, <2>2
    <3>2. reused[i] = reused[j]
      BY <1>7, <3>1
    <3> QED BY <1>8, <3>1, <3>2 DEF IsInjective
  <2>3. CASE ~ (i <= k) /\ ~ (j <= k)
    <3>1. i \in k + 1 .. k + n /\ j \in k + 1 .. k + n
      <4>1. i \in 1 .. k + n /\ j \in 1 .. k + n /\ k \in Nat /\ n \in Nat
        BY <1>7
      <4> HIDE DEF t
      <4> QED BY <2>3, <4>1
    <3>2. i - k \in DOMAIN s /\ j - k \in DOMAIN s /\ s[i - k] = s[j - k]
      BY <1>7, <1>8, <3>1
    <3>3. i - k = j - k
      BY <1>1, <3>2 DEF IsInjective
    <3>4. i \in Int /\ j \in Int /\ k \in Int
      BY <1>7, <3>1
    <3> QED BY <3>3, <3>4
  <2> QED BY <2>1, <2>2, <2>3
<1>11. AtBlockEnd(q)
  <2>1. CASE k = 0
    BY <1>2, <2>1 DEF AtBlockEnd
  <2>2. CASE k # 0
    <3> DEFINE x == k * BlockSize
    <3>1. x \in Nat /\ q.offset \in Nat
      BY <1>2, <1>7, DivisionBounds, Sizes DEF Slots
    <3>2. q.progress = x - q.offset
      BY <1>2, <2>2
    <3>3. q.offset + q.progress = x + 0
      <4> HIDE DEF x
      <4> QED BY <3>1, <3>2
    <3>4. 0 \in Slots
      BY Sizes DEF Slots
    <3>5. (x + 0) % BlockSize = 0
      BY <1>7, <3>4, DivisionIsUnique
    <3> QED BY <3>3, <3>5 DEF AtBlockEnd
  <2> QED BY <2>1, <2>2
<1> QED BY <1>2, <1>3, <1>6, <1>7, <1>9, <1>10, <1>11 DEF t

(* r is admitted as such a request.                                          *)
AdmitsWith(r, q, k, reused, s, n) ==
    /\ r \in Requests /\ phase[r] = "new" /\ BeginsWith(q, k, reused, s, n)
    /\ req' = [req EXCEPT ![r] = q] /\ phase' = [phase EXCEPT ![r] = "prefilling"]
    /\ kv' = kv /\ past' = past /\ seen' = seen
    /\ q.prompt \in Seq(Nat) /\ q.prompt # <<>>
    /\ q.progress <= Len(q.prompt) /\ Len(q.prompt) <= Capacity(q)
    /\ \A i \in Nat : i < q.progress => Stands(kv, q, SubSeq(q.prompt, 1, q.progress), i)
    /\ \A o \in Holders : \A i \in 1 .. k : \A j \in DOMAIN req[o].table :
          reused[i] = req[o].table[j] => After(req[o], j) <= NumOf(phase[o], req[o])

(* This is an admission as above: what is not reused is blank, for a free    *)
(* block has no tensors.                                                     *)
LEMMA BeginsAdmits ==
    ASSUME IInv, NEW r, NEW q, NEW k, NEW reused, NEW s, NEW n, AdmitsWith(r, q, k, reused, s, n)
    PROVE  IInv' /\ WrittenOnce
<1> USE DEF AdmitsWith
<1>1. /\ q \in RequestType /\ IsInjective(q.table) /\ q.out = <<>>
      /\ Len(q.table) = k + n /\ k \in Nat
      /\ \A i \in 1 .. k : q.table[i] = reused[i]
      /\ \A i \in DOMAIN q.table : q.table[i] \in InUse <=> i <= k
      /\ q.progress = Upto(q, k) /\ AtBlockEnd(q)
  BY TableOf
<1>2. /\ DOMAIN q.table = 1 .. Len(q.table) /\ Len(q.table) \in Nat /\ Capacity(q) \in Int
      /\ q.offset \in Nat /\ q.progress \in Nat
  BY <1>1, Fields
<1>3. ASSUME NEW i \in Nat, q.progress <= i, i < Capacity(q)
      PROVE  Blank(kv, q, i)
  <2> DEFINE l == Index(q, i)
  <2>1. /\ l \in DOMAIN q.table /\ Place(q, i) = <<q.table[l], Slot(q, i)>>
    BY <1>1, <1>3, Places
  <2>2. /\ l \in Nat /\ l > 0 /\ After(q, k) \in Int /\ (i < After(q, k) <=> l <= k)
    <3>1. q \in RequestType /\ k \in Nat
      BY <1>1
    <3> HIDE DEF AdmitsWith
    <3>2. /\ l \in Nat \ {0}
          /\ \A m \in Nat : After(q, m) \in Int /\ (i < After(q, m) <=> l <= m)
      BY <3>1, Indexing
    <3> QED BY <3>1, <3>2
  <2> HIDE DEF l
  <2>3. ~ (l <= k)
    <3>1. CASE k = 0
      BY <2>2, <3>1
    <3>2. CASE k # 0
      <4>1. q.progress = After(q, k)
        BY <1>1, <3>2 DEF Upto
      <4> QED BY <1>2, <1>3, <2>2, <4>1
    <3> QED BY <3>1, <3>2
  <2>4. q.table[l] \notin DOMAIN kv
    BY <1>1, <2>1, <2>3 DEF IInv, PoolInv
  <2> QED BY <2>1, <2>4, BlankAt
<1>4. ASSUME NEW o \in Holders, NEW i \in DOMAIN q.table, NEW j \in DOMAIN req[o].table,
             q.table[i] = req[o].table[j]
      PROVE  After(q, i) <= q.progress /\ After(req[o], j) <= NumOf(phase[o], req[o])
  <2>1. o \in Requests
    BY DEF Holders
  <2>2. q.table[i] \in InUse
    BY <1>4, <2>1, BlocksInUse DEF InTable
  <2>3. i <= k /\ i \in Nat /\ i >= 1
    BY <1>1, <1>2, <2>2
  <2>4. i \in 1 .. k /\ reused[i] = req[o].table[j] /\ k # 0
    BY <1>1, <1>4, <2>3
  <2>5. After(q, i) <= q.progress
    <3> DEFINE x == i * BlockSize
               y == k * BlockSize
    <3>1. x \in Nat /\ y \in Nat /\ x <= y
      BY <1>1, <2>3, DivisionBounds, Multiples
    <3>2. q.progress = y - q.offset /\ After(q, i) = x - q.offset
      BY <1>1, <2>4 DEF Upto, After
    <3> HIDE DEF x, y
    <3> QED BY <1>2, <3>1, <3>2
  <2>6. After(req[o], j) <= NumOf(phase[o], req[o])
    BY <2>4
  <2> QED BY <2>5, <2>6
<1>5. Admits(r, q)
  BY <1>1, <1>3, <1>4, Zenon DEF Admits
<1> QED BY <1>5, AdmitsKeeps

(* A prompt is a sequence of numbers that is not empty.                      *)
LEMMA PromptFacts ==
    ASSUME NEW p \in Prompts
    PROVE  p \in Seq(Nat) /\ p # <<>> /\ Len(p) \in Nat
<1>1. p \in Seq(Nat \ {0}) /\ p # <<>>
  BY BackendAssumption
<1>2. p \in Seq(Nat)
  BY <1>1
<1> QED BY <1>1, <1>2

(* A request that reuses nothing.                                            *)
LEMMA AdmitNewStep ==
    ASSUME IInv, NEW r \in Requests, NEW p \in Prompts, AdmitNew(r, p)
    PROVE  IInv' /\ WrittenOnce
<1>1. PICK offset \in Offsets, n \in 1 .. Cardinality(Blocks) :
        \E s \in [1 .. n -> Blocks \ InUse] :
            /\ Cardinality(ToSet(s)) = n
            /\ Admit(r, p, <<>>, s, offset)
  BY DEF AdmitNew
<1>2. PICK s \in [1 .. n -> Blocks \ InUse] :
            /\ Cardinality(ToSet(s)) = n
            /\ Admit(r, p, <<>>, s, offset)
  BY <1>1
<1>3. n \in Nat /\ offset \in Slots
  BY FS_CardinalityType, BackendAssumption DEF Slots
<1> DEFINE q == [NoRequest EXCEPT !.prompt = p, !.table = <<>> \o s, !.offset = offset,
                                  !.progress = IF <<>> = <<>> THEN 0
                                               ELSE Len(<<>>) * BlockSize - offset]
<1>4. /\ phase[r] = "new" /\ q.progress <= Len(p) /\ Capacity(q) >= Len(p)
      /\ req' = [req EXCEPT ![r] = q] /\ phase' = [phase EXCEPT ![r] = "prefilling"]
      /\ kv' = kv /\ past' = past /\ seen' = seen
  BY <1>2 DEF Admit
<1>5. q = [prompt |-> p, table |-> <<>> \o s, offset |-> offset, progress |-> 0, out |-> <<>>]
  <2> DEFINE t == <<>> \o s
             g == IF <<>> = <<>> THEN 0 ELSE Len(<<>>) * BlockSize - offset
  <2>1. q = [NoRequest EXCEPT !.prompt = p, !.table = t, !.offset = offset, !.progress = g]
    OBVIOUS
  <2>2. g = 0
    OBVIOUS
  <2> HIDE DEF t, g, q
  <2>3. q = [prompt |-> p, table |-> t, offset |-> offset, progress |-> g, out |-> <<>>]
    BY <2>1 DEF NoRequest
  <2> QED BY <2>2, <2>3 DEF t
<1>6. BeginsWith(q, 0, <<>>, s, n) /\ q.prompt = p /\ q.progress = 0
  <2>1. /\ <<>> \in Seq(Blocks) /\ Len(<<>>) = 0 /\ 0 \in Nat /\ IsInjective(<<>>)
    BY DEF IsInjective
  <2>2. s \in [1 .. n -> Blocks \ InUse] /\ Cardinality(ToSet(s)) = n
    BY <1>2
  <2> DEFINE t == <<>> \o s
  <2>3. q = [prompt |-> p, table |-> t, offset |-> offset, progress |-> 0, out |-> <<>>]
    BY <1>5
  <2> HIDE DEF q, t
  <2>4. q.prompt = p /\ q.offset = offset /\ q.progress = 0
    BY <2>3
  <2>5. q = [prompt |-> q.prompt, table |-> t, offset |-> q.offset, progress |-> 0, out |-> <<>>]
    BY <2>3, <2>4
  <2>6. \A i \in 1 .. 0 : <<>>[i] \in InUse
    OBVIOUS
  <2> QED BY <1>3, <2>1, <2>2, <2>4, <2>5, <2>6 DEF BeginsWith, t
<1> HIDE DEF q
<1>7. p \in Seq(Nat) /\ p # <<>> /\ Len(p) \in Nat
  BY PromptFacts
<1>8. Capacity(q) \in Int
  <2>1. q \in RequestType
    BY <1>6, <1>7, TableOf
  <2> QED BY <2>1, Fields
<1>9. Len(q.prompt) <= Capacity(q) /\ q.progress <= Len(q.prompt)
  BY <1>4, <1>6, <1>7, <1>8
<1>10. \A i \in Nat : i < q.progress => Stands(kv, q, SubSeq(q.prompt, 1, q.progress), i)
  BY <1>6
<1>11. \A o \in Holders : \A i \in 1 .. 0 : \A j \in DOMAIN req[o].table :
              <<>>[i] = req[o].table[j] => After(req[o], j) <= NumOf(phase[o], req[o])
  OBVIOUS
<1>12. AdmitsWith(r, q, 0, <<>>, s, n)
  BY <1>4, <1>6, <1>7, <1>9, <1>10, <1>11, Zenon DEF AdmitsWith
<1> QED BY <1>12, BeginsAdmits

(* A request that begins with the first k blocks of a running one, and with  *)
(* the tokens these are full of, stands on their KV.                         *)
Follows(q, d, k) ==
    /\ d \in Requests /\ phase[d] = "running" /\ q \in RequestType /\ k \in Nat
    /\ k <= Len(q.table) /\ k <= Len(req[d].table)
    /\ q.offset = req[d].offset /\ q.progress = After(q, k)
    /\ \A i \in 1 .. k : q.table[i] = req[d].table[i]
    /\ q.progress <= Len(q.prompt) /\ q.progress <= Len(req[d].prompt)
    /\ \A i \in 1 .. q.progress : q.prompt[i] = req[d].prompt[i]

LEMMA FollowerStands ==
    ASSUME IInv, NEW q, NEW d, NEW k, Follows(q, d, k)
    PROVE  \A i \in Nat : i < q.progress => Stands(kv, q, SubSeq(q.prompt, 1, q.progress), i)
<1> DEFINE e == req[d]
           n == q.progress
           t == SubSeq(q.prompt, 1, n)
           u == TokensOf("running", e)
<1>1. /\ d \in Requests /\ phase[d] = "running" /\ q \in RequestType /\ k \in Nat
      /\ k <= Len(q.table) /\ k <= Len(e.table) /\ q.offset = e.offset /\ n = After(q, k)
      /\ \A i \in 1 .. k : q.table[i] = e.table[i]
      /\ n <= Len(q.prompt) /\ n <= Len(e.prompt) /\ \A i \in 1 .. n : q.prompt[i] = e.prompt[i]
  BY DEF Follows
<1>2. d \in Holders
  BY <1>1 DEF Holders, HasBlocks
<1>3. e \in RequestType /\ Stage("running", e) /\ u \in Seq(Nat)
  BY <1>1, <1>2, HolderFacts DEF IInv
<1>4. NumOf("running", e) = Len(u) /\ Len(u) \in Nat /\ Len(u) >= Len(e.prompt)
      /\ \A i \in 1 .. Len(e.prompt) : u[i] = e.prompt[i]
  <2>1. "running" # "prefilling"
    OBVIOUS
  <2> HIDE DEF e
  <2>2. /\ NumOf("running", e) = Len(u) /\ NumOf("running", e) \in Nat
        /\ NumOf("running", e) >= Len(e.prompt)
        /\ \A i \in 1 .. Len(e.prompt) : u[i] = e.prompt[i]
    BY <1>3, <2>1, TokenFacts
  <2> QED BY <2>2
<1>5. n \in Nat /\ Len(q.prompt) \in Nat /\ Len(e.prompt) \in Nat /\ q.prompt \in Seq(Nat)
  BY <1>1, <1>3, Fields
<1>6. t \in Seq(Nat) /\ Len(t) = n /\ \A i \in 1 .. n : t[i] = q.prompt[i]
  <2>1. n \in 0 .. Len(q.prompt)
    BY <1>1, <1>5
  <2> QED BY <1>5, <2>1, Beginnings
<1>7. Grows(t, u)
  <2>1. Len(t) <= Len(u)
    BY <1>1, <1>4, <1>5, <1>6
  <2>2. ASSUME NEW i \in 1 .. n
        PROVE  u[i] = t[i]
    <3>1. i \in 1 .. Len(e.prompt)
      BY <1>1, <1>5
    <3> QED BY <1>1, <1>4, <1>6, <3>1
  <2> QED BY <1>6, <2>1, <2>2 DEF Grows
<1> HIDE DEF t, u, e, n
<1>8. ASSUME NEW i \in Nat, i < n
      PROVE  Stands(kv, q, t, i)
  <2>1. i < Len(u) /\ i < NumOf("running", e)
    BY <1>1, <1>4, <1>5, <1>8
  <2>2. Stands(kv, e, u, i)
    BY <1>1, <1>2, <2>1 DEF IInv, HoldsInv, e, u
  <2>3. Index(q, i) \in 1 .. k /\ Index(e, i) = Index(q, i) /\ Slot(e, i) = Slot(q, i)
    <3>1. Index(q, i) <= k /\ Index(q, i) \in Nat \ {0}
      BY <1>1, <1>8, Indexing
    <3>2. Index(e, i) = Index(q, i) /\ Slot(e, i) = Slot(q, i)
      BY <1>1 DEF Index, Slot
    <3> QED BY <1>1, <3>1, <3>2
  <2>4. Place(q, i) = Place(e, i)
    <3>1. q.table[Index(q, i)] = e.table[Index(e, i)]
      BY <1>1, <2>3
    <3> QED BY <1>1, <1>3, <2>3, <3>1, Places
  <2>5. SubSeq(u, 1, i + 1) = SubSeq(t, 1, i + 1)
    <3>1. i + 1 \in 0 .. Len(t)
      BY <1>5, <1>6, <1>8
    <3> QED BY <1>3, <1>6, <1>7, <3>1, PrefixesAgree
  <2> QED BY <2>2, <2>4, <2>5 DEF Stands
<1> QED BY <1>8 DEF t, n

(* A request that reuses the first blocks of a running one, which are full:  *)
(* After of the last is within the prompt of both.                           *)
LEMMA AdmitReuseStep ==
    ASSUME IInv, NEW r \in Requests, NEW p \in Prompts, AdmitReuse(r, p)
    PROVE  IInv' /\ WrittenOnce
<1>1. PICK d \in In("running"), k \in 1 .. Cardinality(Blocks), n \in 0 .. Cardinality(Blocks) :
        LET covered == k * BlockSize - req[d].offset
        IN  /\ k <= Len(req[d].table)
            /\ covered <= Len(req[d].prompt) /\ covered <= Len(p)
            /\ SubSeq(p, 1, covered) = SubSeq(req[d].prompt, 1, covered)
            /\ \E s \in [1 .. n -> Blocks \ InUse] :
                  /\ Cardinality(ToSet(s)) = n
                  /\ Admit(r, p, SubSeq(req[d].table, 1, k), s, req[d].offset)
  BY Zenon DEF AdmitReuse
<1> DEFINE covered == (k * BlockSize) - req[d].offset
           reused == SubSeq(req[d].table, 1, k)
           offset == req[d].offset
<1>2. PICK s \in [1 .. n -> Blocks \ InUse] :
            /\ Cardinality(ToSet(s)) = n
            /\ Admit(r, p, reused, s, offset)
  BY <1>1, Zenon
<1>3. /\ k <= Len(req[d].table) /\ covered <= Len(req[d].prompt) /\ covered <= Len(p)
      /\ SubSeq(p, 1, covered) = SubSeq(req[d].prompt, 1, covered)
  BY <1>1, Zenon
<1>4. n \in Nat /\ k \in Nat /\ k # 0 /\ k >= 1
  BY FS_CardinalityType, BackendAssumption
<1>5. /\ d \in Requests /\ phase[d] = "running" /\ d \in Holders
  BY DEF In, Holders, HasBlocks
<1>6. /\ req[d] \in RequestType /\ Room("running", req[d]) /\ req[d].table \in Seq(Blocks)
      /\ offset \in Slots /\ req[d].prompt \in Seq(Nat) /\ Len(req[d].table) \in Nat
      /\ DOMAIN req[d].table = 1 .. Len(req[d].table) /\ IsInjective(req[d].table)
  <2>1. req[d] \in RequestType /\ Room("running", req[d])
    BY <1>5, HolderFacts DEF IInv
  <2> QED BY <2>1, Fields DEF Room
<1>7. /\ reused \in Seq(Blocks) /\ Len(reused) = k /\ DOMAIN reused = 1 .. k
      /\ \A i \in 1 .. k : reused[i] = req[d].table[i] /\ i \in DOMAIN req[d].table
  <2> DEFINE table == req[d].table
  <2>1. table \in Seq(Blocks) /\ k \in 1 .. Len(table) /\ Len(table) \in Nat
    BY <1>3, <1>4, <1>6
  <2> HIDE DEF table
  <2>2. \A i \in 1 .. k : i \in 1 .. Len(table) /\ table[i] \in Blocks
    BY <2>1
  <2>3. 1 \in Int /\ k \in Int /\ 1 <= k /\ k - 1 + 1 = k /\ k \in Nat
    BY <1>4
  <2>4. /\ SubSeq(table, 1, k) \in Seq(Blocks)
        /\ Len(SubSeq(table, 1, k)) = IF 1 <= k THEN k - 1 + 1 ELSE 0
        /\ \A i \in 1 .. k - 1 + 1 : SubSeq(table, 1, k)[i] = table[1 + i - 1]
    BY <2>1, <2>2, <2>3, SubSeqProperties
  <2>5. SubSeq(table, 1, k) \in Seq(Blocks) /\ Len(SubSeq(table, 1, k)) = k
        /\ DOMAIN SubSeq(table, 1, k) = 1 .. k
    BY <2>3, <2>4
  <2>6. ASSUME NEW i \in 1 .. k
        PROVE  SubSeq(table, 1, k)[i] = table[i]
    <3>1. 1 + i - 1 = i /\ i \in 1 .. k - 1 + 1
      BY <2>3
    <3> QED BY <2>4, <3>1
  <2>7. DOMAIN table = 1 .. Len(table)
    BY <2>1
  <2> QED BY <2>2, <2>5, <2>6, <2>7 DEF table
<1>8. reused # <<>>
  <2> HIDE DEF reused
  <2> QED BY <1>4, <1>7
<1> DEFINE q == [NoRequest EXCEPT !.prompt = p, !.table = reused \o s, !.offset = offset,
                                  !.progress = IF reused = <<>> THEN 0
                                               ELSE Len(reused) * BlockSize - offset]
<1>9. /\ phase[r] = "new" /\ q.progress <= Len(p) /\ Capacity(q) >= Len(p)
      /\ req' = [req EXCEPT ![r] = q] /\ phase' = [phase EXCEPT ![r] = "prefilling"]
      /\ kv' = kv /\ past' = past /\ seen' = seen
  <2> HIDE DEF reused, offset
  <2> QED BY <1>2, Zenon DEF Admit
<1>10. q = [prompt |-> p, table |-> reused \o s, offset |-> offset, progress |-> covered, out |-> <<>>]
  <2> DEFINE t == reused \o s
             g == IF reused = <<>> THEN 0 ELSE Len(reused) * BlockSize - offset
  <2>1. q = [NoRequest EXCEPT !.prompt = p, !.table = t, !.offset = offset, !.progress = g]
    OBVIOUS
  <2>2. g = covered
    <3>1. Len(reused) = k
      BY <1>7
    <3>2. g = Len(reused) * BlockSize - offset
      BY <1>8
    <3> QED BY <3>1, <3>2
  <2> HIDE DEF t, g, q, reused, offset, covered
  <2>3. q = [prompt |-> p, table |-> t, offset |-> offset, progress |-> g, out |-> <<>>]
    BY <2>1 DEF NoRequest
  <2> QED BY <2>2, <2>3 DEF t
<1> HIDE DEF q
<1>11. q.prompt = p /\ q.offset = offset /\ q.progress = covered
  <2> DEFINE t == reused \o s
  <2>1. q = [prompt |-> p, table |-> t, offset |-> offset, progress |-> covered, out |-> <<>>]
    BY <1>10
  <2> HIDE DEF t, reused, offset, covered
  <2> QED BY <2>1
<1>12. BeginsWith(q, k, reused, s, n)
  <2>1. IsInjective(reused)
    <3> SUFFICES ASSUME NEW i \in DOMAIN reused, NEW j \in DOMAIN reused, reused[i] = reused[j]
                 PROVE  i = j
      BY DEF IsInjective
    <3> HIDE DEF reused
    <3>1. /\ i \in DOMAIN req[d].table /\ j \in DOMAIN req[d].table
          /\ req[d].table[i] = req[d].table[j]
      BY <1>7
    <3> QED BY <1>6, <3>1 DEF IsInjective
  <2>2. \A i \in 1 .. k : reused[i] \in InUse
    <3> HIDE DEF reused
    <3>1. \A i \in 1 .. k : InTable(req[d], reused[i])
      BY <1>7 DEF InTable
    <3> QED BY <1>5, <3>1, BlocksInUse
  <2>3. q = [prompt |-> q.prompt, table |-> reused \o s, offset |-> q.offset,
             progress |-> IF k = 0 THEN 0 ELSE (k * BlockSize) - q.offset, out |-> <<>>]
    <3> DEFINE t == reused \o s
    <3>1. (IF k = 0 THEN 0 ELSE (k * BlockSize) - q.offset) = covered
      BY <1>4, <1>11
    <3>2. q = [prompt |-> q.prompt, table |-> t, offset |-> q.offset, progress |-> covered, out |-> <<>>]
      BY <1>10, <1>11
    <3> HIDE DEF t, covered
    <3> QED BY <3>1, <3>2 DEF t
  <2> HIDE DEF reused, covered
  <2> QED BY <1>2, <1>4, <1>6, <1>7, <1>11, <2>1, <2>2, <2>3 DEF BeginsWith
<1>13. p \in Seq(Nat) /\ p # <<>> /\ Len(p) \in Nat
  BY PromptFacts
<1> HIDE DEF reused, covered
<1>14. q \in RequestType /\ Len(q.table) = k + n /\ Capacity(q) \in Int
      /\ \A i \in 1 .. k : q.table[i] = reused[i]
  <2>1. q.prompt \in Seq(Nat)
    BY <1>11, <1>13
  <2>2. q \in RequestType /\ Len(q.table) = k + n /\ \A i \in 1 .. k : q.table[i] = reused[i]
    BY <1>12, <2>1, TableOf
  <2> QED BY <2>2, Fields
<1>15. Len(q.prompt) <= Capacity(q) /\ q.progress <= Len(q.prompt)
  BY <1>9, <1>11, <1>13, <1>14
<1>16. Follows(q, d, k)
  <2>1. k <= Len(q.table) /\ k <= Len(req[d].table)
    BY <1>3, <1>4, <1>14
  <2>2. q.progress = After(q, k) /\ q.offset = req[d].offset
    BY <1>11 DEF covered, After
  <2>3. \A i \in 1 .. k : q.table[i] = req[d].table[i]
    BY <1>7, <1>14
  <2>4. q.progress <= Len(q.prompt) /\ q.progress <= Len(req[d].prompt)
    BY <1>3, <1>11
  <2>5. ASSUME NEW i \in 1 .. q.progress
        PROVE  q.prompt[i] = req[d].prompt[i]
    <3> DEFINE u == req[d].prompt
    <3>1. /\ covered \in 0 .. Len(p) /\ covered \in 0 .. Len(u) /\ i \in 1 .. covered
          /\ u \in Seq(Nat) /\ SubSeq(p, 1, covered) = SubSeq(u, 1, covered)
      <4>1. q.progress \in Nat /\ Len(u) \in Nat
        BY <1>6, <1>14, Fields
      <4>2. covered \in Nat /\ covered <= Len(p) /\ covered <= Len(u) /\ i \in 1 .. covered
        BY <1>3, <1>11, <4>1
      <4>3. u \in Seq(Nat)
        BY <1>6, Fields
      <4> HIDE DEF u
      <4>4. covered \in 0 .. Len(p) /\ covered \in 0 .. Len(u)
        BY <1>13, <4>1, <4>2
      <4>5. SubSeq(p, 1, covered) = SubSeq(u, 1, covered)
        BY <1>3 DEF u
      <4> QED BY <4>2, <4>3, <4>4, <4>5
    <3> HIDE DEF u
    <3>2. p[i] = u[i]
      <4> DEFINE b == SubSeq(p, 1, covered)
                 w == SubSeq(u, 1, covered)
      <4>1. \A j \in 1 .. covered : b[j] = p[j]
        BY <1>13, <3>1, Beginnings
      <4>2. \A j \in 1 .. covered : w[j] = u[j]
        BY <3>1, Beginnings
      <4>3. b = w /\ i \in 1 .. covered
        BY <3>1
      <4> HIDE DEF b, w
      <4> QED BY <4>1, <4>2, <4>3
    <3> QED BY <1>11, <3>2 DEF u
  <2> QED BY <1>4, <1>5, <1>14, <2>1, <2>2, <2>3, <2>4, <2>5 DEF Follows
<1>17. \A i \in Nat : i < q.progress => Stands(kv, q, SubSeq(q.prompt, 1, q.progress), i)
  BY <1>16, FollowerStands
<1>18. ASSUME NEW o \in Holders, NEW i \in 1 .. k, NEW j \in DOMAIN req[o].table,
              reused[i] = req[o].table[j]
       PROVE  After(req[o], j) <= NumOf(phase[o], req[o])
  <2>1. i \in DOMAIN req[d].table /\ req[d].table[i] = req[o].table[j]
    BY <1>7, <1>18
  <2>2. CASE o # d
    BY <1>5, <2>1, <2>2 DEF IInv, SharedInv
  <2>3. CASE o = d
    <3>1. i = j
      BY <1>6, <2>1, <2>3 DEF IsInjective
    <3>2. After(req[d], i) <= covered
      <4> DEFINE x == i * BlockSize
                 y == k * BlockSize
      <4>1. i \in Nat /\ i <= k
        BY <1>4
      <4>2. x \in Nat /\ y \in Nat /\ x <= y
        BY <1>4, <4>1, DivisionBounds, Multiples
      <4>3. covered = y - offset /\ After(req[d], i) = x - offset /\ offset \in Nat
        BY <1>6, Fields DEF covered, After
      <4> HIDE DEF x, y, offset
      <4> QED BY <4>2, <4>3
    <3>3. NumOf("running", req[d]) \in Nat /\ NumOf("running", req[d]) >= Len(req[d].prompt)
      <4>1. Stage("running", req[d])
        BY <1>5, HolderFacts DEF IInv
      <4> QED BY <1>6, <4>1, TokenFacts
    <3>4. After(req[d], i) \in Int /\ covered \in Int /\ Len(req[d].prompt) \in Nat
      <4>1. i \in Nat /\ 0 \in Nat /\ covered = After(req[d], k)
        BY DEF covered, After
      <4>2. \A m \in Nat : After(req[d], m) \in Int
        BY <1>6, <4>1, Indexing
      <4> QED BY <1>4, <1>6, <4>1, <4>2
    <3> QED BY <1>3, <1>5, <2>3, <3>1, <3>2, <3>3, <3>4
  <2> QED BY <2>2, <2>3
<1>19. AdmitsWith(r, q, k, reused, s, n)
  BY <1>9, <1>11, <1>12, <1>13, <1>15, <1>17, <1>18, Zenon DEF AdmitsWith
<1> QED BY <1>19, BeginsAdmits

(* A table with one more block.                                              *)
Longer(q, b, p) ==
    /\ p \in RequestType /\ p.prompt = q.prompt /\ p.offset = q.offset
    /\ p.progress = q.progress /\ p.out = q.out
    /\ p.table = Append(q.table, b)

(* It keeps the places of all tokens, and those there is room for now are in *)
(* the new block.                                                            *)
LEMMA LongerTable ==
    ASSUME NEW q \in RequestType, NEW b, NEW p, Longer(q, b, p)
    PROVE  /\ Len(p.table) = Len(q.table) + 1 /\ p.table[Len(q.table) + 1] = b
           /\ DOMAIN p.table = 1 .. Len(q.table) + 1
           /\ \A i \in DOMAIN q.table : i \in DOMAIN p.table /\ p.table[i] = q.table[i]
           /\ \A i \in DOMAIN p.table : i \in DOMAIN q.table \/ i = Len(q.table) + 1
           /\ Capacity(p) \in Int /\ Capacity(q) \in Int /\ Capacity(q) <= Capacity(p)
           /\ \A k : After(p, k) = After(q, k)
           /\ \A i \in Nat : i < Capacity(q) => Place(p, i) = Place(q, i)
           /\ \A i \in Nat : Capacity(q) <= i /\ i < Capacity(p) => Place(p, i) = <<b, Slot(p, i)>>
           /\ \A t : TokensOf(t, p) = TokensOf(t, q) /\ NumOf(t, p) = NumOf(t, q)
<1>1. /\ p \in RequestType /\ p.prompt = q.prompt /\ p.offset = q.offset
      /\ p.progress = q.progress /\ p.out = q.out /\ p.table = Append(q.table, b)
  BY DEF Longer
<1>2. q.table \in Seq(Blocks) /\ Len(q.table) \in Nat /\ DOMAIN q.table = 1 .. Len(q.table)
  BY Fields
<1>3. /\ Len(p.table) = Len(q.table) + 1 /\ DOMAIN p.table = 1 .. Len(q.table) + 1
      /\ p.table[Len(q.table) + 1] = b
      /\ \A i \in 1 .. Len(q.table) : p.table[i] = q.table[i]
  <2> DEFINE table == q.table
  <2>1. table \in Seq(Blocks) /\ p.table = Append(table, b) /\ Len(table) \in Nat
    BY <1>1, <1>2
  <2> HIDE DEF table
  <2>2. /\ Len(p.table) = Len(table) + 1 /\ DOMAIN p.table = 1 .. Len(table) + 1
        /\ p.table[Len(table) + 1] = b
        /\ \A i \in 1 .. Len(table) : p.table[i] = table[i]
    BY <2>1
  <2> QED BY <2>2 DEF table
<1>4. \A i \in DOMAIN q.table : i \in DOMAIN p.table /\ p.table[i] = q.table[i]
  BY <1>2, <1>3
<1>5. \A i \in DOMAIN p.table : i \in DOMAIN q.table \/ i = Len(q.table) + 1
  BY <1>2, <1>3
<1>6. \A k : After(p, k) = After(q, k)
  BY <1>1 DEF After
<1>7. Capacity(p) \in Int /\ Capacity(q) \in Int /\ Capacity(q) <= Capacity(p)
  <2> DEFINE x == Len(q.table) * BlockSize
             y == (Len(q.table) + 1) * BlockSize
  <2>1. Len(q.table) \in Nat /\ Len(q.table) + 1 \in Nat /\ Len(q.table) <= Len(q.table) + 1
    BY <1>2
  <2>2. x \in Nat /\ y \in Nat /\ x <= y
    BY <2>1, DivisionBounds, Multiples
  <2>3. Capacity(q) = x - q.offset /\ Capacity(p) = y - q.offset /\ q.offset \in Nat
    BY <1>1, <1>3, Fields DEF Capacity
  <2> HIDE DEF x, y
  <2> QED BY <2>2, <2>3
<1>8. ASSUME NEW i \in Nat
      PROVE  Index(p, i) = Index(q, i) /\ Slot(p, i) = Slot(q, i)
  BY <1>1 DEF Index, Slot
<1>9. ASSUME NEW i \in Nat, i < Capacity(q)
      PROVE  Place(p, i) = Place(q, i)
  <2>1. Index(q, i) \in DOMAIN q.table /\ Place(q, i) = <<q.table[Index(q, i)], Slot(q, i)>>
    BY <1>9, Places
  <2>2. Place(p, i) = <<p.table[Index(p, i)], Slot(p, i)>>
    BY <1>1, Places
  <2> QED BY <1>4, <1>8, <2>1, <2>2
<1>10. ASSUME NEW i \in Nat, Capacity(q) <= i, i < Capacity(p)
       PROVE  Place(p, i) = <<b, Slot(p, i)>>
  <2>1. /\ Place(p, i) = <<p.table[Index(p, i)], Slot(p, i)>>
        /\ Index(p, i) \in DOMAIN p.table
    BY <1>1, <1>10, Places
  <2>2. Index(q, i) \notin DOMAIN q.table
    <3>1. \A k \in Nat : i < After(q, k) <=> Index(q, i) <= k
      BY Indexing
    <3>2. ~ (i < After(q, Len(q.table)))
      BY <1>7, <1>10, Fields
    <3>3. ~ (Index(q, i) <= Len(q.table))
      BY <1>2, <3>1, <3>2
    <3> QED BY <1>2, <3>3
  <2>3. Index(p, i) = Len(q.table) + 1
    BY <1>5, <1>8, <2>1, <2>2
  <2> QED BY <1>3, <2>1, <2>3
<1>11. \A t : TokensOf(t, p) = TokensOf(t, q) /\ NumOf(t, p) = NumOf(t, q)
  BY <1>1 DEF TokensOf, NumOf
<1> QED BY <1>3, <1>4, <1>5, <1>6, <1>7, <1>9, <1>10, <1>11

(* A running request gets one more block: it was free, so it has no tensors  *)
(* and is in no table.                                                       *)
LEMMA ExtendStep ==
    ASSUME IInv, NEW r \in Requests, Extend(r)
    PROVE  IInv' /\ WrittenOnce
<1>1. PICK b \in Blocks \ InUse : req' = [req EXCEPT ![r].table = Append(@, b)]
  BY DEF Extend
<1>2. /\ phase[r] = "running" /\ kv' = kv /\ past' = past /\ phase' = phase /\ seen' = seen
  BY DEF Extend
<1> DEFINE q == req[r]
           p == req'[r]
<1>3. /\ r \in Holders /\ q \in RequestType /\ Room(phase[r], q) /\ Stage(phase[r], q)
      /\ NumOf(phase[r], q) \in Nat /\ NumOf(phase[r], q) <= Capacity(q)
  <2>1. r \in Holders
    BY <1>2 DEF Holders, HasBlocks
  <2> QED BY <2>1, HolderFacts DEF IInv
<1>4. Holders' = Holders
  BY <1>2 DEF Holders
<1>5. /\ req' \in [Requests -> RequestType] /\ Longer(q, b, p)
      /\ \A o \in Requests : o # r => req'[o] = req[o]
  <2> DEFINE t == Append(q.table, b)
             g == [q EXCEPT !.table = t]
  <2>1. t \in Seq(Blocks)
    <3>1. q.table \in Seq(Blocks)
      BY <1>3, Fields
    <3> HIDE DEF q
    <3> QED BY <3>1
  <2>2. req' = [req EXCEPT ![r] = g] /\ req \in [Requests -> RequestType]
    BY <1>1 DEF IInv, TypeInv
  <2>3. /\ g \in RequestType /\ g.prompt = q.prompt /\ g.offset = q.offset
        /\ g.progress = q.progress /\ g.out = q.out /\ g.table = t
    <3> HIDE DEF q, t
    <3> QED BY <1>3, <2>1 DEF RequestType
  <2> HIDE DEF t, g, q
  <2>4. p = g /\ req' \in [Requests -> RequestType] /\ \A o \in Requests : o # r => req'[o] = req[o]
    BY <2>2, <2>3
  <2> HIDE DEF p
  <2> QED BY <2>3, <2>4 DEF Longer, t
<1> DEFINE N == Len(q.table)
<1>6. /\ Len(p.table) = N + 1 /\ p.table[N + 1] = b /\ DOMAIN p.table = 1 .. N + 1
      /\ \A i \in DOMAIN q.table : i \in DOMAIN p.table /\ p.table[i] = q.table[i]
      /\ \A i \in DOMAIN p.table : i \in DOMAIN q.table \/ i = N + 1
      /\ Capacity(p) \in Int /\ Capacity(q) \in Int /\ Capacity(q) <= Capacity(p)
      /\ \A k : After(p, k) = After(q, k)
      /\ \A i \in Nat : i < Capacity(q) => Place(p, i) = Place(q, i)
      /\ \A i \in Nat : Capacity(q) <= i /\ i < Capacity(p) => Place(p, i) = <<b, Slot(p, i)>>
      /\ \A t : TokensOf(t, p) = TokensOf(t, q) /\ NumOf(t, p) = NumOf(t, q)
  <2>1. q \in RequestType /\ Longer(q, b, p)
    BY <1>3, <1>5
  <2> HIDE DEF q, p
  <2> QED BY <2>1, LongerTable
<1>7. /\ p.prompt = q.prompt /\ p.offset = q.offset /\ p.progress = q.progress /\ p.out = q.out
      /\ p \in RequestType
  BY <1>5 DEF Longer
<1> HIDE DEF N
<1>8. \A o \in Holders : \A j \in DOMAIN req[o].table : req[o].table[j] # b
  <2> SUFFICES ASSUME NEW o \in Holders, NEW j \in DOMAIN req[o].table, req[o].table[j] = b
               PROVE  FALSE
    OBVIOUS
  <2>1. o \in Requests /\ InTable(req[o], b)
    BY DEF Holders, InTable
  <2>2. b \in InUse
    BY <2>1, BlocksInUse
  <2> QED BY <2>2
<1>9. b \notin DOMAIN kv
  BY DEF IInv, PoolInv
<1>10. \A o \in Holders : o \in Requests
  BY DEF Holders
<1>11. TypeInv'
  BY <1>2, <1>5 DEF IInv, TypeInv
<1>12. PoolInv'
  <2>1. ASSUME NEW c \in DOMAIN kv
        PROVE  c \in InUse'
    <3>1. PICK o \in Requests : InTable(req[o], c)
      BY BlocksInUse DEF IInv, PoolInv
    <3>2. InTable(req'[o], c)
      <4>1. CASE o = r
        BY <1>6, <3>1, <4>1 DEF InTable
      <4>2. CASE o # r
        BY <1>5, <3>1, <4>2
      <4> QED BY <4>1, <4>2
    <3> QED BY <3>2, BlocksInUse
  <2> QED BY <1>2, <2>1 DEF IInv, PoolInv
<1>13. NobodyInv'
  BY <1>2, <1>3, <1>4, <1>5 DEF IInv, NobodyInv
<1> HIDE DEF q, p
<1>14. Room(phase'[r], p) /\ Stage(phase'[r], p)
  <2>1. IsInjective(p.table)
    <3> SUFFICES ASSUME NEW i \in DOMAIN p.table, NEW j \in DOMAIN p.table, p.table[i] = p.table[j]
                 PROVE  i = j
      BY DEF IsInjective
    <3>1. \A l \in DOMAIN q.table : p.table[l] # b
      BY <1>3, <1>6, <1>8 DEF q
    <3>2. i \in DOMAIN q.table <=> j \in DOMAIN q.table
      BY <1>6, <3>1
    <3>3. CASE i \in DOMAIN q.table
      <4>1. IsInjective(q.table) /\ q.table[i] = q.table[j]
        BY <1>3, <1>6, <3>2, <3>3 DEF Room
      <4> QED BY <3>2, <3>3, <4>1 DEF IsInjective
    <3>4. CASE i \notin DOMAIN q.table
      BY <1>6, <3>2, <3>4
    <3> QED BY <3>3, <3>4
  <2>2. Len(p.prompt) <= Capacity(p)
    <3>1. Len(q.prompt) <= Capacity(q) /\ Len(q.prompt) \in Nat
      BY <1>3, Fields DEF Room
    <3> QED BY <1>6, <1>7, <3>1
  <2>3. NumOf(phase'[r], p) <= Capacity(p)
    <3>1. NumOf(phase'[r], p) = NumOf(phase[r], q)
      BY <1>2, <1>6
    <3> QED BY <1>3, <1>6, <3>1
  <2>4. Room(phase'[r], p)
    BY <1>3, <1>7, <2>1, <2>2, <2>3 DEF Room
  <2>5. Stage(phase'[r], p)
    BY <1>2, <1>3, <1>7 DEF Stage
  <2> QED BY <2>4, <2>5
<1>15. HoldersInv'
  <2>1. \A o \in Holders : Room(phase'[o], req'[o]) /\ Stage(phase'[o], req'[o])
    BY <1>2, <1>5, <1>10, <1>14 DEF IInv, HoldersInv, p
  <2> QED BY <1>4, <2>1 DEF HoldersInv
<1>16. PastInv'
  <2> SUFFICES ASSUME NEW o \in Requests
               PROVE  /\ phase'[o] = "running" =>
                            o \in DOMAIN past' /\ past'[o] = NumOf(phase'[o], req'[o])
                      /\ phase'[o] = "prefilling" /\ o \notin DOMAIN past' => AtBlockEnd(req'[o])
    BY DEF PastInv
  <2>1. CASE o = r
    <3>1. r \in DOMAIN past' /\ past'[r] = NumOf(phase[r], q)
      BY <1>2 DEF IInv, PastInv, q
    <3>2. NumOf(phase[r], p) = NumOf(phase[r], q)
      BY <1>6
    <3> QED BY <1>2, <2>1, <3>1, <3>2 DEF p
  <2>2. CASE o # r
    BY <1>2, <1>5, <2>2 DEF IInv, PastInv
  <2> QED BY <2>1, <2>2
<1>17. HoldsInv'
  <2>1. ASSUME NEW o \in Holders, NEW i \in Nat, i < NumOf(phase'[o], req'[o])
        PROVE  Stands(kv', req'[o], TokensOf(phase'[o], req'[o]), i)
    <3>1. CASE o = r
      <4>1. i < NumOf(phase[r], q)
        BY <1>2, <1>6, <2>1, <3>1 DEF p
      <4>2. Stands(kv, q, TokensOf(phase[r], q), i)
        BY <1>3, <4>1 DEF IInv, HoldsInv, q
      <4>3. Place(p, i) = Place(q, i)
        BY <1>3, <1>6, <4>1
      <4>4. Stands(kv, p, TokensOf(phase[r], q), i)
        BY <4>2, <4>3 DEF Stands
      <4>5. TokensOf(phase[r], p) = TokensOf(phase[r], q)
        BY <1>6
      <4> QED BY <1>2, <3>1, <4>4, <4>5 DEF p
    <3>2. CASE o # r
      BY <1>2, <1>5, <1>10, <2>1, <3>2 DEF IInv, HoldsInv
    <3> QED BY <3>1, <3>2
  <2> QED BY <1>4, <2>1 DEF HoldsInv
<1>18. BlankInv'
  <2>1. ASSUME NEW o \in Holders, NEW i \in Nat,
               NumOf(phase'[o], req'[o]) <= i, i < Capacity(req'[o])
        PROVE  Blank(kv', req'[o], i)
    <3>1. CASE o = r
      <4>1. NumOf(phase[r], q) <= i /\ i < Capacity(p)
        BY <1>2, <1>6, <2>1, <3>1 DEF p
      <4>2. CASE i < Capacity(q)
        <5>1. Blank(kv, q, i)
          BY <1>3, <4>1, <4>2 DEF IInv, BlankInv, q
        <5>2. Place(p, i) = Place(q, i)
          BY <1>6, <4>2
        <5> QED BY <1>2, <3>1, <5>1, <5>2 DEF Blank, p
      <4>3. CASE ~ (i < Capacity(q))
        <5>1. Place(p, i) = <<b, Slot(p, i)>>
          BY <1>6, <4>1, <4>3
        <5>2. Blank(kv, p, i)
          BY <1>9, <5>1, BlankAt
        <5> QED BY <1>2, <3>1, <5>2 DEF p
      <4> QED BY <4>2, <4>3
    <3>2. CASE o # r
      BY <1>2, <1>5, <1>10, <2>1, <3>2 DEF IInv, BlankInv
    <3> QED BY <3>1, <3>2
  <2> QED BY <1>4, <2>1 DEF BlankInv, Capacity
<1>19. SharedInv'
  <2>1. ASSUME NEW o \in Holders, NEW u \in Holders, o # u,
               NEW i \in DOMAIN req'[o].table, NEW j \in DOMAIN req'[u].table,
               req'[o].table[i] = req'[u].table[j]
        PROVE  After(req'[o], i) <= NumOf(phase'[o], req'[o])
    <3>1. CASE o = r
      <4>1. req'[u] = req[u] /\ req'[o] = p
        BY <1>5, <1>10, <2>1, <3>1 DEF p
      <4>2. i \in DOMAIN q.table /\ q.table[i] = req[u].table[j] /\ j \in DOMAIN req[u].table
        BY <1>6, <1>8, <2>1, <4>1
      <4>3. After(q, i) <= NumOf(phase[r], q)
        BY <1>3, <2>1, <3>1, <4>2 DEF IInv, SharedInv, q
      <4>4. After(p, i) = After(q, i) /\ NumOf(phase[r], p) = NumOf(phase[r], q)
        BY <1>6
      <4> QED BY <1>2, <3>1, <4>1, <4>3, <4>4
    <3>2. CASE o # r /\ u = r
      <4>1. req'[o] = req[o] /\ req'[u] = p
        BY <1>5, <1>10, <3>2 DEF p
      <4>2. j \in DOMAIN q.table /\ req[o].table[i] = q.table[j] /\ i \in DOMAIN req[o].table
        BY <1>6, <1>8, <2>1, <4>1
      <4>3. After(req[o], i) <= NumOf(phase[o], req[o])
        BY <1>3, <2>1, <3>2, <4>2 DEF IInv, SharedInv, q
      <4> QED BY <1>2, <4>1, <4>3
    <3>3. CASE o # r /\ u # r
      BY <1>2, <1>5, <1>10, <2>1, <3>3 DEF IInv, SharedInv
    <3> QED BY <3>1, <3>2, <3>3
  <2> QED BY <1>4, <2>1 DEF SharedInv, After
<1>20. DecodesFromAllTokens'
  <2> SUFFICES ASSUME NEW o \in Requests, phase'[o] = "running", Len(req'[o].out) > 1
               PROVE  seen'[o] = req'[o].prompt \o Front(req'[o].out)
    BY DEF DecodesFromAllTokens, In
  <2>1. req'[o].out = req[o].out /\ req'[o].prompt = req[o].prompt
    BY <1>5, <1>7 DEF p, q
  <2> QED BY <1>2, <2>1 DEF IInv, DecodesFromAllTokens, In
<1>21. WrittenOnce
  BY <1>2 DEF WrittenOnce
<1> QED BY <1>11, <1>12, <1>13, <1>15, <1>16, <1>17, <1>18, <1>19, <1>20, <1>21 DEF IInv

(* What happens to the others when r is freed: the blocks of their tables    *)
(* keep their tensors.                                                       *)
Leaves(r) ==
    /\ r \in Holders /\ phase'[r] = "gone" /\ req'[r] = NoRequest
    /\ phase' \in [Requests -> Phases] /\ DOMAIN seen' = Requests
    /\ \A o \in Requests : o # r => /\ req'[o] = req[o] /\ phase'[o] = phase[o]
                                    /\ seen'[o] = seen[o]
    /\ req' \in [Requests -> RequestType]
    /\ DOMAIN kv' \subseteq DOMAIN kv /\ \A b \in DOMAIN kv' : kv'[b] = kv[b]
    /\ \A b \in DOMAIN kv : b \in DOMAIN kv' <=> \E o \in Requests : o # r /\ InTable(req[o], b)
    /\ DOMAIN past' \subseteq DOMAIN past
    /\ \A o \in DOMAIN past : o # r => o \in DOMAIN past' /\ past'[o] = past[o]

LEMMA LeavesKeeps ==
    ASSUME IInv, NEW r, Leaves(r)
    PROVE  IInv' /\ WrittenOnce
<1> USE DEF Leaves
<1>1. r \in Requests /\ Holders' = Holders \ {r}
  BY DEF Holders, HasBlocks
<1>2. ASSUME NEW o \in Holders'
      PROVE  /\ o \in Holders /\ o \in Requests /\ o # r
             /\ req'[o] = req[o] /\ phase'[o] = phase[o]
             /\ req[o] \in RequestType
  BY <1>1 DEF Holders, IInv, TypeInv
<1>3. ASSUME NEW o \in Holders', NEW i \in Nat, i < Capacity(req[o]),
             Place(req[o], i)[1] \in DOMAIN kv
      PROVE  Place(req[o], i)[1] \in DOMAIN kv'
  <2>1. /\ Index(req[o], i) \in DOMAIN req[o].table
        /\ Place(req[o], i)[1] = req[o].table[Index(req[o], i)]
    <3>1. /\ Index(req[o], i) \in DOMAIN req[o].table
          /\ Place(req[o], i) = <<req[o].table[Index(req[o], i)], Slot(req[o], i)>>
      BY <1>2, <1>3, Places
    <3> QED BY <3>1
  <2>2. InTable(req[o], Place(req[o], i)[1])
    BY <2>1 DEF InTable
  <2> QED BY <1>2, <1>3, <2>2
<1>4. TypeInv'
  BY DEF IInv, TypeInv
<1>5. PoolInv'
  <2>1. ASSUME NEW b \in DOMAIN kv'
        PROVE  /\ b \in InUse' /\ DOMAIN kv'[b] = Slots
               /\ \A s \in Slots : kv'[b][s] \in Seq(Nat)
    <3>1. PICK o \in Requests : o # r /\ InTable(req[o], b)
      OBVIOUS
    <3>2. b \in InUse'
      BY <3>1, BlocksInUse
    <3>3. b \in DOMAIN kv /\ kv'[b] = kv[b]
      OBVIOUS
    <3> QED BY <3>2, <3>3 DEF IInv, PoolInv
  <2> QED BY <2>1 DEF PoolInv
<1>6. NobodyInv'
  <2> SUFFICES ASSUME NEW o \in Requests
               PROVE  /\ phase'[o] = "new" => o \notin DOMAIN past'
                      /\ o \notin Holders' => req'[o] = NoRequest
    BY DEF NobodyInv
  <2>1. CASE o = r
    BY <2>1
  <2>2. CASE o # r
    BY <1>1, <2>2 DEF IInv, NobodyInv
  <2> QED BY <2>1, <2>2
<1>7. HoldersInv'
  <2>1. \A o \in Holders' : Room(phase'[o], req'[o]) /\ Stage(phase'[o], req'[o])
    BY <1>2 DEF IInv, HoldersInv
  <2> QED BY <2>1 DEF HoldersInv
<1>8. PastInv'
  <2> SUFFICES ASSUME NEW o \in Requests
               PROVE  /\ phase'[o] = "running" =>
                            o \in DOMAIN past' /\ past'[o] = NumOf(phase'[o], req'[o])
                      /\ phase'[o] = "prefilling" /\ o \notin DOMAIN past' => AtBlockEnd(req'[o])
    BY DEF PastInv
  <2>1. CASE o = r
    BY <2>1
  <2>2. CASE o # r
    BY <2>2 DEF IInv, PastInv
  <2> QED BY <2>1, <2>2
<1>9. HoldsInv'
  <2>1. ASSUME NEW o \in Holders', NEW i \in Nat, i < NumOf(phase'[o], req'[o])
        PROVE  Stands(kv', req'[o], TokensOf(phase'[o], req'[o]), i)
    <3> DEFINE t == TokensOf(phase[o], req[o])
    <3>1. Stands(kv, req[o], t, i)
      BY <1>2, <2>1 DEF IInv, HoldsInv
    <3>2. i < Capacity(req[o])
      <4>1. /\ NumOf(phase[o], req[o]) \in Nat /\ Capacity(req[o]) \in Int
            /\ NumOf(phase[o], req[o]) <= Capacity(req[o])
        BY <1>2, HolderFacts DEF IInv
      <4>2. i < NumOf(phase[o], req[o])
        BY <1>2, <2>1
      <4> QED BY <4>1, <4>2
    <3> HIDE DEF t
    <3>3. Place(req[o], i)[1] \in DOMAIN kv'
      BY <1>3, <3>1, <3>2 DEF Stands
    <3>4. Stands(kv', req[o], t, i)
      BY <3>1, <3>3 DEF Stands
    <3> QED BY <1>2, <3>4 DEF t
  <2> QED BY <2>1 DEF HoldsInv
<1>10. BlankInv'
  <2>1. ASSUME NEW o \in Holders', NEW i \in Nat,
               NumOf(phase'[o], req'[o]) <= i, i < Capacity(req'[o])
        PROVE  Blank(kv', req'[o], i)
    <3>1. Blank(kv, req[o], i)
      BY <1>2, <2>1 DEF IInv, BlankInv
    <3>2. Blank(kv', req[o], i)
      BY <3>1 DEF Blank
    <3> QED BY <1>2, <3>2
  <2> QED BY <2>1 DEF BlankInv, Capacity
<1>11. SharedInv'
  <2>1. ASSUME NEW o \in Holders', NEW u \in Holders', o # u,
               NEW i \in DOMAIN req'[o].table, NEW j \in DOMAIN req'[u].table,
               req'[o].table[i] = req'[u].table[j]
        PROVE  After(req'[o], i) <= NumOf(phase'[o], req'[o])
    BY <1>2, <2>1 DEF IInv, SharedInv
  <2> QED BY <2>1 DEF SharedInv, After
<1>12. DecodesFromAllTokens'
  <2> SUFFICES ASSUME NEW o \in Requests, phase'[o] = "running", Len(req'[o].out) > 1
               PROVE  seen'[o] = req'[o].prompt \o Front(req'[o].out)
    BY DEF DecodesFromAllTokens, In
  <2>1. o # r
    OBVIOUS
  <2> QED BY <2>1 DEF IInv, DecodesFromAllTokens, In
<1>13. WrittenOnce
  BY DEF WrittenOnce
<1> QED BY <1>4, <1>5, <1>6, <1>7, <1>8, <1>9, <1>10, <1>11, <1>12, <1>13 DEF IInv

(* _free_request: the tensors that go are those of blocks in no other table. *)
LEMMA FreedLeaves ==
    ASSUME IInv, NEW r \in Holders, Freed(r), DOMAIN past' \subseteq DOMAIN past,
           \A o \in DOMAIN past : o # r => o \in DOMAIN past' /\ past'[o] = past[o]
    PROVE  Leaves(r)
<1>1. /\ req' = [req EXCEPT ![r] = NoRequest] /\ phase' = [phase EXCEPT ![r] = "gone"]
      /\ seen' = [seen EXCEPT ![r] = <<>>]
  BY DEF Freed
<1>2. r \in Requests /\ req \in [Requests -> RequestType] /\ phase \in [Requests -> Phases]
      /\ DOMAIN seen = Requests
  BY DEF Holders, IInv, TypeInv
<1>3. NoRequest \in RequestType
  <2>1. 0 \in Slots /\ 0 \in Nat
    BY Sizes DEF Slots
  <2>2. <<>> \in Seq(Nat) /\ <<>> \in Seq(Blocks)
    OBVIOUS
  <2> QED BY <2>1, <2>2 DEF NoRequest, RequestType
<1>4. /\ phase'[r] = "gone" /\ req'[r] = NoRequest
      /\ req' \in [Requests -> RequestType] /\ DOMAIN seen' = Requests
      /\ \A o \in Requests : o # r => /\ req'[o] = req[o] /\ phase'[o] = phase[o]
                                      /\ seen'[o] = seen[o]
  BY <1>1, <1>2, <1>3
<1>5. phase' \in [Requests -> Phases]
  <2>1. "gone" \in Phases
    BY DEF Phases
  <2> QED BY <1>1, <1>2, <2>1
<1> DEFINE kept == {b \in DOMAIN kv : \E o \in Requests \ {r} : Contains(req[o].table, b)}
<1>6. kv' = [b \in kept |-> kv[b]]
  <2>1. kv' = Restrict(kv, kept)
    BY DEF Freed
  <2> HIDE DEF kept
  <2> QED BY <2>1 DEF Restrict
<1>7. \A b : \A o \in Requests : Contains(req[o].table, b) <=> InTable(req[o], b)
  <2> TAKE b
  <2> TAKE o \in Requests
  <2>1. DOMAIN req[o].table = 1 .. Len(req[o].table)
    BY <1>2, Fields
  <2> QED BY <2>1 DEF Contains, InTable
<1>8. \A b \in DOMAIN kv : b \in kept <=> \E o \in Requests : o # r /\ InTable(req[o], b)
  BY <1>7
<1>9. /\ DOMAIN kv' \subseteq DOMAIN kv /\ \A b \in DOMAIN kv' : kv'[b] = kv[b]
      /\ \A b \in DOMAIN kv : b \in DOMAIN kv' <=> \E o \in Requests : o # r /\ InTable(req[o], b)
  <2>1. kept \subseteq DOMAIN kv
    OBVIOUS
  <2> HIDE DEF kept
  <2> QED BY <1>6, <1>8, <2>1
<1> QED BY <1>4, <1>5, <1>9 DEF Leaves

(* finish_request.                                                           *)
LEMMA FinishStep ==
    ASSUME IInv, NEW r \in Requests, Finish(r)
    PROVE  IInv' /\ WrittenOnce
<1>1. r \in Holders /\ Freed(r)
  BY DEF Finish, Holders, HasBlocks
<1>2. past' = [o \in DOMAIN past \ {r} |-> past[o]]
  BY DEF Finish, Restrict
<1>3. /\ DOMAIN past' \subseteq DOMAIN past
      /\ \A o \in DOMAIN past : o # r => o \in DOMAIN past' /\ past'[o] = past[o]
  BY <1>2
<1>4. Leaves(r)
  BY <1>1, <1>3, FreedLeaves
<1> QED BY <1>4, LeavesKeeps

(* A request that is refused a block.                                        *)
LEMMA RefuseStep ==
    ASSUME IInv, NEW r \in Requests, Refuse(r)
    PROVE  IInv' /\ WrittenOnce
<1>1. r \in Holders /\ Freed(r) /\ past' = past
  BY DEF Refuse, Holders, HasBlocks
<1>2. Leaves(r)
  BY <1>1, FreedLeaves
<1> QED BY <1>2, LeavesKeeps

-----------------------------------------------------------------------------
(* The theorems.                                                             *)
LEMMA InitInv == Init => IInv
<1> SUFFICES ASSUME Init PROVE IInv
  OBVIOUS
<1>1. /\ kv = <<>> /\ past = <<>> /\ req = [r \in Requests |-> NoRequest]
      /\ phase = [r \in Requests |-> "new"] /\ seen = [r \in Requests |-> <<>>]
  BY DEF Init
<1>2. DOMAIN kv = {} /\ DOMAIN past = {} /\ Holders = {}
  BY <1>1 DEF Holders, HasBlocks
<1>3. TypeInv
  <2>1. NoRequest \in RequestType
    <3>1. 0 \in Slots /\ 0 \in Nat
      BY Sizes DEF Slots
    <3>2. <<>> \in Seq(Nat) /\ <<>> \in Seq(Blocks)
      OBVIOUS
    <3> QED BY <3>1, <3>2 DEF NoRequest, RequestType
  <2>2. "new" \in Phases
    BY DEF Phases
  <2> QED BY <1>1, <1>2, <2>1, <2>2 DEF TypeInv
<1>4. PoolInv /\ HoldersInv /\ HoldsInv /\ BlankInv /\ SharedInv
  BY <1>2 DEF PoolInv, HoldersInv, HoldsInv, BlankInv, SharedInv
<1>5. NobodyInv /\ PastInv /\ DecodesFromAllTokens
  BY <1>1, <1>2 DEF NobodyInv, PastInv, DecodesFromAllTokens, In
<1> QED BY <1>3, <1>4, <1>5 DEF IInv

(* Every step keeps the invariant, and overwrites no KV.                     *)
LEMMA NextKeepsInv == IInv /\ [Next]_vars => IInv' /\ WrittenOnce
<1> SUFFICES ASSUME IInv, [Next]_vars PROVE IInv' /\ WrittenOnce
  OBVIOUS
<1>1. CASE \E r \in Requests, p \in Prompts : AdmitNew(r, p) \/ AdmitReuse(r, p)
  BY <1>1, AdmitNewStep, AdmitReuseStep
<1>2. CASE \E r \in Requests : Extend(r) \/ Finish(r) \/ Refuse(r)
  BY <1>2, ExtendStep, FinishStep, RefuseStep
<1>3. CASE Prefill
  BY <1>3, PrefillStep
<1>4. CASE PrefillOne
  BY <1>4, PrefillOneStep
<1>5. CASE Decode
  BY <1>5, DecodeStep
<1>6. CASE UNCHANGED vars
  <2>1. kv' = kv /\ past' = past /\ req' = req /\ phase' = phase /\ seen' = seen
    BY <1>6 DEF vars
  <2>2. /\ Holders' = Holders /\ InUse' = InUse
    BY <2>1 DEF Holders, InUse
  <2>3. TypeInv' /\ PoolInv' /\ NobodyInv' /\ HoldersInv' /\ PastInv'
    BY <2>1, <2>2 DEF IInv, TypeInv, PoolInv, NobodyInv, HoldersInv, PastInv
  <2>4. HoldsInv' /\ BlankInv'
    BY <2>1, <2>2 DEF IInv, HoldsInv, BlankInv, Capacity
  <2>5. SharedInv'
    <3>1. ASSUME NEW o \in Holders', NEW u \in Holders', o # u,
                 NEW i \in DOMAIN req'[o].table, NEW j \in DOMAIN req'[u].table,
                 req'[o].table[i] = req'[u].table[j]
          PROVE  After(req'[o], i) <= NumOf(phase'[o], req'[o])
      BY <2>1, <2>2, <3>1 DEF IInv, SharedInv
    <3> QED BY <3>1 DEF SharedInv, After
  <2>6. DecodesFromAllTokens'
    BY <2>1 DEF IInv, DecodesFromAllTokens, In
  <2>7. WrittenOnce
    BY <2>1 DEF WrittenOnce
  <2> QED BY <2>3, <2>4, <2>5, <2>6, <2>7 DEF IInv
<1> QED BY <1>1, <1>2, <1>3, <1>4, <1>5, <1>6 DEF Next

(* The properties follow: types,                                             *)
LEMMA InvIsTyped == IInv => TypeOK
<1> SUFFICES ASSUME IInv PROVE TypeOK
  OBVIOUS
<1>1. /\ req \in [Requests -> RequestType] /\ phase \in [Requests -> Phases]
      /\ DOMAIN past \subseteq Requests
  BY DEF IInv, TypeInv
<1>2. ASSUME NEW r \in Requests
      PROVE  /\ req[r].table \in Seq(Blocks)
             /\ req[r].progress \in 0 .. Len(req[r].prompt)
             /\ Len(req[r].out) <= 2 \/ Len(req[r].out) <= MaxNew
  <2>1. req[r].table \in Seq(Blocks) /\ req[r].progress \in Nat /\ Len(req[r].prompt) \in Nat
    BY <1>1, Fields
  <2>2. CASE r \in Holders
    <3>1. Stage(phase[r], req[r])
      BY <2>2 DEF IInv, HoldersInv
    <3>2. req[r].progress <= Len(req[r].prompt)
      BY <3>1 DEF Stage
    <3>3. Len(req[r].out) <= 2 \/ Len(req[r].out) <= MaxNew
      <4>1. CASE phase[r] = "prefilling"
        BY <3>1, <4>1 DEF Stage
      <4>2. CASE phase[r] # "prefilling"
        BY <3>1, <4>2 DEF Stage
      <4> QED BY <4>1, <4>2
    <3> QED BY <2>1, <3>2, <3>3
  <2>3. CASE r \notin Holders
    <3>1. req[r] = NoRequest
      BY <2>3 DEF IInv, NobodyInv
    <3>2. NoRequest.prompt = <<>> /\ NoRequest.progress = 0 /\ NoRequest.out = <<>>
      BY DEF NoRequest
    <3> QED BY <2>1, <3>1, <3>2
  <2> QED BY <2>2, <2>3
<1>3. DOMAIN kv \subseteq Blocks
  <2> SUFFICES ASSUME NEW b \in DOMAIN kv
               PROVE  b \in Blocks
    OBVIOUS
  <2>1. PICK r \in Requests : InTable(req[r], b)
    BY BlocksInUse DEF IInv, PoolInv
  <2>2. PICK i \in DOMAIN req[r].table : req[r].table[i] = b
    BY <2>1 DEF InTable
  <2> DEFINE table == req[r].table
  <2>3. table \in Seq(Blocks) /\ i \in DOMAIN table
    BY <1>2
  <2> HIDE DEF table
  <2>4. table[i] \in Blocks
    BY <2>3
  <2> QED BY <2>2, <2>4 DEF table
<1>4. \A b \in DOMAIN kv : DOMAIN kv[b] = Slots
  BY DEF IInv, PoolInv
<1> QED BY <1>1, <1>2, <1>3, <1>4 DEF TypeOK

(* and what is read.                                                         *)
LEMMA InvIsRead == IInv => ReadsItsOwnTokens
<1> SUFFICES ASSUME IInv, NEW r \in In("prefilling") \cup In("running")
             PROVE  LET tokens == Computed(r)
                    IN  /\ Read(req[r], Len(tokens)) = [i \in DOMAIN tokens |-> SubSeq(tokens, 1, i)]
                        /\ phase[r] = "running" => past[r] = Len(tokens)
  BY DEF ReadsItsOwnTokens
<1> DEFINE t == TokensOf(phase[r], req[r])
           n == NumOf(phase[r], req[r])
<1>1. Computed(r) = t
  BY DEF Computed, TokensOf
<1>2. r \in Holders /\ r \in Requests
  BY DEF In, Holders, HasBlocks
<1>3. t \in Seq(Nat) /\ Len(t) = n /\ Read(req[r], n) = [i \in 1 .. n |-> SubSeq(t, 1, i)]
  BY <1>2, PastOf
<1>4. phase[r] = "running" => past[r] = n
  BY <1>2 DEF IInv, PastInv
<1> HIDE DEF t, n
<1>5. DOMAIN t = 1 .. n
  BY <1>3
<1> QED BY <1>1, <1>3, <1>4, <1>5

(* native.py, kv_cache.py: the blocks with tensors are blocks of the pool,   *)
(* each with all its slots; a request has no more tokens than it asked for,  *)
(* but for the two everyone gets.                                            *)
THEOREM BackendIsTyped == Spec => []TypeOK
BY InitInv, NextKeepsInv, InvIsTyped, PTL DEF Spec

(* kv_cache.py:189 (read_layer): what a request reads from its blocks is the *)
(* KV of its own tokens, in order, none missing, each computed from all      *)
(* before it, and _past_len is their number, whatever is batched with it and *)
(* whoever shares its blocks.                                                *)
THEOREM BackendReadsItsOwn == Spec => []ReadsItsOwnTokens
BY InitInv, NextKeepsInv, InvIsRead, PTL DEF Spec

(* native.py:324 (batch_decode): from its second token on, each token of a   *)
(* running request is computed from its prompt and all its tokens.           *)
THEOREM BackendDecodesFromAll == Spec => []DecodesFromAllTokens
<1>1. IInv => DecodesFromAllTokens
  BY DEF IInv
<1> QED BY <1>1, InitInv, NextKeepsInv, PTL DEF Spec

(* kv_cache.py:161-187: while a block keeps its tensors, no slot with KV is  *)
(* written again; so nothing that is reused changes under those who share    *)
(* it.                                                                       *)
THEOREM BackendWritesOnce == Spec => NoKVIsOverwritten
<1>1. IInv /\ [Next]_vars => [WrittenOnce]_vars
  BY NextKeepsInv
<1>2. Spec => [][WrittenOnce]_vars
  BY <1>1, InitInv, NextKeepsInv, PTL DEF Spec
<1> QED BY <1>2 DEF NoKVIsOverwritten, WrittenOnce

=============================================================================
