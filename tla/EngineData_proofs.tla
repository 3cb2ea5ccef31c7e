------------------------- MODULE EngineData_proofs --------------------------
(***************************************************************************)
(* What becomes of the data of the engine, for any requests, prompts, pool *)
(* and sizes: what Engine_proofs says of each operation on the pool and on *)
(* the tree holds of all that the engine does with them, from which the    *)
(* types of its state follow, and that a prefill step stays within its     *)
(* budget.                                                                 *)
(***************************************************************************)
EXTENDS Engine_proofs

-----------------------------------------------------------------------------
(* The data of the engine: the pool, the tree, what is kept of each request. *)
(* The tokens that prompts are made of.                                      *)
Tokens == UNION {ToSet(p) : p \in Prompts}

(* The match results that the engine keeps hold in a tree; those of requests *)
(* that are not in prefill refer to nothing.                                 *)
ReferencesHold(T, Q) == \A r \in Requests : IsMatch(T, Q[r].prompt, Q[r].match)
MatchesAreUsed == \A r \in Requests : r \notin ToSet(prefilling) => req[r].match = NoMatch

DataIsRight(Q) ==
    \A r \in Requests : /\ Q[r].prompt \in Prompts \cup {<<>>}
                        /\ Q[r].table \in Seq(Blocks)
                        /\ Q[r].progress \in 0 .. Len(Q[r].prompt)

Places == LoopFree \cup {"admit", "prefill", "decode"}

(* The inductive invariant.                                                  *)
DataInv ==
    /\ IsHeap(Tokens, tree) /\ IsPool(pool)
    /\ ReferencesHold(tree, req) /\ MatchesAreUsed /\ DataIsRight(req)
    /\ backend \subseteq Requests /\ pc \in Places

LEMMA PromptsAreSequences == \A p \in Prompts \cup {<<>>} : p \in Seq(Tokens)
<1>1. \A p \in Prompts : p \in Seq(Tokens)
  BY EngineAssumption DEF Tokens
<1>2. <<>> \in Seq(Tokens)
  OBVIOUS
<1> QED BY <1>1, <1>2

(* A result that refers to nothing holds in every tree.                      *)
LEMMA NoMatchHolds ==
    ASSUME NEW T, IsHeap(Tokens, T), NEW tokens \in Seq(Tokens)
    PROVE  IsMatch(T, tokens, NoMatch) /\ NoMatch.node = Root /\ NoMatch.child = Root
<1>1. /\ NoMatch.node = Root /\ NoMatch.child = Root /\ NoMatch.pos = 0
      /\ NoMatch.blocks = <<>> /\ NoMatch.common = 0 /\ NoMatch.split = FALSE
  BY DEF NoMatch, MatchStart
<1>2. Root \in DOMAIN T.node /\ Len(tokens) \in Nat
  BY DEF IsHeap
<1> QED BY <1>1, <1>2 DEF IsMatch

(* References hold in a tree that has the nodes of another where they do,    *)
LEMMA ReferencesStay ==
    ASSUME NEW T, NEW U, HasNodesOf(U, T), NEW Q, ReferencesHold(T, Q)
    PROVE  ReferencesHold(U, Q)
BY MatchStays DEF ReferencesHold

(* for requests with the prompts and the match results of others,            *)
LEMMA ReferencesOfOthers ==
    ASSUME NEW T, NEW Q, ReferencesHold(T, Q), NEW P,
           \A r \in Requests : P[r].prompt = Q[r].prompt /\ P[r].match = Q[r].match
    PROVE  ReferencesHold(T, P)
BY DEF ReferencesHold

(* and when the nodes are collected that nobody refers to.                   *)
LEMMA CollectKeeps ==
    ASSUME NEW T, IsHeap(Tokens, T), NEW Q, ReferencesHold(T, Q)
    PROVE  /\ IsHeap(Tokens, Collect(T, MatchedNodes(Q)))
           /\ ReferencesHold(Collect(T, MatchedNodes(Q)), Q)
<1> DEFINE S == MatchedNodes(Q)
           U == Collect(T, S)
<1>1. S \subseteq DOMAIN T.node
  BY DEF MatchedNodes, ReferencesHold, IsMatch
<1>2. \A r \in Requests : {Q[r].match.node, Q[r].match.child} \subseteq S
  BY DEF MatchedNodes
<1> HIDE DEF S
<1>3. IsHeap(Tokens, U) /\ S \subseteq DOMAIN U.node /\ HasNodesOf(T, U)
  BY <1>1, CollectIsHeap
<1> HIDE DEF U
<1>4. ASSUME NEW r \in Requests PROVE IsMatch(U, Q[r].prompt, Q[r].match)
  <2>1. IsMatch(T, Q[r].prompt, Q[r].match)
    BY DEF ReferencesHold
  <2>2. {Q[r].match.node, Q[r].match.child} \subseteq DOMAIN U.node
    BY <1>2, <1>3
  <2> QED BY <1>3, <2>1, <2>2, MatchStays
<1> QED BY <1>3, <1>4 DEF ReferencesHold, U, S

(* What a tree has left when nobody refers to it.                            *)
LEMMA CollectAllKeeps ==
    ASSUME NEW T, IsHeap(Tokens, T)
    PROVE  IsHeap(Tokens, Collect(T, {}))
BY CollectIsHeap

-----------------------------------------------------------------------------
(* Growing the tables of the running requests.                               *)
GrowsRight(s) ==
    /\ OnlyGrows(s)
    /\ IsHeap(Tokens, s.tree) /\ s.tree.node = tree.node /\ IsPool(s.pool)
    /\ \A r \in Requests : /\ s.req[r].table \in Seq(Blocks)
                           /\ s.req[r].match = req[r].match
                           /\ s.req[r].progress = req[r].progress

LEMMA GrowIsRight ==
    ASSUME DataInv, RequestsAreTyped, NEW s, GrowsRight(s), NEW r \in Requests, r \in ToSet(running)
    PROVE  GrowsRight(Grow(s, r))
<1> DEFINE len == Len(s.req[r].table)
           total == TotalTokens(s.req[r])
           room == EvictUntilRoom(s.tree, s.pool, len, total)
           roomy == [s EXCEPT !.tree = room.tree, !.pool = room.pool]
<1>1. OnlyGrows(Grow(s, r))
  BY GrowStep DEF GrowsRight
<1>2. len \in Nat /\ total \in Nat
  <2>1. s.req[r].table \in Seq(Blocks)
    BY DEF GrowsRight
  <2>2. /\ s.req[r].prompt = req[r].prompt /\ s.req[r].gen = req[r].gen
    BY DEF GrowsRight, OnlyGrows
  <2>3. req[r].prompt \in Seq(Tokens) /\ req[r].gen \in Nat
    BY PromptsAreSequences DEF DataInv, DataIsRight, RequestsAreTyped
  <2>4. total = Len(req[r].prompt) + req[r].gen
    BY <2>2 DEF TotalTokens
  <2>5. Len(req[r].prompt) \in Nat
    BY <2>3
  <2> HIDE DEF total
  <2> QED BY <2>1, <2>3, <2>4, <2>5
<1> HIDE DEF len, total
<1>3. CASE total <= Capacity(s.req[r])
  BY <1>3 DEF Grow, total
<1>4. IsHeap(Tokens, room.tree) /\ room.tree.node = s.tree.node /\ IsPool(room.pool)
  <2>1. IsRoomFor(Tokens, s.tree, room)
    BY RoomIsSound DEF GrowsRight
  <2> QED BY <2>1 DEF IsRoomFor
<1> HIDE DEF room
<1>5. /\ roomy.tree = room.tree /\ roomy.pool = room.pool /\ roomy.req = s.req
      /\ DOMAIN roomy = {"tree", "pool", "req", "oom"}
  BY DEF GrowsRight, OnlyGrows
<1>6. CASE ~ (total <= Capacity(s.req[r])) /\ ~CanAllocate(room.pool, len, total)
  <2> DEFINE t == [roomy EXCEPT !.oom = Append(@, r)]
  <2>1. Grow(s, r) = t
    BY <1>6 DEF Grow, len, total, room
  <2>2. t.tree = roomy.tree /\ t.pool = roomy.pool /\ t.req = roomy.req
    BY <1>5
  <2> HIDE DEF t, roomy
  <2> QED BY <1>1, <1>4, <1>5, <2>1, <2>2 DEF GrowsRight
<1>7. CASE ~ (total <= Capacity(s.req[r])) /\ CanAllocate(room.pool, len, total)
  <2> DEFINE got == Allocated(room.pool, len, total)
             t == [roomy EXCEPT !.pool = Allocate(@, len, total), !.req[r].table = @ \o got]
  <2>1. Grow(s, r) = t
    BY <1>7 DEF Grow, len, total, room
  <2>2. IsPool(Allocate(room.pool, len, total)) /\ got \in Seq(Blocks)
    BY <1>2, <1>4, <1>7, AllocateIsPool
  <2> HIDE DEF got
  <2>3. /\ t.tree = roomy.tree /\ t.pool = Allocate(roomy.pool, len, total)
        /\ t.req = [roomy.req EXCEPT ![r].table = @ \o got]
    BY <1>5
  <2> HIDE DEF t, roomy
  <2>4. DOMAIN s.req = Requests /\ \A q \in Requests : DOMAIN s.req[q] = Fields
    BY DEF GrowsRight, OnlyGrows
  <2>5. t.req = [s.req EXCEPT ![r].table = @ \o got]
    BY <1>5, <2>3
  <2>6. \A q \in Requests :
           /\ t.req[q].table = IF q = r THEN s.req[q].table \o got ELSE s.req[q].table
           /\ t.req[q].match = s.req[q].match
           /\ t.req[q].progress = s.req[q].progress
    BY <2>4, <2>5 DEF Fields
  <2>7. \A q \in Requests : /\ t.req[q].table \in Seq(Blocks)
                            /\ t.req[q].match = req[q].match
                            /\ t.req[q].progress = req[q].progress
    <3> TAKE q \in Requests
    <3>1. /\ s.req[q].table \in Seq(Blocks) /\ s.req[q].match = req[q].match
          /\ s.req[q].progress = req[q].progress
      BY DEF GrowsRight
    <3>2. s.req[q].table \o got \in Seq(Blocks)
      BY <2>2, <3>1
    <3> QED BY <2>6, <3>1, <3>2
  <2>8. IsHeap(Tokens, t.tree) /\ t.tree.node = tree.node /\ IsPool(t.pool)
    BY <1>4, <1>5, <2>2, <2>3 DEF GrowsRight
  <2> QED BY <1>1, <2>1, <2>7, <2>8 DEF GrowsRight
<1> QED BY <1>3, <1>6, <1>7

LEMMA GrownIsRight ==
    ASSUME DataInv, RequestsAreTyped, running \in Seq(Requests)
    PROVE  GrowsRight(Grown)
<1> DEFINE start == [tree |-> tree, pool |-> pool, req |-> req, oom |-> <<>>]
<1>1. /\ Len(running) \in Nat /\ DOMAIN running = 1 .. Len(running)
      /\ \A i \in 1 .. Len(running) : running[i] \in Requests /\ running[i] \in ToSet(running)
  BY ListLength
<1>2. Grown = GrowingOf!Fold(0, start, running)
  BY DEF Grown, GrowOf, GrowingOf!Fold, FoldLeft,
         GrowingOf!MapThenFoldSet, MapThenFoldSet, GrowingOf!Max, Max
<1>3. GrowsRight(start)
  <2>1. OnlyGrows(start)
    BY DEF OnlyGrows, RequestsAreTyped, ToSet
  <2> QED BY <2>1 DEF GrowsRight, DataInv, DataIsRight
<1> HIDE DEF start
<1>4. PICK f : /\ f[0] = start
               /\ \A i \in 0 .. Len(running) - 1 : f[i + 1] = Grow(f[i], running[i + 1])
               /\ Grown = f[Len(running)]
  BY <1>1, <1>2, GrowingOf!FoldSteps DEF GrowOf
<1> DEFINE P == {i \in 0 .. Len(running) : GrowsRight(f[i])}
<1>5. 0 \in P
  BY <1>1, <1>3, <1>4
<1>6. ASSUME NEW i \in 0 .. Len(running) - 1, i \in P
      PROVE  i + 1 \in P
  <2>1. i + 1 \in 1 .. Len(running) /\ i + 1 \in 0 .. Len(running)
    BY <1>1
  <2>2. GrowsRight(Grow(f[i], running[i + 1]))
    BY <1>1, <1>6, <2>1, GrowIsRight
  <2> QED BY <1>4, <2>1, <2>2
<1> HIDE DEF P
<1>7. Len(running) \in Nat
  BY <1>1
<1>8. \A i \in 0 .. Len(running) : i \in P
  BY <1>5, <1>6, <1>7, GrowingOf!IntervalInduction
<1> QED BY <1>4, <1>7, <1>8 DEF P

(* The blocks of some requests are blocks.                                   *)
TableOf(Q, s, r) == s \o Q[r].table
TablesFold == INSTANCE Folding WITH op <- TableOf

LEMMA TablesAreBlocks ==
    ASSUME NEW Q, \A r \in Requests : Q[r].table \in Seq(Blocks), NEW list \in Seq(Requests)
    PROVE  TablesOf(Q, list) \in Seq(Blocks)
<1>1. /\ Len(list) \in Nat /\ DOMAIN list = 1 .. Len(list)
      /\ \A i \in 1 .. Len(list) : list[i] \in Requests
  BY ListLength
<1>2. TablesOf(Q, list) = TablesFold!Fold(Q, <<>>, list)
  BY DEF TablesOf, TableOf, TablesFold!Fold, FoldLeft,
         TablesFold!MapThenFoldSet, MapThenFoldSet, TablesFold!Max, Max
<1>3. PICK f : /\ f[0] = <<>>
               /\ \A i \in 0 .. Len(list) - 1 : f[i + 1] = TableOf(Q, f[i], list[i + 1])
               /\ TablesOf(Q, list) = f[Len(list)]
  BY <1>1, <1>2, TablesFold!FoldSteps
<1> DEFINE P == {i \in 0 .. Len(list) : f[i] \in Seq(Blocks)}
<1>4. 0 \in P
  <2>1. f[0] \in Seq(Blocks)
    BY <1>3
  <2>2. 0 \in 0 .. Len(list)
    BY <1>1
  <2> QED BY <2>1, <2>2
<1>5. ASSUME NEW i \in 0 .. Len(list) - 1, i \in P
      PROVE  i + 1 \in P
  <2>1. i + 1 \in 1 .. Len(list) /\ i + 1 \in 0 .. Len(list)
    BY <1>1
  <2>2. Q[list[i + 1]].table \in Seq(Blocks) /\ f[i] \in Seq(Blocks)
    BY <1>1, <1>5, <2>1
  <2>3. f[i + 1] = f[i] \o Q[list[i + 1]].table
    BY <1>3 DEF TableOf
  <2>4. f[i + 1] \in Seq(Blocks)
    BY <2>2, <2>3
  <2> QED BY <2>1, <2>4
<1> HIDE DEF P
<1>6. Len(list) \in Nat
  BY <1>1
<1>7. \A i \in 0 .. Len(list) : i \in P
  BY <1>4, <1>5, <1>6, TablesFold!IntervalInduction
<1> QED BY <1>3, <1>6, <1>7 DEF P

-----------------------------------------------------------------------------
(* Sums.                                                                     *)
PlusOf(f, s, x) == f[x] + s
SumsOf == INSTANCE Folding WITH op <- PlusOf

LEMMA SumTakesAway ==
    ASSUME NEW S, IsFiniteSet(S), NEW f, \A x \in S : f[x] \in Nat
    PROVE  /\ SumFunctionOnSet(f, {}) = 0
           /\ SumFunctionOnSet(f, S) \in Nat
           /\ \A x \in S : SumFunctionOnSet(f, S) = f[x] + SumFunctionOnSet(f, S \ {x})
<1>1. \A T : SumFunctionOnSet(f, T) = SumsOf!SetFold(f, 0, T)
  BY DEF SumFunctionOnSet, FoldFunctionOnSet, PlusOf, SumsOf!SetFold,
         SumsOf!FoldSet, FoldSet, SumsOf!MapThenFoldSet, MapThenFoldSet
<1>2. SumsOf!IsFiniteSet(S)
  BY DEF IsFiniteSet, SumsOf!IsFiniteSet
<1>3. \A v \in Nat, x \in S : PlusOf(f, v, x) \in Nat
  BY DEF PlusOf
<1>4. \A v \in Nat, x, y \in S : PlusOf(f, PlusOf(f, v, x), y) = PlusOf(f, PlusOf(f, v, y), x)
  BY DEF PlusOf
<1>5. /\ SumsOf!SetFold(f, 0, {}) = 0
      /\ SumsOf!SetFold(f, 0, S) \in Nat
      /\ \A x \in S : SumsOf!SetFold(f, 0, S) = PlusOf(f, SumsOf!SetFold(f, 0, S \ {x}), x)
  <2>1. 0 \in Nat
    OBVIOUS
  <2>2. SumsOf!StepsChangePlaces(f, 0, S, Nat)
    BY <1>2, <1>3, <1>4, <2>1 DEF SumsOf!StepsChangePlaces
  <2> QED BY <2>2, SumsOf!SetFoldAnyOrder
<1> QED BY <1>1, <1>5 DEF PlusOf

LEMMA SumsAgree ==
    ASSUME NEW S, IsFiniteSet(S), NEW f, NEW g,
           \A x \in S : f[x] \in Nat /\ g[x] = f[x]
    PROVE  /\ SumFunctionOnSet(f, S) = SumFunctionOnSet(g, S)
           /\ (\A x \in S : f[x] = 0) => SumFunctionOnSet(f, S) = 0
<1> DEFINE n == Cardinality(S)
           P == {k \in Nat : \A T \in SUBSET S : Cardinality(T) <= k =>
                   /\ SumFunctionOnSet(f, T) = SumFunctionOnSet(g, T)
                   /\ (\A x \in S : f[x] = 0) => SumFunctionOnSet(f, T) = 0}
<1>1. n \in Nat /\ \A T \in SUBSET S : IsFiniteSet(T) /\ Cardinality(T) \in Nat
                                       /\ Cardinality(T) <= n
                                       /\ (Cardinality(T) = 0 <=> T = {})
  <2>1. \A T \in SUBSET S : IsFiniteSet(T) /\ Cardinality(T) <= Cardinality(S)
    BY FS_Subset
  <2>2. \A T \in SUBSET S : Cardinality(T) \in Nat /\ (Cardinality(T) = 0 <=> T = {})
    BY <2>1, FS_CardinalityType, FS_EmptySet
  <2> QED BY <2>1, <2>2
<1>2. \A T \in SUBSET S : T = {} => SumFunctionOnSet(f, T) = 0 /\ SumFunctionOnSet(g, T) = 0
  BY SumTakesAway
<1>3. 0 \in P
  <2>1. ASSUME NEW T \in SUBSET S, Cardinality(T) <= 0 PROVE T = {}
    <3>1. Cardinality(T) \in Nat /\ (Cardinality(T) = 0 <=> T = {})
      BY <1>1
    <3> QED BY <2>1, <3>1
  <2> QED BY <1>2, <2>1
<1>4. ASSUME NEW k \in 0 .. n - 1, k \in P PROVE k + 1 \in P
  <2>0. k \in Nat
    BY <1>1
  <2> SUFFICES ASSUME NEW T \in SUBSET S, Cardinality(T) <= k + 1
               PROVE  /\ SumFunctionOnSet(f, T) = SumFunctionOnSet(g, T)
                      /\ (\A x \in S : f[x] = 0) => SumFunctionOnSet(f, T) = 0
    BY <2>0
  <2>1. CASE T = {}
    BY <1>2, <2>1
  <2>2. CASE T # {}
    <3>1. PICK y \in T : TRUE
      BY <2>2
    <3> DEFINE R == T \ {y}
    <3>2. R \in SUBSET S /\ Cardinality(R) = Cardinality(T) - 1
      BY <1>1, <3>1, FS_RemoveElement
    <3>3. Cardinality(R) <= k
      BY <1>1, <2>0, <3>2
    <3>4. /\ SumFunctionOnSet(f, R) = SumFunctionOnSet(g, R)
          /\ (\A x \in S : f[x] = 0) => SumFunctionOnSet(f, R) = 0
      BY <1>4, <3>2, <3>3
    <3>5. IsFiniteSet(T) /\ \A x \in T : f[x] \in Nat /\ g[x] \in Nat
      BY <1>1
    <3>6. /\ SumFunctionOnSet(f, T) = f[y] + SumFunctionOnSet(f, R)
          /\ SumFunctionOnSet(g, T) = g[y] + SumFunctionOnSet(g, R)
      BY <3>1, <3>5, SumTakesAway
    <3>7. g[y] = f[y] /\ y \in S
      BY <3>1
    <3> HIDE DEF R
    <3>8. (\A x \in S : f[x] = 0) => SumFunctionOnSet(f, T) = 0
      BY <3>4, <3>6, <3>7
    <3> QED BY <3>4, <3>6, <3>7, <3>8
  <2> QED BY <2>1, <2>2
<1>5. n \in P
  <2> HIDE DEF P, n
  <2> QED BY <1>1, <1>3, <1>4, SumsOf!IntervalInduction
<1> QED BY <1>1, <1>5

-----------------------------------------------------------------------------
(* The chunks that one prefill step gives.                                   *)
LeastIsRight(a, b, c) ==
    LET m == Min({a, b, c})
    IN  /\ m \in {a, b, c} /\ m <= a /\ m <= b /\ m <= c
        /\ m = a \/ m = Min({b, c})

LEMMA LeastOfThree ==
    ASSUME NEW a \in Int, NEW b \in Int, NEW c \in Int
    PROVE  LeastIsRight(a, b, c)
<1>1. \E m \in {a, b, c} : \A x \in {a, b, c} : m =< x
  <2>1. CASE a <= b /\ a <= c
    BY <2>1
  <2>2. CASE b <= a /\ b <= c
    BY <2>2
  <2>3. CASE c <= a /\ c <= b
    BY <2>3
  <2> QED BY <2>1, <2>2, <2>3
<1>2. \E m \in {b, c} : \A x \in {b, c} : m =< x
  OBVIOUS
<1> DEFINE m == Min({a, b, c})
           k == Min({b, c})
<1>3. m \in {a, b, c} /\ \A x \in {a, b, c} : m =< x
  BY <1>1 DEF Min
<1>4. k \in {b, c} /\ \A x \in {b, c} : k =< x
  BY <1>2 DEF Min
<1> HIDE DEF m, k
<1>5. m = a \/ m = k
  BY <1>3, <1>4
<1> QED BY <1>3, <1>5 DEF m, k, LeastIsRight

ToGo(r) == Len(req[r].prompt) - req[r].progress
Share(s, r) == IF r \in DOMAIN s.end THEN s.end[r] - req[r].progress ELSE 0
HasAll(s, r) == Share(s, r) = Min({MaxChunk, ToGo(r)})

(* After the first i requests in prefill.                                    *)
GivesRight(s, i) ==
    /\ s.budget \in 0 .. MaxStep
    /\ DOMAIN s.end \subseteq {prefilling[j] : j \in 1 .. i}
    /\ \A r \in DOMAIN s.end : s.end[r] \in 0 .. Len(req[r].prompt)
    /\ \A r \in Requests : Share(s, r) \in 0 .. ToGo(r)
    /\ SumFunctionOnSet([r \in Requests |-> Share(s, r)], Requests) = MaxStep - s.budget
    /\ s.budget = 0 \/ \A j \in 1 .. i : HasAll(s, prefilling[j])
    /\ \A j, k \in 1 .. i : j < k /\ Share(s, prefilling[k]) > 0 => HasAll(s, prefilling[j])

LEMMA Lengths ==
    ASSUME DataInv
    PROVE  \A r \in Requests : /\ req[r].progress \in Nat /\ Len(req[r].prompt) \in Nat
                               /\ ToGo(r) \in Nat
                               /\ req[r].prompt \in Seq(Tokens)
<1> TAKE r \in Requests
<1>1. req[r].prompt \in Seq(Tokens) /\ req[r].progress \in 0 .. Len(req[r].prompt)
  BY PromptsAreSequences DEF DataInv, DataIsRight
<1>2. Len(req[r].prompt) \in Nat
  BY <1>1
<1> QED BY <1>1, <1>2 DEF ToGo

LEMMA GiveIsRight ==
    ASSUME DataInv, IsList(prefilling), NEW i \in 0 .. Len(prefilling) - 1,
           NEW s, GivesRight(s, i)
    PROVE  GivesRight(Give(s, prefilling[i + 1]), i + 1)
<1> DEFINE r == prefilling[i + 1]
           chunk == Chunk(req[r], s.budget)
           t == Give(s, r)
           F(u) == [q \in Requests |-> Share(u, q)]
<1>1. /\ Len(prefilling) \in Nat /\ DOMAIN prefilling = 1 .. Len(prefilling)
      /\ \A j \in 1 .. Len(prefilling) : prefilling[j] \in Requests
      /\ i \in Nat /\ i + 1 \in 1 .. Len(prefilling)
  BY ListLength DEF IsList
<1>2. r \in Requests /\ ToGo(r) \in Nat /\ req[r].progress \in Nat
  BY <1>1, Lengths
<1>3. \A j \in 1 .. i : j \in 1 .. Len(prefilling) /\ prefilling[j] # r
  BY <1>1 DEF IsList, IsInjective
<1>4. \A j \in 1 .. i + 1 : j \in 1 .. i \/ j = i + 1
  BY <1>1
<1>5. MaxStep \in Nat /\ MaxChunk \in Nat /\ s.budget \in Nat /\ s.budget <= MaxStep
      /\ MaxChunk > 0
  BY EngineAssumption DEF GivesRight
<1>6. r \notin DOMAIN s.end
  BY <1>3 DEF GivesRight
<1> HIDE DEF r
<1>7. CASE s.budget = 0
  <2>1. t = s
    BY <1>7 DEF Give
  <2>2. Share(s, r) = 0
    BY <1>6 DEF Share
  <2>3. DOMAIN s.end \subseteq {prefilling[j] : j \in 1 .. i + 1}
    <3>1. 1 .. i \subseteq 1 .. i + 1
      BY <1>1
    <3> QED BY <3>1 DEF GivesRight
  <2>4. \A j, k \in 1 .. i + 1 : j < k /\ Share(s, prefilling[k]) > 0 => HasAll(s, prefilling[j])
    <3> TAKE j, k \in 1 .. i + 1
    <3>1. CASE k = i + 1
      BY <2>2, <3>1 DEF r
    <3>2. CASE k # i + 1 /\ j < k
      <4>1. k \in 1 .. i /\ j \in 1 .. i
        BY <1>1, <3>2
      <4> QED BY <4>1 DEF GivesRight
    <3> QED BY <3>1, <3>2
  <2>5. GivesRight(s, i + 1)
    BY <1>7, <2>3, <2>4 DEF GivesRight
  <2> QED BY <2>1, <2>5 DEF r
<1>8. CASE s.budget # 0
  <2>1. /\ chunk = Min({s.budget, MaxChunk, ToGo(r)})
    BY DEF Chunk, ToGo
  <2>2. /\ chunk \in {s.budget, MaxChunk, ToGo(r)} /\ chunk <= s.budget /\ chunk <= ToGo(r)
        /\ chunk = s.budget \/ chunk = Min({MaxChunk, ToGo(r)})
    <3>1. s.budget \in Int /\ MaxChunk \in Int /\ ToGo(r) \in Int
      BY <1>2, <1>5
    <3> DEFINE b == s.budget
               c == MaxChunk
               d == ToGo(r)
               m == Min({b, c, d})
    <3>2. b \in Int /\ c \in Int /\ d \in Int
      BY <3>1
    <3> HIDE DEF b, c, d
    <3>3. LeastIsRight(b, c, d)
      BY <3>2, LeastOfThree
    <3>4. chunk = m
      BY <2>1 DEF b, c, d
    <3>5. /\ m \in {b, c, d} /\ m <= b /\ m <= d
          /\ m = b \/ m = Min({c, d})
      BY <3>3 DEF LeastIsRight
    <3> HIDE DEF m
    <3> QED BY <3>4, <3>5 DEF b, c, d
  <2>3. chunk \in Nat
    BY <1>2, <1>5, <2>2
  <2>4. t = [budget |-> s.budget - chunk,
             end |-> [q \in DOMAIN s.end \cup {r} |->
                         IF q = r THEN req[r].progress + chunk ELSE s.end[q]]]
    BY <1>5, <1>8 DEF Give
  <2> HIDE DEF chunk
  <2>5. /\ t.budget = s.budget - chunk /\ DOMAIN t.end = DOMAIN s.end \cup {r}
        /\ t.end[r] = req[r].progress + chunk
        /\ \A q \in DOMAIN s.end : q # r => t.end[q] = s.end[q]
    BY <2>4
  <2> HIDE DEF t
  <2>6. Share(t, r) = chunk
    BY <1>2, <2>3, <2>5 DEF Share
  <2>7. \A q : q # r => Share(t, q) = Share(s, q)
    BY <2>5 DEF Share
  <2>8. t.budget \in 0 .. MaxStep
    BY <1>5, <2>2, <2>3, <2>5
  <2>9. DOMAIN t.end \subseteq {prefilling[j] : j \in 1 .. i + 1}
    <3>1. 1 .. i \subseteq 1 .. i + 1 /\ i + 1 \in 1 .. i + 1
      BY <1>1
    <3>2. DOMAIN s.end \subseteq {prefilling[j] : j \in 1 .. i}
      BY DEF GivesRight
    <3> QED BY <2>5, <3>1, <3>2 DEF r
  <2>10. \A q \in Requests : Share(t, q) \in 0 .. ToGo(q)
    <3> TAKE q \in Requests
    <3>1. CASE q = r
      BY <1>2, <2>2, <2>3, <2>6, <3>1
    <3>2. CASE q # r
      BY <2>7, <3>2 DEF GivesRight
    <3> QED BY <3>1, <3>2
  <2>11. SumFunctionOnSet(F(t), Requests) = MaxStep - t.budget
    <3>1. IsFiniteSet(Requests) /\ IsFiniteSet(Requests \ {r})
      BY EngineAssumption, FS_Subset
    <3>2. \A q \in Requests : F(t)[q] \in Nat /\ F(s)[q] \in Nat
      <4> TAKE q \in Requests
      <4>1. Share(t, q) \in 0 .. ToGo(q) /\ Share(s, q) \in 0 .. ToGo(q) /\ ToGo(q) \in Nat
        BY <2>10, Lengths DEF GivesRight
      <4> QED BY <4>1
    <3>3. F(t)[r] = chunk /\ F(s)[r] = 0 /\ \A q \in Requests \ {r} : F(t)[q] = F(s)[q]
      BY <1>2, <1>6, <2>6, <2>7 DEF Share
    <3>4. SumFunctionOnSet(F(s), Requests) = MaxStep - s.budget
      BY DEF GivesRight
    <3> HIDE DEF F
    <3>5. /\ SumFunctionOnSet(F(t), Requests) = F(t)[r] + SumFunctionOnSet(F(t), Requests \ {r})
          /\ SumFunctionOnSet(F(s), Requests) = F(s)[r] + SumFunctionOnSet(F(s), Requests \ {r})
      BY <1>2, <3>1, <3>2, SumTakesAway
    <3>6. SumFunctionOnSet(F(t), Requests \ {r}) = SumFunctionOnSet(F(s), Requests \ {r})
      BY <3>1, <3>2, <3>3, SumsAgree
    <3>7. SumFunctionOnSet(F(s), Requests \ {r}) \in Nat
      BY <3>1, <3>2, SumTakesAway
    <3> QED BY <1>5, <2>3, <2>5, <3>3, <3>4, <3>5, <3>6, <3>7
  <2>12. \A j \in 1 .. i : HasAll(s, prefilling[j])
    BY <1>8 DEF GivesRight
  <2>13. \A j \in 1 .. i : HasAll(t, prefilling[j])
    BY <1>3, <2>7, <2>12 DEF HasAll
  <2>14. t.budget = 0 \/ HasAll(t, r)
    BY <1>5, <2>2, <2>3, <2>5, <2>6 DEF HasAll
  <2>15. t.budget = 0 \/ \A j \in 1 .. i + 1 : HasAll(t, prefilling[j])
    BY <1>4, <2>13, <2>14 DEF r
  <2>16. \A j, k \in 1 .. i + 1 : j < k => HasAll(t, prefilling[j])
    <3> TAKE j, k \in 1 .. i + 1
    <3> HAVE j < k
    <3>1. j \in 1 .. i
      BY <1>1
    <3> QED BY <2>13, <3>1
  <2>17. \A q \in DOMAIN t.end : t.end[q] \in 0 .. Len(req[q].prompt)
    <3>1. req[r].progress \in Nat /\ Len(req[r].prompt) \in Nat
          /\ ToGo(r) = Len(req[r].prompt) - req[r].progress
      BY <1>2, Lengths DEF ToGo
    <3>2. req[r].progress + chunk \in 0 .. Len(req[r].prompt)
      BY <1>2, <2>2, <2>3, <3>1
    <3>3. \A q \in DOMAIN s.end : s.end[q] \in 0 .. Len(req[q].prompt)
      BY DEF GivesRight
    <3> QED BY <2>5, <3>2, <3>3
  <2>18. GivesRight(t, i + 1)
    BY <2>17, <2>8, <2>9, <2>10, <2>11, <2>15, <2>16 DEF GivesRight
  <2> QED BY <2>18 DEF t, r
<1> QED BY <1>7, <1>8

(* All of them: s is what the loop comes to.                                 *)
LEMMA ChunksAreRight ==
    ASSUME DataInv, IsList(prefilling)
    PROVE  \E s : s.end = ChunkEnds /\ GivesRight(s, Len(prefilling))
<1> DEFINE start == [budget |-> MaxStep, end |-> <<>>]
<1>1. /\ Len(prefilling) \in Nat /\ DOMAIN prefilling = 1 .. Len(prefilling)
  BY ListLength DEF IsList
<1>2. ChunkEnds = GivingOf!Fold(0, start, prefilling).end
  BY DEF ChunkEnds, GiveOf, GivingOf!Fold, FoldLeft,
         GivingOf!MapThenFoldSet, MapThenFoldSet, GivingOf!Max, Max
<1>3. GivesRight(start, 0)
  <2>1. MaxStep \in Nat /\ IsFiniteSet(Requests)
    BY EngineAssumption
  <2>2. start.budget = MaxStep /\ DOMAIN start.end = {}
    OBVIOUS
  <2> HIDE DEF start
  <2>3. \A r : Share(start, r) = 0
    BY <2>2 DEF Share
  <2>4. \A r \in Requests : Share(start, r) \in 0 .. ToGo(r)
    BY <2>3, Lengths
  <2> DEFINE F == [r \in Requests |-> Share(start, r)]
  <2>5. \A r \in Requests : F[r] = 0 /\ F[r] \in Nat
    BY <2>3
  <2> HIDE DEF F
  <2>6. SumFunctionOnSet(F, Requests) = 0
    BY <2>1, <2>5, SumsAgree
  <2>7. SumFunctionOnSet([r \in Requests |-> Share(start, r)], Requests) = MaxStep - start.budget
    BY <2>1, <2>2, <2>6 DEF F
  <2> QED BY <2>1, <2>2, <2>4, <2>7 DEF GivesRight
<1> HIDE DEF start
<1>4. PICK f : /\ f[0] = start
               /\ \A i \in 0 .. Len(prefilling) - 1 : f[i + 1] = Give(f[i], prefilling[i + 1])
               /\ GivingOf!Fold(0, start, prefilling) = f[Len(prefilling)]
  <2> DEFINE all == GivingOf!Fold(0, start, prefilling)
  <2>1. all = GivingOf!Fold(0, start, prefilling)
    OBVIOUS
  <2> HIDE DEF all
  <2>2. \E f : /\ f[0] = start
               /\ \A i \in 0 .. Len(prefilling) - 1 : f[i + 1] = Give(f[i], prefilling[i + 1])
               /\ all = f[Len(prefilling)]
    BY <1>1, <2>1, GivingOf!FoldSteps DEF GiveOf
  <2> QED BY <2>1, <2>2
<1> DEFINE P == {i \in 0 .. Len(prefilling) : GivesRight(f[i], i)}
<1>5. 0 \in P
  BY <1>1, <1>3, <1>4
<1>6. ASSUME NEW i \in 0 .. Len(prefilling) - 1, i \in P
      PROVE  i + 1 \in P
  <2>1. i + 1 \in 0 .. Len(prefilling)
    BY <1>1
  <2>2. GivesRight(Give(f[i], prefilling[i + 1]), i + 1)
    BY <1>6, GiveIsRight
  <2> QED BY <1>4, <2>1, <2>2
<1> HIDE DEF P
<1>7. Len(prefilling) \in Nat
  BY <1>1
<1>8. \A i \in 0 .. Len(prefilling) : i \in P
  BY <1>5, <1>6, <1>7, GivingOf!IntervalInduction
<1>9. GivesRight(f[Len(prefilling)], Len(prefilling))
  BY <1>7, <1>8 DEF P
<1> QED BY <1>2, <1>4, <1>9

-----------------------------------------------------------------------------
(* Who is done with prefill enters the prefix cache.                         *)
CacheOf(p, s, r) ==
    LET ins == Insert(s.tree, req[r].prompt, req[r].table, req[r].match)
    IN  [tree |-> ins.tree, pool |-> IncRefs(s.pool, ins.new)]
CachingOf == INSTANCE Folding WITH op <- CacheOf

CachesRight(s) == IsHeap(Tokens, s.tree) /\ HasNodesOf(s.tree, tree) /\ IsPool(s.pool)

LEMMA CacheIsRight ==
    ASSUME DataInv, NEW s, CachesRight(s), NEW r \in Requests
    PROVE  CachesRight(CacheOf(0, s, r))
<1> DEFINE q == req[r]
           ins == Insert(s.tree, q.prompt, q.table, q.match)
           t == CacheOf(0, s, r)
<1>1. t.tree = ins.tree /\ t.pool = IncRefs(s.pool, ins.new)
  BY DEF CacheOf
<1>2. q.prompt \in Seq(Tokens) /\ q.table \in Seq(Blocks)
  BY Lengths DEF DataInv, DataIsRight
<1>3. IsMatch(s.tree, q.prompt, q.match)
  BY MatchStays DEF DataInv, ReferencesHold, CachesRight
<1> HIDE DEF t, q
<1>4. /\ IsHeap(Tokens, ins.tree) /\ HasNodesOf(ins.tree, s.tree) /\ ins.new \in Seq(Blocks)
  BY <1>2, <1>3, InsertIsSound DEF CachesRight
<1> HIDE DEF ins
<1>5. IsPool(IncRefs(s.pool, ins.new))
  BY <1>4, IncRefsIsPool DEF CachesRight
<1>6. HasNodesOf(ins.tree, tree)
  BY <1>4 DEF HasNodesOf, CachesRight
<1> QED BY <1>1, <1>4, <1>5, <1>6 DEF CachesRight, t

LEMMA AllAreCached ==
    ASSUME DataInv, NEW list \in Seq(Requests)
    PROVE  CachesRight(CachingOf!Fold(0, [tree |-> tree, pool |-> pool], list))
<1> DEFINE start == [tree |-> tree, pool |-> pool]
           all == CachingOf!Fold(0, start, list)
<1>1. /\ Len(list) \in Nat /\ DOMAIN list = 1 .. Len(list)
      /\ \A i \in 1 .. Len(list) : list[i] \in Requests
  BY ListLength
<1>2. all = CachingOf!Fold(0, start, list)
  OBVIOUS
<1>3. CachesRight(start)
  BY DEF CachesRight, DataInv, HasNodesOf
<1> HIDE DEF all
<1>4. PICK f : /\ f[0] = start
               /\ \A i \in 0 .. Len(list) - 1 : f[i + 1] = CacheOf(0, f[i], list[i + 1])
               /\ all = f[Len(list)]
  <2> HIDE DEF start
  <2> QED BY <1>1, <1>2, CachingOf!FoldSteps
<1> HIDE DEF start
<1> DEFINE P == {i \in 0 .. Len(list) : CachesRight(f[i])}
<1>5. 0 \in P
  BY <1>1, <1>3, <1>4
<1>6. ASSUME NEW i \in 0 .. Len(list) - 1, i \in P
      PROVE  i + 1 \in P
  <2>1. i + 1 \in 1 .. Len(list) /\ i + 1 \in 0 .. Len(list)
    BY <1>1
  <2>2. CachesRight(CacheOf(0, f[i], list[i + 1]))
    BY <1>1, <1>6, <2>1, CacheIsRight
  <2> QED BY <1>4, <2>1, <2>2
<1> HIDE DEF P
<1>7. Len(list) \in Nat
  BY <1>1
<1>8. \A i \in 0 .. Len(list) : i \in P
  BY <1>5, <1>6, <1>7, CachingOf!IntervalInduction
<1>9. CachesRight(all)
  BY <1>4, <1>7, <1>8 DEF P
<1> QED BY <1>9 DEF all, start

LEMMA PrefillIsRight ==
    ASSUME DataInv, EngineInv, Prefill
    PROVE  DataInv'
<1> DEFINE end == ChunkEnds
           last == {r \in DOMAIN end : end[r] = Len(req[r].prompt)}
           done == Only(prefilling, last)
           all == CachingOf!Fold(0, [tree |-> tree, pool |-> pool], done)
<1>1. /\ req' = [r \in Requests |->
                      IF r \notin DOMAIN end THEN req[r]
                      ELSE IF r \notin last THEN [req[r] EXCEPT !.progress = end[r]]
                      ELSE [req[r] EXCEPT !.progress = end[r], !.gen = 1, !.match = NoMatch]]
      /\ prefilling' = Only(prefilling, Requests \ last)
      /\ backend' = backend \cup DOMAIN end /\ pc' = "decode"
  BY DEF Prefill
<1>2. tree' = Collect(all.tree, MatchedNodes(req')) /\ pool' = all.pool
  BY DEF Prefill, CacheOf, CachingOf!Fold, FoldLeft,
         CachingOf!MapThenFoldSet, MapThenFoldSet, CachingOf!Max, Max
<1>3. IsList(prefilling) /\ ToSet(prefilling) \subseteq Requests
  BY ListLength DEF EngineInv, ListsAreTyped, IsList
<1>4. PICK s : s.end = ChunkEnds /\ GivesRight(s, Len(prefilling))
  BY <1>3, ChunksAreRight
<1>5. \A r \in DOMAIN end : end[r] \in 0 .. Len(req[r].prompt)
  BY <1>4 DEF GivesRight
<1>6. DOMAIN end \subseteq ToSet(prefilling) /\ last \subseteq DOMAIN end
  <2>1. DOMAIN end \subseteq ToSet(prefilling)
    BY <1>3, ChunksOfThePrefilling DEF IsList
  <2> QED BY <2>1
<1> HIDE DEF end, last
<1>7. IsList(done) /\ ToSet(prefilling') = ToSet(prefilling) \ last
  <2>1. ToSet(Only(prefilling, Requests \ last)) = ToSet(prefilling) \cap (Requests \ last)
    BY <1>3, OnlyThose
  <2>2. IsList(Only(prefilling, last))
    BY <1>3, OnlyThose
  <2> QED BY <1>1, <1>3, <2>1, <2>2
<1>8. CachesRight(all)
  BY <1>7, AllAreCached DEF IsList
<1> HIDE DEF all, done
<1>9. ASSUME NEW r \in Requests
      PROVE  /\ req'[r].prompt = req[r].prompt /\ req'[r].table = req[r].table
             /\ req'[r].progress = IF r \in DOMAIN end THEN end[r] ELSE req[r].progress
             /\ req'[r].match = IF r \in last THEN NoMatch ELSE req[r].match
  <2>1. DOMAIN req[r] = Fields
    BY DEF EngineInv, RequestsAreTyped
  <2>2. CASE r \notin DOMAIN end
    <3>1. req'[r] = req[r] /\ r \notin last
      BY <1>1, <1>6, <2>2
    <3> QED BY <2>2, <3>1
  <2>3. CASE r \in DOMAIN end /\ r \notin last
    <3>1. req'[r] = [req[r] EXCEPT !.progress = end[r]]
      BY <1>1, <2>3
    <3> QED BY <2>1, <2>3, <3>1 DEF Fields
  <2>4. CASE r \in DOMAIN end /\ r \in last
    <3>1. req'[r] = [req[r] EXCEPT !.progress = end[r], !.gen = 1, !.match = NoMatch]
      BY <1>1, <2>4
    <3> QED BY <2>1, <2>4, <3>1 DEF Fields
  <2> QED BY <1>6, <2>2, <2>3, <2>4
<1>10. DataIsRight(req')
  <2> SUFFICES ASSUME NEW r \in Requests
               PROVE  /\ req'[r].prompt \in Prompts \cup {<<>>}
                      /\ req'[r].table \in Seq(Blocks)
                      /\ req'[r].progress \in 0 .. Len(req'[r].prompt)
    BY DEF DataIsRight
  <2>1. /\ req[r].prompt \in Prompts \cup {<<>>} /\ req[r].table \in Seq(Blocks)
        /\ req[r].progress \in 0 .. Len(req[r].prompt)
    BY DEF DataInv, DataIsRight
  <2> QED BY <1>5, <1>9, <2>1
<1>11. ReferencesHold(all.tree, req')
  <2> SUFFICES ASSUME NEW r \in Requests
               PROVE  IsMatch(all.tree, req'[r].prompt, req'[r].match)
    BY DEF ReferencesHold
  <2>1. IsMatch(all.tree, req[r].prompt, req[r].match)
    BY <1>8, MatchStays DEF DataInv, ReferencesHold, CachesRight
  <2>2. IsMatch(all.tree, req[r].prompt, NoMatch)
    BY <1>8, Lengths, NoMatchHolds DEF CachesRight
  <2> QED BY <1>9, <2>1, <2>2
<1>12. IsHeap(Tokens, tree') /\ ReferencesHold(tree', req')
  BY <1>2, <1>8, <1>11, CollectKeeps DEF CachesRight
<1>13. MatchesAreUsed'
  <2> SUFFICES ASSUME NEW r \in Requests, r \notin ToSet(prefilling')
               PROVE  req'[r].match = NoMatch
    BY DEF MatchesAreUsed
  <2>1. r \notin ToSet(prefilling) => req[r].match = NoMatch
    BY DEF DataInv, MatchesAreUsed
  <2> QED BY <1>7, <1>9, <2>1
<1>14. backend' \subseteq Requests /\ pc' \in Places
  BY <1>1, <1>3, <1>6 DEF DataInv, Places
<1> QED BY <1>2, <1>8, <1>10, <1>12, <1>13, <1>14 DEF DataInv, DataIsRight, ReferencesHold, CachesRight

-----------------------------------------------------------------------------
(* The other actions: the clients,                                           *)
LEMMA SubmitIsRight ==
    ASSUME DataInv, EngineInv, NEW r \in Requests, NEW p \in Prompts, NEW n \in Limits,
           Submit(r, p, n)
    PROVE  DataInv'
<1>1. /\ req' = [req EXCEPT ![r] = Request(p, n)]
      /\ UNCHANGED <<tree, pool, prefilling, backend, pc>>
  BY DEF Submit
<1>2. /\ Request(p, n).prompt = p /\ Request(p, n).table = <<>>
      /\ Request(p, n).progress = 0 /\ Request(p, n).match = NoMatch
  BY DEF Request
<1>3. p \in Seq(Tokens) /\ Len(p) \in Nat
  BY PromptsAreSequences
<1>4. req'[r] = Request(p, n) /\ \A q \in Requests : q # r => req'[q] = req[q]
  BY <1>1 DEF EngineInv, RequestsAreTyped
<1>5. IsMatch(tree, p, NoMatch)
  BY <1>3, NoMatchHolds DEF DataInv
<1>6. ReferencesHold(tree, req')
  BY <1>2, <1>4, <1>5 DEF ReferencesHold, DataInv
<1>7. DataIsRight(req')
  <2> SUFFICES ASSUME NEW q \in Requests
               PROVE  /\ req'[q].prompt \in Prompts \cup {<<>>}
                      /\ req'[q].table \in Seq(Blocks)
                      /\ req'[q].progress \in 0 .. Len(req'[q].prompt)
    BY DEF DataIsRight
  <2>1. CASE q = r
    <3>1. <<>> \in Seq(Blocks) /\ 0 \in 0 .. Len(p)
      BY <1>3
    <3> QED BY <1>2, <1>4, <2>1, <3>1
  <2>2. CASE q # r
    BY <1>4, <2>2 DEF DataInv, DataIsRight
  <2> QED BY <2>1, <2>2
<1>8. MatchesAreUsed'
  BY <1>1, <1>2, <1>4 DEF DataInv, MatchesAreUsed
<1> QED BY <1>1, <1>6, <1>7, <1>8 DEF DataInv, DataIsRight, ReferencesHold

(* what leaves the data as they are,                                         *)
LEMMA NothingChanges ==
    ASSUME DataInv, UNCHANGED <<tree, pool, prefilling, req, backend>>, pc' \in Places
    PROVE  DataInv'
BY DEF DataInv, DataIsRight, ReferencesHold, MatchesAreUsed

(* every end of the engine, from what the step has come to until it ends,     *)
SameData(Q) ==
    \A r \in Requests : /\ DOMAIN Q[r] = Fields
                        /\ Q[r].prompt = req[r].prompt /\ Q[r].match = req[r].match
                        /\ Q[r].progress = req[r].progress /\ Q[r].table \in Seq(Blocks)
                        /\ r \notin ToSet(running) => Q[r].table = req[r].table

LEMMA EndIsRight ==
    ASSUME DataInv, EngineInv, NEW p, IsPool(p), NEW Q, SameData(Q),
           NEW list \in Seq(Requests), LetGo(p, Q, list),
           NEW T, IsHeap(Tokens, T), tree' = Collect(T, {}),
           backend' \subseteq Requests, pc' \in Places
    PROVE  DataInv'
<1>1. IsPool(pool')
  <2>1. TablesOf(Q, list) \in Seq(Blocks)
    BY TablesAreBlocks DEF SameData
  <2>2. IsPool(DecRefs(p, TablesOf(Q, list)))
    BY <2>1, DecRefsIsPool
  <2> QED BY <2>2, ReleasedIsPool DEF LetGo
<1>2. IsHeap(Tokens, tree')
  BY CollectAllKeeps
<1>3. Owned = ToSet(queue) \cup ToSet(prefilling) \cup ToSet(running)
  BY WhoIsOwned DEF EngineInv
<1>4. ASSUME NEW r \in Requests
      PROVE  /\ req'[r].prompt = req[r].prompt /\ req'[r].match = NoMatch
             /\ req'[r].table = <<>> /\ req'[r].progress = req[r].progress
  <2>1. /\ DOMAIN Q[r] = Fields /\ Q[r].prompt = req[r].prompt
        /\ Q[r].match = req[r].match /\ Q[r].progress = req[r].progress
        /\ r \notin ToSet(running) => Q[r].table = req[r].table
    BY DEF SameData
  <2>2. CASE r \in Owned
    <3>1. req'[r] = [Q[r] EXCEPT !.table = <<>>, !.match = NoMatch]
      BY <2>2 DEF LetGo
    <3> QED BY <2>1, <3>1 DEF Fields
  <2>3. CASE r \notin Owned
    <3>1. req'[r] = Q[r]
      BY <2>3 DEF LetGo
    <3>2. req[r].match = NoMatch
      BY <1>3, <2>3 DEF DataInv, MatchesAreUsed
    <3>3. req[r].table = <<>>
      BY <1>3, <2>3 DEF EngineInv, RequestsAreInPlace, IsInPlace
    <3> QED BY <1>3, <2>1, <2>3, <3>1, <3>2, <3>3
  <2> QED BY <2>2, <2>3
<1>5. ReferencesHold(tree', req')
  <2> SUFFICES ASSUME NEW r \in Requests
               PROVE  IsMatch(tree', req'[r].prompt, req'[r].match)
    BY DEF ReferencesHold
  <2>1. IsMatch(tree', req[r].prompt, NoMatch)
    BY <1>2, Lengths, NoMatchHolds
  <2> QED BY <1>4, <2>1
<1>6. DataIsRight(req')
  <2> SUFFICES ASSUME NEW r \in Requests
               PROVE  /\ req'[r].prompt \in Prompts \cup {<<>>}
                      /\ req'[r].table \in Seq(Blocks)
                      /\ req'[r].progress \in 0 .. Len(req'[r].prompt)
    BY DEF DataIsRight
  <2>1. <<>> \in Seq(Blocks)
    OBVIOUS
  <2> QED BY <1>4, <2>1 DEF DataInv, DataIsRight
<1>7. MatchesAreUsed'
  BY <1>4 DEF MatchesAreUsed
<1> QED BY <1>1, <1>2, <1>5, <1>6, <1>7 DEF DataInv, DataIsRight, ReferencesHold

(* decoding,                                                                 *)
LEMMA DecodeIsRight ==
    ASSUME DataInv, EngineInv, Decode
    PROVE  DataInv'
<1> DEFINE g == Grown
           alive == Left(g)
<1>1. PICK eos \in SUBSET ToSet(alive) : DecodeFor(g, alive, eos)
  BY DEF Decode
<1>2. IsList(running) /\ running \in Seq(Requests) /\ RequestsAreTyped
  BY DEF EngineInv, ListsAreTyped, IsList
<1>3. GrowsRight(g)
  BY <1>2, GrownIsRight
<1>4. IsList(alive)
  BY <1>2, OnlyThose DEF Left
<1> HIDE DEF g, alive
<1> DEFINE finished == Finished(g, alive, eos)
           gone == g.oom \o finished
           counted == Counted(g, alive)
<1>5. /\ req' = Freed(counted, gone) /\ pool' = DecRefs(g.pool, TablesOf(g.req, gone))
      /\ backend' = Release(finished) /\ tree' = Collect(g.tree, MatchedNodes(req))
      /\ pc' = "admit" /\ prefilling' = prefilling
  BY <1>1 DEF DecodeFor
<1>6. finished \in Seq(Requests)
  BY <1>4, OnlyThose DEF Finished, IsList
<1>7. gone \in Seq(Requests)
  BY <1>3, <1>6 DEF GrowsRight, OnlyGrows
<1> HIDE DEF finished, gone
<1>8. ASSUME NEW r \in Requests
      PROVE  /\ req'[r].prompt = req[r].prompt /\ req'[r].match = req[r].match
             /\ req'[r].progress = req[r].progress
             /\ req'[r].table = <<>> \/ req'[r].table = g.req[r].table
  <2>1. /\ DOMAIN g.req[r] = Fields /\ g.req[r].prompt = req[r].prompt
        /\ g.req[r].match = req[r].match /\ g.req[r].progress = req[r].progress
    BY <1>3 DEF GrowsRight, OnlyGrows
  <2>2. counted[r] = g.req[r] \/ counted[r] = [g.req[r] EXCEPT !.gen = @ + 1]
    BY DEF Counted
  <2> HIDE DEF counted
  <2>3. /\ DOMAIN counted[r] = Fields /\ counted[r].prompt = req[r].prompt
        /\ counted[r].match = req[r].match /\ counted[r].progress = req[r].progress
        /\ counted[r].table = g.req[r].table
    BY <2>1, <2>2 DEF Fields
  <2>4. req'[r] = counted[r] \/ req'[r] = [counted[r] EXCEPT !.table = <<>>]
    BY <1>5 DEF Freed
  <2> QED BY <2>3, <2>4 DEF Fields
<1> HIDE DEF counted
<1>9. DataIsRight(req')
  <2> SUFFICES ASSUME NEW r \in Requests
               PROVE  /\ req'[r].prompt \in Prompts \cup {<<>>}
                      /\ req'[r].table \in Seq(Blocks)
                      /\ req'[r].progress \in 0 .. Len(req'[r].prompt)
    BY DEF DataIsRight
  <2>1. <<>> \in Seq(Blocks) /\ g.req[r].table \in Seq(Blocks)
    BY <1>3 DEF GrowsRight
  <2> QED BY <1>8, <2>1 DEF DataInv, DataIsRight
<1>10. IsPool(pool')
  <2>1. TablesOf(g.req, gone) \in Seq(Blocks)
    BY <1>3, <1>7, TablesAreBlocks DEF GrowsRight
  <2> QED BY <1>3, <1>5, <2>1, DecRefsIsPool DEF GrowsRight
<1>11. ReferencesHold(g.tree, req)
  <2>1. HasNodesOf(g.tree, tree)
    BY <1>3 DEF GrowsRight, HasNodesOf
  <2> QED BY <2>1, ReferencesStay DEF DataInv
<1>12. IsHeap(Tokens, tree') /\ ReferencesHold(tree', req)
  BY <1>3, <1>5, <1>11, CollectKeeps DEF GrowsRight
<1>13. ReferencesHold(tree', req')
  BY <1>8, <1>12, ReferencesOfOthers
<1>14. MatchesAreUsed'
  BY <1>5, <1>8 DEF DataInv, MatchesAreUsed
<1>15. backend' \subseteq Requests /\ pc' \in Places
  BY <1>5 DEF DataInv, Release, Places
<1> QED BY <1>9, <1>10, <1>12, <1>13, <1>14, <1>15 DEF DataInv, DataIsRight, ReferencesHold

(* failing: the tables may have grown, and tokens been counted,               *)
LEMMA SameDataGrown ==
    ASSUME NEW g, GrowsRight(g), NEW alive
    PROVE  SameData(g.req) /\ SameData(Counted(g, alive))
<1>1. SameData(g.req)
  BY DEF GrowsRight, OnlyGrows, SameData
<1>2. ASSUME NEW r \in Requests
      PROVE  /\ DOMAIN Counted(g, alive)[r] = DOMAIN g.req[r]
             /\ Counted(g, alive)[r].prompt = g.req[r].prompt
             /\ Counted(g, alive)[r].match = g.req[r].match
             /\ Counted(g, alive)[r].progress = g.req[r].progress
             /\ Counted(g, alive)[r].table = g.req[r].table
  <2> DEFINE c == Counted(g, alive)[r]
  <2>1. c = g.req[r] \/ c = [g.req[r] EXCEPT !.gen = @ + 1]
    BY DEF Counted
  <2>2. DOMAIN g.req[r] = Fields
    BY <1>1 DEF SameData
  <2> HIDE DEF c
  <2>3. /\ DOMAIN c = DOMAIN g.req[r] /\ c.prompt = g.req[r].prompt
        /\ c.match = g.req[r].match /\ c.progress = g.req[r].progress
        /\ c.table = g.req[r].table
    BY <2>1, <2>2 DEF Fields
  <2> QED BY <2>3 DEF c
<1>3. SameData(Counted(g, alive))
  BY <1>1, <1>2 DEF SameData
<1> QED BY <1>1, <1>3

LEMMA FailAllIsRight ==
    ASSUME DataInv, EngineInv, NEW g, IsPool(g.pool), IsHeap(Tokens, g.tree), SameData(g.req),
           NEW freed \in Seq(Requests), NEW done, FailAll(g, freed, done),
           backend' \subseteq Requests
    PROVE  DataInv'
<1> DEFINE list == freed \o prefilling \o Only(running, Requests \ ToSet(freed))
<1>1. LetGo(g.pool, g.req, list) /\ tree' = Collect(g.tree, {}) /\ pc' = "dead"
  BY DEF FailAll
<1>2. list \in Seq(Requests)
  <2>1. IsList(running) /\ prefilling \in Seq(Requests)
    BY DEF EngineInv, ListsAreTyped, IsList
  <2>2. Only(running, Requests \ ToSet(freed)) \in Seq(Requests)
    BY <2>1, OnlyThose DEF IsList
  <2> QED BY <2>1, <2>2
<1>3. pc' \in Places
  BY <1>1 DEF Places, LoopFree
<1> HIDE DEF list
<1> QED BY <1>1, <1>2, <1>3, EndIsRight

LEMMA FailureIsRight ==
    ASSUME DataInv, EngineInv, DecodeNobody \/ Crash \/ FinishFails
    PROVE  DataInv'
<1>1. IsList(running) /\ running \in Seq(Requests) /\ RequestsAreTyped
  BY DEF EngineInv, ListsAreTyped, IsList
<1>2. GrowsRight(Grown)
  BY <1>1, GrownIsRight
<1>3. /\ IsPool(Grown.pool) /\ IsHeap(Tokens, Grown.tree) /\ SameData(Grown.req)
      /\ Grown.oom \in Seq(Requests)
  BY <1>2, SameDataGrown DEF GrowsRight, OnlyGrows
<1>4. backend \subseteq Requests
  BY DEF DataInv
<1>5. CASE DecodeNobody
  <2>1. FailAll(Grown, Grown.oom, <<>>) /\ backend' \subseteq Requests
    BY <1>4, <1>5 DEF DecodeNobody
  <2> QED BY <1>3, <2>1, FailAllIsRight
<1>6. CASE Crash
  <2>1. DOMAIN ChunkEnds \subseteq Requests
    <3>1. prefilling \in Seq(Requests) /\ ToSet(prefilling) \subseteq Requests
      BY ListLength DEF EngineInv, ListsAreTyped, IsList
    <3> QED BY <3>1, ChunksOfThePrefilling
  <2>2. backend' \subseteq Requests
    BY <1>4, <1>6, <2>1 DEF Crash
  <2> DEFINE g == [tree |-> tree, pool |-> pool, req |-> req, oom |-> <<>>]
  <2>3. CASE FailAll(g, <<>>, <<>>)
    <3>1. g.req = req /\ g.pool = pool /\ g.tree = tree
      OBVIOUS
    <3>2. SameData(req)
      BY <1>1 DEF SameData, DataInv, DataIsRight, RequestsAreTyped
    <3>3. IsPool(g.pool) /\ IsHeap(Tokens, g.tree) /\ SameData(g.req)
      BY <3>1, <3>2 DEF DataInv
    <3>4. <<>> \in Seq(Requests)
      OBVIOUS
    <3> HIDE DEF g
    <3> QED BY <2>2, <2>3, <3>3, <3>4, FailAllIsRight
  <2>4. CASE FailAll(Grown, Grown.oom, <<>>)
    BY <1>3, <2>2, <2>4, FailAllIsRight
  <2> QED BY <1>6, <2>3, <2>4 DEF Crash
<1>7. CASE FinishFails
  <2> DEFINE g == Grown
             alive == Left(g)
  <2>1. PICK eos \in SUBSET ToSet(alive) :
           \E k \in DOMAIN Finished(g, alive, eos) :
              /\ backend' = Release(SubSeq(Finished(g, alive, eos), 1, k))
              /\ FailAll([g EXCEPT !.req = Counted(g, alive)],
                         g.oom \o SubSeq(Finished(g, alive, eos), 1, k),
                         SubSeq(Finished(g, alive, eos), 1, k - 1))
    BY <1>7 DEF FinishFails
  <2>2. /\ OnlyGrows(g) /\ IsPool(g.pool) /\ IsHeap(Tokens, g.tree) /\ IsList(alive)
        /\ SameData(Counted(g, alive)) /\ g.oom \in Seq(Requests)
    <3>1. IsList(alive)
      BY <1>1, OnlyThose DEF Left
    <3>2. OnlyGrows(g)
      BY <1>2 DEF GrowsRight
    <3>3. SameData(Counted(g, alive))
      BY <1>2, SameDataGrown
    <3> QED BY <1>3, <3>1, <3>2, <3>3
  <2> HIDE DEF g, alive
  <2> DEFINE finished == Finished(g, alive, eos)
  <2>3. finished \in Seq(Requests)
    BY <2>2, OnlyThose DEF Finished, IsList
  <2>4. PICK k \in DOMAIN finished :
           /\ backend' = Release(SubSeq(finished, 1, k))
           /\ FailAll([g EXCEPT !.req = Counted(g, alive)],
                      g.oom \o SubSeq(finished, 1, k), SubSeq(finished, 1, k - 1))
    BY <2>1
  <2> HIDE DEF finished
  <2> DEFINE h == [g EXCEPT !.req = Counted(g, alive)]
             freed == g.oom \o SubSeq(finished, 1, k)
  <2>5. freed \in Seq(Requests)
    <3>1. SubSeq(finished, 1, k) \in Seq(Requests)
      BY <2>3
    <3> QED BY <2>2, <3>1
  <2>6. h.req = Counted(g, alive) /\ h.pool = g.pool /\ h.tree = g.tree
    BY <2>2 DEF OnlyGrows
  <2>7. backend' \subseteq Requests
    BY <1>4, <2>4 DEF Release
  <2>8. FailAll(h, freed, SubSeq(finished, 1, k - 1))
    BY <2>4
  <2>9. IsPool(h.pool) /\ IsHeap(Tokens, h.tree) /\ SameData(h.req)
    BY <2>2, <2>6
  <2> HIDE DEF h, freed
  <2> QED BY <2>5, <2>7, <2>8, <2>9, FailAllIsRight
<1> QED BY <1>5, <1>6, <1>7

(* admission,                                                                *)
LEMMA AdmitIsRight ==
    ASSUME DataInv, EngineInv, Admit
    PROVE  DataInv'
<1> DEFINE r == Head(queue)
           tokens == req[r].prompt
           m == Match(tree, tokens)
           kept == [m EXCEPT !.tree = EmptyTree]
           reused == IncRefs(pool, m.blocks)
           len == Len(m.blocks)
           room == EvictUntilRoom(m.tree, reused, len, Len(tokens))
           got == Allocated(room.pool, len, Len(tokens))
           start == [req[r] EXCEPT !.offset = m.offset, !.match = kept, !.progress = m.pos]
           With2(table) == [req EXCEPT ![r] = [start EXCEPT !.table = table]]
<1>1. /\ \/ /\ tree' = m.tree /\ pool' = reused
            /\ req' = With2(m.blocks) /\ prefilling' = Append(prefilling, r)
            /\ UNCHANGED pc
         \/ /\ CanAllocate(room.pool, len, Len(tokens))
            /\ pool' = Allocate(room.pool, len, Len(tokens))
            /\ req' = With2(m.blocks \o got)
            /\ tree' = Collect(room.tree, MatchedNodes(req'))
            /\ prefilling' = Append(prefilling, r)
            /\ UNCHANGED pc
         \/ /\ tree' = Collect(room.tree, MatchedNodes(req))
            /\ pool' = DecRefs(room.pool, m.blocks)
            /\ pc' = "prefill"
            /\ UNCHANGED <<req, prefilling>>
      /\ UNCHANGED backend
  <2> HIDE DEF m, tokens
  <2> QED BY DEF Admit, m, tokens
<1>2. /\ r \in Requests /\ IsList(prefilling) /\ r \notin ToSet(prefilling)
  <2>1. queue # <<>> /\ r \in ToSet(queue)
    BY AdmitMoves
  <2>2. IsList(queue) /\ ToSet(queue) \subseteq Requests
    BY ListLength DEF EngineInv, ListsAreTyped, IsList
  <2> QED BY <2>1, <2>2 DEF EngineInv, ListsAreTyped
<1>3. /\ DOMAIN req = Requests /\ DOMAIN req[r] = Fields
  BY <1>2 DEF EngineInv, RequestsAreTyped
<1>4. tokens \in Seq(Tokens) /\ Len(tokens) \in Nat
  BY <1>2, Lengths
<1> HIDE DEF r
<1>5. IsWalk(Tokens, tree, tokens, m)
  <2> HIDE DEF tokens
  <2> QED BY <1>4, MatchIsSound DEF DataInv
<1> HIDE DEF m
<1>6. /\ DOMAIN m = MatchFields /\ IsHeap(Tokens, m.tree) /\ HasNodesOf(m.tree, tree)
      /\ IsMatch(m.tree, tokens, m) /\ m.blocks \in Seq(Blocks) /\ len \in Nat
      /\ m.pos \in 0 .. Len(tokens)
  <2>1. /\ DOMAIN m = MatchFields /\ IsHeap(Tokens, m.tree) /\ HasNodesOf(m.tree, tree)
        /\ IsMatch(m.tree, tokens, m)
    BY <1>5 DEF IsWalk
  <2>2. m.blocks \in Seq(Blocks) /\ m.pos \in 0 .. Len(tokens)
    BY <2>1 DEF IsMatch
  <2> QED BY <2>1, <2>2
<1>7. IsMatch(m.tree, tokens, kept)
  <2>1. /\ kept.node = m.node /\ kept.child = m.child /\ kept.pos = m.pos
        /\ kept.blocks = m.blocks /\ kept.common = m.common /\ kept.split = m.split
    BY <1>6 DEF MatchFields
  <2> HIDE DEF kept, tokens
  <2> QED BY <1>6, <2>1 DEF IsMatch
<1>8. IsPool(reused)
  BY <1>6, IncRefsIsPool DEF DataInv
<1>9. IsHeap(Tokens, room.tree) /\ HasNodesOf(room.tree, m.tree) /\ IsPool(room.pool)
  <2> HIDE DEF reused, tokens, len
  <2> DEFINE T == m.tree
             n == Len(tokens)
  <2>1. IsHeap(Tokens, T)
    BY <1>6
  <2> HIDE DEF T, n
  <2>2. IsRoomFor(Tokens, T, EvictUntilRoom(T, reused, len, n))
    BY <1>8, <2>1, RoomIsSound
  <2>3. IsRoomFor(Tokens, m.tree, room)
    BY <2>2 DEF T, n
  <2> HIDE DEF room
  <2> QED BY <2>3 DEF IsRoomFor, HasNodesOf
<1> HIDE DEF reused, kept
<1>10. ReferencesHold(m.tree, req)
  BY <1>6, ReferencesStay DEF DataInv
<1>11. ASSUME NEW table \in Seq(Blocks), req' = With2(table), prefilling' = Append(prefilling, r)
       PROVE  /\ DataIsRight(req') /\ MatchesAreUsed' /\ ReferencesHold(m.tree, req')
  <2>1. /\ \A q \in Requests : q # r => req'[q] = req[q]
        /\ req'[r] = [start EXCEPT !.table = table]
    <3> HIDE DEF start
    <3> QED BY <1>2, <1>3, <1>11
  <2>2. /\ req'[r].prompt = tokens /\ req'[r].table = table /\ req'[r].progress = m.pos
        /\ req'[r].match = kept
    <3>1. /\ DOMAIN start = Fields /\ start.prompt = tokens /\ start.progress = m.pos
          /\ start.match = kept
      BY <1>3 DEF Fields
    <3> HIDE DEF start
    <3> QED BY <2>1, <3>1 DEF Fields
  <2> HIDE DEF With2, start
  <2>3. ToSet(prefilling') = ToSet(prefilling) \cup {r}
    BY <1>2, <1>11, Appending
  <2>4. DataIsRight(req')
    <3> SUFFICES ASSUME NEW q \in Requests
                 PROVE  /\ req'[q].prompt \in Prompts \cup {<<>>}
                        /\ req'[q].table \in Seq(Blocks)
                        /\ req'[q].progress \in 0 .. Len(req'[q].prompt)
      BY DEF DataIsRight
    <3>1. /\ req[q].prompt \in Prompts \cup {<<>>} /\ req[q].table \in Seq(Blocks)
          /\ req[q].progress \in 0 .. Len(req[q].prompt)
      BY DEF DataInv, DataIsRight
    <3>2. CASE q = r
      BY <1>6, <2>2, <3>1, <3>2
    <3>3. CASE q # r
      BY <2>1, <3>1, <3>3
    <3> QED BY <3>2, <3>3
  <2>5. MatchesAreUsed'
    BY <2>1, <2>3 DEF MatchesAreUsed, DataInv
  <2>6. ReferencesHold(m.tree, req')
    <3> SUFFICES ASSUME NEW q \in Requests
                 PROVE  IsMatch(m.tree, req'[q].prompt, req'[q].match)
      BY DEF ReferencesHold
    <3>1. CASE q = r
      BY <1>7, <2>2, <3>1
    <3>2. CASE q # r
      BY <1>10, <2>1, <3>2 DEF ReferencesHold
    <3> QED BY <3>1, <3>2
  <2> QED BY <2>4, <2>5, <2>6
<1> HIDE DEF start, With2, room
<1>12. backend' \subseteq Requests /\ pc' \in Places
  BY <1>1 DEF DataInv, Places
<1>13. CASE /\ tree' = m.tree /\ pool' = reused
            /\ req' = With2(m.blocks) /\ prefilling' = Append(prefilling, r)
  <2>1. DataIsRight(req') /\ MatchesAreUsed' /\ ReferencesHold(m.tree, req')
    BY <1>6, <1>11, <1>13
  <2> QED BY <1>6, <1>8, <1>12, <1>13, <2>1 DEF DataInv, DataIsRight, ReferencesHold
<1>14. CASE /\ CanAllocate(room.pool, len, Len(tokens))
            /\ pool' = Allocate(room.pool, len, Len(tokens))
            /\ req' = With2(m.blocks \o got)
            /\ tree' = Collect(room.tree, MatchedNodes(req'))
            /\ prefilling' = Append(prefilling, r)
  <2>1. IsPool(pool') /\ got \in Seq(Blocks)
    <3> HIDE DEF tokens, len
    <3> QED BY <1>4, <1>6, <1>9, <1>14, AllocateIsPool DEF tokens
  <2>2. m.blocks \o got \in Seq(Blocks)
    BY <1>6, <2>1
  <2>3. DataIsRight(req') /\ MatchesAreUsed' /\ ReferencesHold(m.tree, req')
    <3> HIDE DEF got
    <3> QED BY <1>11, <1>14, <2>2
  <2>4. ReferencesHold(room.tree, req')
    BY <1>9, <2>3, ReferencesStay
  <2>5. IsHeap(Tokens, tree') /\ ReferencesHold(tree', req')
    BY <1>9, <1>14, <2>4, CollectKeeps
  <2> QED BY <1>12, <2>1, <2>3, <2>5 DEF DataInv, DataIsRight, ReferencesHold
<1>15. CASE /\ tree' = Collect(room.tree, MatchedNodes(req))
            /\ pool' = DecRefs(room.pool, m.blocks)
            /\ UNCHANGED <<req, prefilling>>
  <2>1. IsPool(pool')
    BY <1>6, <1>9, <1>15, DecRefsIsPool
  <2>2. ReferencesHold(room.tree, req)
    BY <1>9, <1>10, ReferencesStay
  <2>3. IsHeap(Tokens, tree') /\ ReferencesHold(tree', req)
    BY <1>9, <1>15, <2>2, CollectKeeps
  <2> QED BY <1>12, <1>15, <2>1, <2>3 DEF DataInv, DataIsRight, ReferencesHold, MatchesAreUsed
<1> QED BY <1>1, <1>13, <1>14, <1>15

-----------------------------------------------------------------------------
(* The invariant holds at first,                                             *)
LEMMA DataInit == Init => DataInv
<1> SUFFICES ASSUME Init PROVE DataInv
  OBVIOUS
<1>1. /\ tree = EmptyTree /\ pool = NewPool /\ backend = {} /\ pc = "sleep"
      /\ req = [r \in Requests |-> Request(<<>>, 0)]
  BY DEF Init
<1>2. IsHeap(Tokens, tree) /\ IsPool(pool)
  BY <1>1, EmptyHeap, NewPoolIsPool
<1>3. /\ Request(<<>>, 0).prompt = <<>> /\ Request(<<>>, 0).table = <<>>
      /\ Request(<<>>, 0).progress = 0 /\ Request(<<>>, 0).match = NoMatch
  BY DEF Request
<1>4. <<>> \in Seq(Blocks) /\ <<>> \in Seq(Tokens) /\ 0 \in 0 .. Len(<<>>)
  OBVIOUS
<1>5. IsMatch(tree, <<>>, NoMatch)
  BY <1>2, <1>4, NoMatchHolds
<1>6. ReferencesHold(tree, req)
  BY <1>1, <1>3, <1>5 DEF ReferencesHold
<1>7. DataIsRight(req)
  BY <1>1, <1>3, <1>4 DEF DataIsRight
<1>8. MatchesAreUsed
  BY <1>1, <1>3 DEF MatchesAreUsed
<1> QED BY <1>1, <1>2, <1>6, <1>7, <1>8 DEF DataInv, Places, LoopFree

(* and after every step.                                                     *)
LEMMA DataStep == DataInv /\ EngineInv /\ [Next]_vars => DataInv'
<1> SUFFICES ASSUME DataInv, EngineInv, [Next]_vars PROVE DataInv'
  OBVIOUS
<1>1. CASE UNCHANGED vars \/ \E r \in Requests : Timeout(r)
  <2>1. UNCHANGED <<tree, pool, prefilling, req, backend, pc>>
    BY <1>1 DEF vars, Timeout
  <2> QED BY <2>1, NothingChanges DEF DataInv
<1>2. ASSUME NEW r \in Requests, NEW p \in Prompts, NEW n \in Limits, Submit(r, p, n)
      PROVE  DataInv'
  BY <1>2, SubmitIsRight
<1>3. CASE Wake \/ AdmitNoMore \/ Sleep
  <2>1. UNCHANGED <<tree, pool, prefilling, req, backend>> /\ pc' \in Places
    BY <1>3 DEF Wake, AdmitNoMore, Sleep, Places, LoopFree
  <2> QED BY <2>1, NothingChanges
<1>4. {"dead", "stopped"} \subseteq Places
  BY DEF Places, LoopFree
<1>5. CASE Shutdown
  <2>1. /\ LetGo(pool, req, prefilling \o running) /\ tree' = Collect(tree, {})
        /\ backend' = backend /\ pc' = "stopped"
    BY <1>5 DEF Shutdown
  <2>2. IsHeap(Tokens, tree) /\ IsPool(pool) /\ backend' \subseteq Requests
    BY <2>1 DEF DataInv
  <2>3. SameData(req)
    BY DEF SameData, DataInv, DataIsRight, EngineInv, RequestsAreTyped
  <2>4. prefilling \o running \in Seq(Requests)
    BY DEF EngineInv, ListsAreTyped, IsList
  <2> QED BY <1>4, <2>1, <2>2, <2>3, <2>4, EndIsRight
<1>6. CASE Admit
  BY <1>6, AdmitIsRight
<1>7. CASE Prefill
  BY <1>7, PrefillIsRight
<1>8. CASE Decode
  BY <1>8, DecodeIsRight
<1>9. CASE DecodeNobody \/ Crash \/ FinishFails
  BY <1>9, FailureIsRight
<1> QED BY <1>1, <1>2, <1>3, <1>5, <1>6, <1>7, <1>8, <1>9 DEF Next, Scheduler

(* prefix_cache.py:73, engine.py:221: every reference to a node of the       *)
(* prefix tree that the engine keeps, or another node does, is to one that   *)
(* is there, whatever was split, replaced and evicted in between; the pool   *)
(* and what is kept of the requests are well formed.                         *)
THEOREM NoReferenceDangles == Spec => []DataInv
BY EngineInvariant, DataInit, DataStep, PTL DEF Spec

(* The counters count.                                                       *)
THEOREM EveryCountIsTyped == Spec => []CountersAreTyped
<1>1. CountInv /\ EngineInv /\ EngineInv' /\ [Next]_vars => CountInv'
  BY CountStep
<1>2. CountInv => CountersAreTyped
  BY DEF CountInv
<1> QED BY <1>1, <1>2, EngineInvariant, CountInit, PTL DEF Spec

(* The types of the engine's state, for any requests, prompts, pool and      *)
(* sizes.                                                                    *)
LEMMA TypesFollow == EngineInv /\ DataInv /\ CountersAreTyped => TypeOK
<1> SUFFICES ASSUME EngineInv, DataInv, CountersAreTyped PROVE TypeOK
  OBVIOUS
<1>1. /\ pool.free \in Seq(Blocks) /\ pool.used \subseteq Blocks
      /\ pool.ref \in [Blocks -> Int]
  BY DEF DataInv, IsPool
<1>2. {queue, prefilling, running} \subseteq Seq(Requests)
  BY DEF EngineInv, ListsAreTyped, IsList
<1>3. future \in [Requests -> {"new", "pending"} \cup Settled]
  BY DEF EngineInv, FuturesAreTyped, Outcomes
<1>4. backend \subseteq Requests /\ pc \in LoopFree \cup {"admit", "prefill", "decode"}
  BY DEF DataInv, Places
<1>5. \A r \in Requests : /\ req[r].prompt \in Prompts \cup {<<>>}
                          /\ req[r].table \in Seq(Blocks)
                          /\ req[r].progress \in 0 .. Len(req[r].prompt)
                          /\ req[r].gen \in Nat
  BY DEF DataInv, DataIsRight, EngineInv, RequestsAreTyped
<1>6. \A m \in DOMAIN metrics : metrics[m] \in Nat
  BY DEF CountersAreTyped
<1> QED BY <1>1, <1>2, <1>3, <1>4, <1>5, <1>6 DEF TypeOK

THEOREM EngineTypesHold == Spec => []TypeOK
BY EngineInvariant, NoReferenceDangles, EveryCountIsTyped, TypesFollow, PTL

(* kv_cache.py:57: whichever way requests go through the engine, and out of  *)
(* it, no block is lost from both lists of the pool, and none is given away  *)
(* twice.                                                                    *)
THEOREM NoBlockGoesMissing == Spec => []EachBlockIsFreeOrUsed
<1>1. DataInv => EachBlockIsFreeOrUsed
  BY DEF DataInv, IsPool, EachFreeOrUsed, EachBlockIsFreeOrUsed
<1> QED BY <1>1, NoReferenceDangles, PTL

-----------------------------------------------------------------------------
(* What one prefill step computes is what the loop gave away.                *)
LEMMA PrefillComputes ==
    ASSUME DataInv, EngineInv, Prefill
    PROVE  \E s : /\ GivesRight(s, Len(prefilling))
                  /\ \A r \in Requests : Computed(r) = Share(s, r)
<1>1. req' = [r \in Requests |->
                 IF r \notin DOMAIN ChunkEnds THEN req[r]
                 ELSE IF r \notin {q \in DOMAIN ChunkEnds : ChunkEnds[q] = Len(req[q].prompt)}
                      THEN [req[r] EXCEPT !.progress = ChunkEnds[r]]
                 ELSE [req[r] EXCEPT !.progress = ChunkEnds[r], !.gen = 1, !.match = NoMatch]]
  BY DEF Prefill
<1>2. PICK s : s.end = ChunkEnds /\ GivesRight(s, Len(prefilling))
  BY ChunksAreRight DEF EngineInv, ListsAreTyped
<1> DEFINE end == ChunkEnds
<1> HIDE DEF end
<1>3. ASSUME NEW r \in Requests PROVE Computed(r) = Share(s, r)
  <2>1. DOMAIN req[r] = Fields /\ req[r].progress \in Nat
    BY Lengths DEF EngineInv, RequestsAreTyped
  <2>2. req'[r].progress = IF r \in DOMAIN end THEN end[r] ELSE req[r].progress
    <3>1. CASE r \notin DOMAIN end
      BY <1>1, <3>1 DEF end
    <3>2. CASE r \in DOMAIN end
      <4>1. \/ req'[r] = [req[r] EXCEPT !.progress = end[r]]
            \/ req'[r] = [req[r] EXCEPT !.progress = end[r], !.gen = 1, !.match = NoMatch]
        BY <1>1, <3>2 DEF end
      <4> QED BY <2>1, <3>2, <4>1 DEF Fields
    <3> QED BY <3>1, <3>2
  <2> QED BY <1>2, <2>1, <2>2 DEF Share, Computed, end
<1> QED BY <1>2, <1>3

LEMMA PrefillKeepsBudget ==
    ASSUME DataInv, EngineInv, Prefill
    PROVE  /\ SumFunctionOnSet([r \in Requests |-> Computed(r)], Requests) <= MaxStep
           /\ \A i, j \in DOMAIN prefilling :
                 i < j /\ Computed(prefilling[j]) > 0 =>
                     LET q == req[prefilling[i]]
                     IN  Computed(prefilling[i]) = Min({MaxChunk, Len(q.prompt) - q.progress})
<1>1. PICK s : /\ GivesRight(s, Len(prefilling))
               /\ \A r \in Requests : Computed(r) = Share(s, r)
  BY PrefillComputes
<1>2. /\ DOMAIN prefilling = 1 .. Len(prefilling)
      /\ \A j \in 1 .. Len(prefilling) : prefilling[j] \in Requests
  BY ListLength DEF EngineInv, ListsAreTyped, IsList
<1> DEFINE F == [r \in Requests |-> Share(s, r)]
           G == [r \in Requests |-> Computed(r)]
<1>3. F = G
  BY <1>1
<1>4. SumFunctionOnSet(F, Requests) = MaxStep - s.budget
  BY <1>1 DEF GivesRight
<1> HIDE DEF F
<1>5. SumFunctionOnSet(G, Requests) <= MaxStep
  <2>1. s.budget \in 0 .. MaxStep /\ MaxStep \in Nat
    BY <1>1, EngineAssumption DEF GivesRight
  <2> HIDE DEF G
  <2> QED BY <1>3, <1>4, <2>1
<1>6. ASSUME NEW i \in DOMAIN prefilling, NEW j \in DOMAIN prefilling,
             i < j, Computed(prefilling[j]) > 0
      PROVE  Computed(prefilling[i]) = Min({MaxChunk, ToGo(prefilling[i])})
  <2>1. Share(s, prefilling[j]) > 0
    BY <1>1, <1>2, <1>6
  <2>2. HasAll(s, prefilling[i])
    BY <1>1, <1>2, <1>6, <2>1 DEF GivesRight
  <2> QED BY <1>1, <1>2, <2>2 DEF HasAll
<1> QED BY <1>5, <1>6 DEF ToGo

(* ch09:102, engine.py:177: a prefill step computes MaxStep tokens at most,  *)
(* over all requests, and none for a request while one admitted before it    *)
(* could have more.                                                          *)
THEOREM PrefillStaysWithinBudget == Spec => PrefillWithinBudget
<1> DEFINE InBudget ==
       pc = "prefill" /\ pc' = "decode" =>
          /\ SumFunctionOnSet([r \in Requests |-> Computed(r)], Requests) <= MaxStep
          /\ \A i, j \in DOMAIN prefilling :
                i < j /\ Computed(prefilling[j]) > 0 =>
                    LET q == req[prefilling[i]]
                    IN  Computed(prefilling[i]) = Min({MaxChunk, Len(q.prompt) - q.progress})
<1>1. DataInv /\ EngineInv /\ [Next]_vars => [InBudget]_vars
  <2> SUFFICES ASSUME DataInv, EngineInv, Next, pc = "prefill", pc' = "decode"
               PROVE  InBudget
    OBVIOUS
  <2>1. Prefill
    <3>1. ~ (\E r \in Requests, p \in Prompts, n \in Limits : Submit(r, p, n))
      BY DEF Submit, LoopFree
    <3>2. ~ (\E r \in Requests : Timeout(r))
      BY DEF Timeout, LoopFree
    <3>3. ~ Shutdown /\ ~ Wake /\ ~ Admit /\ ~ AdmitNoMore /\ ~ Sleep
      BY DEF Shutdown, LoopFree, Wake, Admit, AdmitNoMore, Sleep
    <3>4. ~ Decode /\ ~ DecodeNobody
      BY DEF Decode, DecodeNobody
    <3>5. ~ Crash /\ ~ FinishFails
      BY DEF Crash, FinishFails, FailAll
    <3> QED BY <3>1, <3>2, <3>3, <3>4, <3>5 DEF Next, Scheduler
  <2> QED BY <2>1, PrefillKeepsBudget
<1> QED BY <1>1, EngineInvariant, NoReferenceDangles, PTL DEF Spec, PrefillWithinBudget

===============================================================================
