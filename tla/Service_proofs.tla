--------------------------- MODULE Service_proofs ---------------------------
(***************************************************************************)
(* What clients may rely on when the engine behaves like Service, for any  *)
(* number of requests and any size of the batch: one answer each, nobody   *)
(* forgotten, nobody ahead of the others, no more tokens than asked for.   *)
(***************************************************************************)
EXTENDS Service, SequenceTheorems, FiniteSetTheorems, TLAPS

(* The inductive invariant: what is in the batch has room for a token more.  *)
(* The constants are what they are in every state, so that what is known of  *)
(* them can be a part of it.                                                 *)
IInv == /\ Parameters
        /\ TypeOK
        /\ NobodyIsForgotten
        /\ BatchWithinLimit
        /\ TokensWithinLimit
        /\ \A r \in batch : got[r] <= 1 \/ got[r] < limit[r]

(* Joining the line adds one to it, at its end.                              *)
LEMMA AppendToLine ==
    ASSUME TypeOK, NEW r \in Requests, r \notin InLine, waiting' = Append(waiting, r)
    PROVE  /\ waiting' \in Seq(Requests)
           /\ \A i, j \in DOMAIN waiting' : waiting'[i] = waiting'[j] => i = j
           /\ InLine' = InLine \cup {r}
<1>1. /\ waiting \in Seq(Requests)
      /\ \A i, j \in DOMAIN waiting : waiting[i] = waiting[j] => i = j
  BY DEF TypeOK
<1>2. /\ Len(waiting) \in Nat /\ DOMAIN waiting = 1 .. Len(waiting)
      /\ waiting' \in Seq(Requests)
      /\ Len(waiting') = Len(waiting) + 1
      /\ \A i \in 1 .. Len(waiting) : waiting'[i] = waiting[i]
      /\ waiting'[Len(waiting) + 1] = r
  BY <1>1, AppendProperties, LenProperties
<1>3. DOMAIN waiting' = 1 .. Len(waiting) + 1
  BY <1>2, LenProperties
<1>4. \A i \in 1 .. Len(waiting) : waiting[i] # r
  BY <1>2 DEF InLine
<1>5. ASSUME NEW i \in 1 .. Len(waiting) + 1, NEW j \in 1 .. Len(waiting) + 1,
             waiting'[i] = waiting'[j]
      PROVE  i = j
  <2>1. CASE i \in 1 .. Len(waiting) /\ j \in 1 .. Len(waiting)
    BY <1>1, <1>2, <1>5, <2>1
  <2>2. CASE i = Len(waiting) + 1 \/ j = Len(waiting) + 1
    BY <1>2, <1>4, <1>5, <2>2
  <2> QED BY <1>2, <2>1, <2>2
<1>6. InLine' = InLine \cup {r}
  <2>1. 1 .. Len(waiting) + 1 = (1 .. Len(waiting)) \cup {Len(waiting) + 1}
    BY <1>2
  <2> QED BY <1>2, <1>3, <2>1 DEF InLine
<1> QED BY <1>2, <1>3, <1>5, <1>6

(* Leaving it takes away the one at its head.                                *)
LEMMA TailOfLine ==
    ASSUME TypeOK, waiting # <<>>, waiting' = Tail(waiting)
    PROVE  /\ waiting' \in Seq(Requests)
           /\ \A i, j \in DOMAIN waiting' : waiting'[i] = waiting'[j] => i = j
           /\ Head(waiting) \in InLine
           /\ InLine' = InLine \ {Head(waiting)}
<1>1. /\ waiting \in Seq(Requests)
      /\ \A i, j \in DOMAIN waiting : waiting[i] = waiting[j] => i = j
  BY DEF TypeOK
<1>2. /\ Len(waiting) \in Nat /\ DOMAIN waiting = 1 .. Len(waiting)
      /\ Len(waiting) > 0
      /\ waiting' \in Seq(Requests)
      /\ Len(waiting') = Len(waiting) - 1
      /\ \A i \in 1 .. Len(waiting) - 1 : waiting'[i] = waiting[i + 1]
      /\ Head(waiting) = waiting[1]
  BY <1>1, HeadTailProperties, LenProperties, EmptySeq
<1>3. DOMAIN waiting' = 1 .. Len(waiting) - 1
  BY <1>2, LenProperties
<1>4. \A i \in 1 .. Len(waiting) - 1 : i + 1 \in 1 .. Len(waiting) /\ i + 1 # 1
  BY <1>2
<1>5. ASSUME NEW i \in 1 .. Len(waiting) - 1, NEW j \in 1 .. Len(waiting) - 1,
             waiting'[i] = waiting'[j]
      PROVE  i = j
  <2>1. i + 1 = j + 1  BY <1>1, <1>2, <1>4, <1>5
  <2> QED BY <1>2, <2>1
<1>6. InLine' = InLine \ {Head(waiting)}
  <2>1. ASSUME NEW r \in InLine' PROVE r \in InLine \ {Head(waiting)}
    <3>1. PICK i \in 1 .. Len(waiting) - 1 : r = waiting'[i]
      BY <1>3, <2>1 DEF InLine
    <3>2. r = waiting[i + 1] /\ r # waiting[1]
      BY <1>1, <1>2, <1>4, <3>1
    <3> QED BY <1>2, <1>4, <3>2 DEF InLine
  <2>2. ASSUME NEW r \in InLine, r # Head(waiting) PROVE r \in InLine'
    <3>1. PICK i \in 1 .. Len(waiting) : r = waiting[i]
      BY <1>2, <2>2 DEF InLine
    <3>2. i - 1 \in 1 .. Len(waiting) - 1 /\ waiting'[i - 1] = waiting[i - 1 + 1]
      BY <1>2, <2>2, <3>1
    <3>3. waiting'[i - 1] = r
      BY <1>2, <3>1, <3>2
    <3> QED BY <1>3, <3>2, <3>3 DEF InLine
  <2> QED BY <2>1, <2>2
<1>7. Head(waiting) \in InLine
  BY <1>2 DEF InLine
<1> QED BY <1>2, <1>3, <1>5, <1>6, <1>7

LEMMA InitIInv == Parameters /\ Init => IInv
<1> SUFFICES ASSUME Parameters, Init PROVE IInv
  OBVIOUS
<1>1. InLine = {} /\ <<>> \in Seq(Requests) /\ DOMAIN <<>> = {} /\ Cardinality({}) = 0
  BY EmptySeq, FS_EmptySet DEF Init, InLine
<1>2. TypeOK
  BY <1>1 DEF Init, TypeOK
<1>3. NobodyIsForgotten /\ TokensWithinLimit
  BY DEF Init, NobodyIsForgotten, TokensWithinLimit
<1>4. BatchWithinLimit
  BY <1>1 DEF Parameters, Init, BatchWithinLimit
<1> QED BY <1>2, <1>3, <1>4 DEF IInv, Init

-----------------------------------------------------------------------------
(* One lemma for each action.                                                *)
LEMMA SubmitKeepsIInv ==
    ASSUME IInv, NEW r \in Requests, NEW n \in Limits, Submit(r, n)
    PROVE  IInv'
<1>1. TypeOK /\ n \in Nat
  BY DEF Parameters, IInv
<1>2. /\ answer[r] = "new"
      /\ answer' = [answer EXCEPT ![r] = "pending"]
      /\ limit' = [limit EXCEPT ![r] = n]
      /\ waiting' = Append(waiting, r)
      /\ UNCHANGED <<batch, got, over>>
  BY DEF Submit
<1>3. r \notin InLine /\ r \notin batch /\ got[r] = 0
  BY <1>1, <1>2 DEF TypeOK
<1>4. /\ waiting' \in Seq(Requests)
      /\ \A i, j \in DOMAIN waiting' : waiting'[i] = waiting'[j] => i = j
      /\ InLine' = InLine \cup {r}
  BY <1>1, <1>2, <1>3, AppendToLine
<1>5. TypeOK'
  BY <1>1, <1>2, <1>3, <1>4 DEF TypeOK
<1>6. NobodyIsForgotten'
  BY <1>1, <1>2, <1>4 DEF IInv, TypeOK, NobodyIsForgotten
<1>7. BatchWithinLimit' /\ TokensWithinLimit'
  BY <1>1, <1>2, <1>3 DEF IInv, TypeOK, BatchWithinLimit, TokensWithinLimit
<1>8. \A p \in batch' : got'[p] <= 1 \/ got'[p] < limit'[p]
  BY <1>1, <1>2, <1>3 DEF IInv, TypeOK
<1> QED BY <1>5, <1>6, <1>7, <1>8 DEF IInv

LEMMA GiveUpKeepsIInv ==
    ASSUME IInv, NEW r \in Requests, GiveUp(r)
    PROVE  IInv'
<1>1. /\ answer[r] = "pending"
      /\ answer' = [answer EXCEPT ![r] = "timeout"]
      /\ UNCHANGED <<waiting, batch, limit, got, over>> /\ InLine' = InLine
  BY DEF GiveUp, InLine
<1>2. TypeOK'
  BY <1>1 DEF IInv, TypeOK, Answers
<1>3. NobodyIsForgotten'
  BY <1>1 DEF IInv, TypeOK, NobodyIsForgotten
<1> QED BY <1>1, <1>2, <1>3 DEF IInv, BatchWithinLimit, TokensWithinLimit

LEMMA EnterKeepsIInv ==
    ASSUME IInv, Enter
    PROVE  IInv'
<1> DEFINE r == Head(waiting)
<1>1. /\ ~over /\ waiting # <<>> /\ Cardinality(batch) < MaxBatch
      /\ waiting' = Tail(waiting) /\ batch' = batch \cup {r}
      /\ UNCHANGED <<limit, got, answer, over>>
  BY DEF Enter
<1>2. /\ waiting' \in Seq(Requests)
      /\ \A i, j \in DOMAIN waiting' : waiting'[i] = waiting'[j] => i = j
      /\ r \in InLine /\ InLine' = InLine \ {r}
  BY <1>1, TailOfLine DEF IInv
<1> HIDE DEF r
<1>3. r \in Requests /\ r \notin batch /\ got[r] = 0
  BY <1>2 DEF IInv, TypeOK, InLine
<1>4. TypeOK'
  BY <1>1, <1>2, <1>3 DEF IInv, TypeOK
<1>5. NobodyIsForgotten'
  BY <1>1, <1>2 DEF IInv, NobodyIsForgotten
<1>6. BatchWithinLimit'
  <2>1. IsFiniteSet(batch)
    BY FS_Subset DEF IInv, Parameters, TypeOK
  <2>2. Cardinality(batch) \in Nat /\ Cardinality(batch \cup {r}) = Cardinality(batch) + 1
    BY <1>3, <2>1, FS_AddElement, FS_CardinalityType
  <2> QED BY <1>1, <2>2 DEF IInv, Parameters, BatchWithinLimit
<1>7. TokensWithinLimit' /\ \A p \in batch' : got'[p] <= 1 \/ got'[p] < limit'[p]
  BY <1>1, <1>3 DEF IInv, TokensWithinLimit
<1> QED BY <1>4, <1>5, <1>6, <1>7 DEF IInv

LEMMA DropKeepsIInv ==
    ASSUME IInv, Drop
    PROVE  IInv'
<1>1. /\ MayDrop /\ waiting # <<>> /\ waiting' = Tail(waiting)
      /\ UNCHANGED <<batch, limit, got, answer, over>>
  BY DEF Drop
<1>2. /\ waiting' \in Seq(Requests)
      /\ \A i, j \in DOMAIN waiting' : waiting'[i] = waiting'[j] => i = j
      /\ InLine' \subseteq InLine
  BY <1>1, TailOfLine DEF IInv
<1>3. TypeOK'
  BY <1>1, <1>2 DEF IInv, TypeOK
<1> QED
  BY <1>1, <1>3 DEF IInv, NobodyIsForgotten, BatchWithinLimit, TokensWithinLimit

LEMMA FirstTokenKeepsIInv ==
    ASSUME IInv, NEW S, FirstToken(S)
    PROVE  IInv'
<1>1. /\ ~over /\ S \subseteq batch /\ InLine' = InLine
      /\ got' = [r \in Requests |-> IF r \in S THEN 1 ELSE got[r]]
      /\ UNCHANGED <<waiting, batch, limit, answer, over>>
  BY DEF FirstToken, InLine
<1>2. TypeOK'
  BY <1>1 DEF IInv, TypeOK
<1>3. TokensWithinLimit' /\ \A p \in batch' : got'[p] <= 1 \/ got'[p] < limit'[p]
  BY <1>1 DEF IInv, TypeOK, TokensWithinLimit
<1> QED BY <1>1, <1>2, <1>3 DEF IInv, NobodyIsForgotten, BatchWithinLimit

(* A smaller batch is within the limit.                                      *)
LEMMA SmallerBatch ==
    ASSUME IInv, batch' \subseteq batch
    PROVE  BatchWithinLimit'
<1>1. IsFiniteSet(batch)
  BY FS_Subset DEF IInv, Parameters, TypeOK
<1>2. /\ Cardinality(batch') <= Cardinality(batch)
      /\ Cardinality(batch') \in Nat /\ Cardinality(batch) \in Nat
  BY <1>1, FS_Subset, FS_CardinalityType
<1> QED BY <1>2 DEF Parameters, IInv, BatchWithinLimit

LEMMA StepKeepsIInv ==
    ASSUME IInv, NEW D, NEW F, Step(D, F)
    PROVE  IInv'
<1>1. /\ ~over /\ D \subseteq Served /\ F \subseteq Served /\ InLine' = InLine
      /\ got' = [r \in Requests |-> IF r \in Served \ D THEN got[r] + 1 ELSE got[r]]
      /\ \A r \in Served \ (D \cup F) : got'[r] < limit[r]
      /\ batch' = batch \ (D \cup F)
      /\ answer' = [r \in Requests |-> IF r \in D THEN Answered(D, "error")[r]
                                       ELSE Answered(F, "result")[r]]
      /\ UNCHANGED <<waiting, limit, over>>
  BY DEF Step, InLine
<1>2. \A r \in Requests : answer'[r] = IF answer[r] # "pending" THEN answer[r]
                                       ELSE IF r \in D THEN "error"
                                       ELSE IF r \in F THEN "result"
                                       ELSE "pending"
  BY <1>1 DEF Answered
<1>3. Served \subseteq batch /\ \A r \in batch : r \notin Served => got[r] = 0
  BY DEF IInv, TypeOK, Served
<1>4. TypeOK'
  <2>1. answer' \in [Requests -> {"new", "pending"} \cup Answers]
    BY <1>1, <1>2 DEF IInv, TypeOK, Answers
  <2>2. got' \in [Requests -> Nat]
    BY <1>1 DEF IInv, TypeOK
  <2>3. \A r \in Requests : answer'[r] = "new" <=> answer[r] = "new"
    BY <1>2
  <2>4. /\ batch' \subseteq batch /\ batch \subseteq Requests /\ batch \cap InLine = {}
        /\ \A r \in InLine : r \in Requests
    BY <1>1 DEF IInv, TypeOK, InLine
  <2>5. \A r \in InLine' \cup batch' : answer'[r] # "new"
    BY <1>1, <2>3, <2>4 DEF IInv, TypeOK
  <2>6. \A r \in Requests : r \in InLine' \/ answer'[r] = "new" => got'[r] = 0
    BY <1>1, <1>3, <2>3, <2>4 DEF IInv, TypeOK
  <2> QED BY <1>1, <2>1, <2>2, <2>4, <2>5, <2>6 DEF IInv, TypeOK
<1>5. NobodyIsForgotten'
  BY <1>1, <1>2 DEF IInv, NobodyIsForgotten
<1>6. BatchWithinLimit'
  BY <1>1, SmallerBatch
<1>7. \A p \in batch' : got'[p] <= 1 \/ got'[p] < limit'[p]
  <2> SUFFICES ASSUME NEW p \in batch' PROVE got'[p] <= 1 \/ got'[p] < limit'[p]
    OBVIOUS
  <2>1. p \in batch /\ p \notin D \cup F /\ p \in Requests
    BY <1>1 DEF IInv, TypeOK
  <2>2. CASE p \in Served
    BY <1>1, <2>1, <2>2
  <2>3. CASE p \notin Served
    BY <1>1, <1>3, <2>1, <2>3
  <2> QED BY <2>2, <2>3
<1>8. TokensWithinLimit'
  <2> SUFFICES ASSUME NEW p \in Requests PROVE got'[p] <= 2 \/ got'[p] <= limit'[p]
    BY DEF TokensWithinLimit
  <2>1. /\ got[p] \in Nat /\ limit[p] \in Nat /\ limit'[p] = limit[p]
        /\ got[p] <= 2 \/ got[p] <= limit[p]
    BY <1>1 DEF IInv, TypeOK, TokensWithinLimit
  <2>2. CASE p \in Served \ D
    <3>1. got'[p] = got[p] + 1 /\ (got[p] <= 1 \/ got[p] < limit[p])
      BY <1>1, <1>3, <2>2 DEF IInv
    <3> QED BY <2>1, <3>1
  <2>3. CASE p \notin Served \ D
    BY <1>1, <2>1, <2>3
  <2> QED BY <2>2, <2>3
<1> QED BY <1>4, <1>5, <1>6, <1>7, <1>8 DEF IInv

LEMMA EndKeepsIInv ==
    ASSUME IInv, NEW value \in {"error", "cancelled"}, End(value)
    PROVE  IInv'
<1>1. /\ \A r \in Requests : answer'[r] = IF r \in InLine \cup batch /\ answer[r] = "pending"
                                            THEN value ELSE answer[r]
      /\ answer' \in [Requests -> {"new", "pending"} \cup Answers]
      /\ waiting' = <<>> /\ batch' = {} /\ over' = TRUE
      /\ UNCHANGED <<limit, got>>
  BY DEF End, Answered, IInv, TypeOK, Answers
<1>2. /\ InLine' = {} /\ <<>> \in Seq(Requests) /\ Len(<<>>) = 0 /\ DOMAIN <<>> = {}
  BY <1>1, EmptySeq DEF InLine
<1>3. TypeOK'
  <2>1. \A r \in Requests : answer'[r] = "new" => got'[r] = 0
    BY <1>1 DEF IInv, TypeOK
  <2> QED BY <1>1, <1>2, <2>1 DEF IInv, TypeOK
<1>4. NobodyIsForgotten'
  BY <1>1 DEF IInv, NobodyIsForgotten
<1>5. BatchWithinLimit'
  BY <1>1, SmallerBatch
<1> QED BY <1>1, <1>3, <1>4, <1>5 DEF IInv, TokensWithinLimit

LEMMA BreakKeepsIInv ==
    ASSUME IInv, NEW D, NEW F, Break(D, F)
    PROVE  IInv'
<1>1. /\ ~over /\ D \subseteq Served /\ F \subseteq Served
      /\ got' = [r \in Requests |-> IF r \in Served \ D THEN got[r] + 1 ELSE got[r]]
      /\ answer' = [r \in Requests |-> IF r \in F THEN Answered(F, "result")[r]
                                       ELSE Answered(InLine \cup batch, "error")[r]]
      /\ waiting' = <<>> /\ batch' = {} /\ over' = TRUE /\ limit' = limit
  BY DEF Break
<1>2. \A r \in Requests : answer'[r] = IF answer[r] # "pending" THEN answer[r]
                                       ELSE IF r \in F THEN "result"
                                       ELSE IF r \in InLine \cup batch THEN "error"
                                       ELSE "pending"
  BY <1>1 DEF Answered
<1>3. Served \subseteq batch
  BY DEF Served
<1>4. /\ InLine' = {} /\ <<>> \in Seq(Requests) /\ Len(<<>>) = 0 /\ DOMAIN <<>> = {}
  BY <1>1, EmptySeq DEF InLine
<1>5. TypeOK'
  <2>1. answer' \in [Requests -> {"new", "pending"} \cup Answers]
    BY <1>1, <1>2 DEF IInv, TypeOK, Answers
  <2>2. got' \in [Requests -> Nat]
    BY <1>1 DEF IInv, TypeOK
  <2>3. \A r \in Requests : answer'[r] = "new" => got'[r] = 0
    BY <1>1, <1>2, <1>3 DEF IInv, TypeOK
  <2> QED BY <1>1, <1>4, <2>1, <2>2, <2>3 DEF IInv, TypeOK
<1>6. NobodyIsForgotten'
  BY <1>1, <1>2, <1>3 DEF IInv, NobodyIsForgotten
<1>7. BatchWithinLimit'
  BY <1>1, SmallerBatch
<1>8. TokensWithinLimit'
  <2> SUFFICES ASSUME NEW p \in Requests PROVE got'[p] <= 2 \/ got'[p] <= limit'[p]
    BY DEF TokensWithinLimit
  <2>1. /\ got[p] \in Nat /\ limit[p] \in Nat /\ limit'[p] = limit[p]
        /\ got[p] <= 2 \/ got[p] <= limit[p]
    BY <1>1 DEF IInv, TypeOK, TokensWithinLimit
  <2>2. CASE p \in Served \ D
    <3>1. got'[p] = got[p] + 1 /\ (got[p] <= 1 \/ got[p] < limit[p])
      BY <1>1, <1>3, <2>2 DEF IInv
    <3> QED BY <2>1, <3>1
  <2>3. CASE p \notin Served \ D
    BY <1>1, <2>1, <2>3
  <2> QED BY <2>2, <2>3
<1> QED BY <1>1, <1>5, <1>6, <1>7, <1>8 DEF IInv

LEMMA NextKeepsIInv == IInv /\ [Next]_vars => IInv'
<1> SUFFICES ASSUME IInv, [Next]_vars PROVE IInv'
  OBVIOUS
<1>1. CASE \E r \in Requests : GiveUp(r) \/ \E n \in Limits : Submit(r, n)
  BY <1>1, GiveUpKeepsIInv, SubmitKeepsIInv
<1>2. CASE Enter
  BY <1>2, EnterKeepsIInv
<1>3. CASE Drop
  BY <1>3, DropKeepsIInv
<1>4. CASE \E S \in SUBSET Requests : FirstToken(S)
  BY <1>4, FirstTokenKeepsIInv
<1>5. CASE \E D, F \in SUBSET Requests : Step(D, F) \/ Break(D, F)
  BY <1>5, StepKeepsIInv, BreakKeepsIInv
<1>6. CASE \E value \in {"error", "cancelled"} : End(value)
  BY <1>6, EndKeepsIInv
<1>7. CASE UNCHANGED vars
  BY <1>7 DEF vars, IInv, Parameters, TypeOK, NobodyIsForgotten, BatchWithinLimit, TokensWithinLimit,
              InLine
<1> QED BY <1>1, <1>2, <1>3, <1>4, <1>5, <1>6, <1>7 DEF Next

LEMMA Invariance == Parameters /\ Spec => []IInv
BY InitIInv, NextKeepsIInv, PTL DEF Spec

(* engine.py:120-124: the batch never exceeds its bound, and no request is   *)
(* in line and in the batch, or in either of them twice.                     *)
THEOREM BatchIsBounded == Parameters /\ Spec => [](TypeOK /\ BatchWithinLimit)
<1>1. IInv => TypeOK /\ BatchWithinLimit  BY DEF IInv
<1> QED BY <1>1, Invariance, PTL

(* engine.py:93: where admission drops nobody, whoever has no answer yet is  *)
(* in a list where every way out of the engine answers.                      *)
THEOREM NobodyForgotten == Parameters /\ Spec => []NobodyIsForgotten
<1>1. IInv => NobodyIsForgotten  BY DEF IInv
<1> QED BY <1>1, Invariance, PTL

(* engine.py:320: with a limit of at least two, nobody gets more tokens than *)
(* asked for.                                                                *)
THEOREM NoTokenTooMany == Parameters /\ Spec => []TokensWithinLimit
<1>1. IInv => TokensWithinLimit  BY DEF IInv
<1> QED BY <1>1, Invariance, PTL

-----------------------------------------------------------------------------
(* Every action answers the pending only, and a step serves all or none.     *)
LEMMA AnswerStep ==
    TypeOK /\ [Next]_vars =>
        [\A r \in Requests : answer[r] \in Answers => answer'[r] = answer[r]]_vars
<1> SUFFICES ASSUME TypeOK, [Next]_vars, NEW r \in Requests, answer[r] \in Answers
             PROVE  answer'[r] = answer[r]
  OBVIOUS
<1>1. answer[r] # "new" /\ answer[r] # "pending"
  BY DEF Answers
<1>2. ASSUME NEW p \in Requests, GiveUp(p) PROVE answer'[r] = answer[r]
  BY <1>1, <1>2 DEF GiveUp, TypeOK
<1>3. ASSUME NEW p \in Requests, NEW n \in Limits, Submit(p, n)
      PROVE  answer'[r] = answer[r]
  BY <1>1, <1>3 DEF Submit, TypeOK
<1>4. ASSUME NEW D, NEW F, Step(D, F) \/ Break(D, F) PROVE answer'[r] = answer[r]
  BY <1>1, <1>4 DEF Step, Break, Answered
<1>5. ASSUME NEW value, End(value) PROVE answer'[r] = answer[r]
  BY <1>1, <1>5 DEF End, Answered
<1>6. CASE Enter \/ Drop \/ (\E S \in SUBSET Requests : FirstToken(S)) \/ UNCHANGED vars
  BY <1>6 DEF Enter, Drop, FirstToken, vars
<1> QED BY <1>2, <1>3, <1>4, <1>5, <1>6 DEF Next

(* ch10:125: a request that timed out and finishes later, is refused, fails  *)
(* or is shut down later is not answered a second time.                      *)
THEOREM OneAnswerEach == Parameters /\ Spec => AnsweredOnce
<1>1. IInv => TypeOK  BY DEF IInv
<1> QED BY <1>1, Invariance, AnswerStep, PTL DEF Spec, AnsweredOnce

LEMMA TokenStep ==
    TypeOK /\ [Next]_vars =>
        [\A r, s \in Served : r \in batch' /\ s \in batch'
            => got'[r] - got[r] = got'[s] - got[s]]_vars
<1> SUFFICES ASSUME TypeOK, [Next]_vars, NEW r \in Served, NEW s \in Served,
                    r \in batch', s \in batch'
             PROVE  got'[r] - got[r] = got'[s] - got[s]
  OBVIOUS
<1>1. r \in Requests /\ s \in Requests /\ got[r] \in Nat /\ got[s] \in Nat
  BY DEF TypeOK, Served
<1>2. ASSUME NEW S, FirstToken(S) PROVE got'[r] = got[r] /\ got'[s] = got[s]
  BY <1>1, <1>2 DEF FirstToken
<1>3. ASSUME NEW D, NEW F, Step(D, F)
      PROVE  got'[r] = got[r] + 1 /\ got'[s] = got[s] + 1
  BY <1>1, <1>3 DEF Step
<1>4. CASE \/ \E p \in Requests : GiveUp(p) \/ \E n \in Limits : Submit(p, n)
           \/ Enter \/ Drop \/ (\E v \in {"error", "cancelled"} : End(v))
           \/ (\E D, F \in SUBSET Requests : Break(D, F))
           \/ UNCHANGED vars
  BY <1>1, <1>4 DEF GiveUp, Submit, Enter, Drop, End, Break, vars
<1>5. CASE (\E S \in SUBSET Requests : FirstToken(S))
           \/ (\E D, F \in SUBSET Requests : Step(D, F))
  BY <1>1, <1>2, <1>3, <1>5
<1> QED BY <1>4, <1>5 DEF Next

(* engine.py:300-314: decode serves the whole batch, so that those who run   *)
(* together advance together.                                                *)
THEOREM InLockstep == Parameters /\ Spec => NobodyLagsBehind
<1>1. IInv => TypeOK  BY DEF IInv
<1> QED BY <1>1, Invariance, TokenStep, PTL DEF Spec, NobodyLagsBehind

=============================================================================
