-------------------------- MODULE RuntimeV0_proofs --------------------------
(***************************************************************************)
(* For any number of requests and workers: shutdown() of RuntimeV0 waits   *)
(* for the batches that were there when it was called, the metrics add up, *)
(* and every request is in one place at most.                              *)
(***************************************************************************)
EXTENDS RuntimeV0, FiniteSetTheorems, TLAPS

(* Who is in a batch that was handed over and is not done.                   *)
Held == UNION InBatches

Types ==
    /\ queue \in Seq(Requests)
    /\ batch \subseteq Requests
    /\ batches \in Seq(SUBSET Requests)
    /\ work \in [Workers -> [batch : SUBSET Requests, calls : Int]]
    /\ future \in [Requests -> {"new", "pending", "result", "error", "timeout"}]
    /\ stage \in Stages
    /\ due \subseteq Requests

(* Nobody gets in who was not submitted: so a request of due whose future is *)
(* done stays that way.                                                      *)
NobodyIsNew == \A r \in ToSet(queue) \cup batch \cup Held \cup due : future[r] # "new"

(* shutdown() has not called join() on the batches yet, or waits there.      *)
DueAreHeld == Up => \A r \in due : future[r] = "pending" => r \in Held

(* ... and has been there.                                                   *)
DueAreDone == stage \in {"finished", "stopped"} => \A r \in due : future[r] # "pending"

Inv == Types /\ NobodyIsNew /\ DueAreHeld /\ DueAreDone

-----------------------------------------------------------------------------
LEMMA ToSetOfEmpty == ToSet(<<>>) = {}
BY DEF ToSet

LEMMA ToSetOfAppend ==
    ASSUME NEW S, NEW s \in Seq(S), NEW e \in S
    PROVE  /\ Append(s, e) \in Seq(S)
           /\ ToSet(Append(s, e)) = ToSet(s) \cup {e}
<1>1. Append(s, e) \in Seq(S) /\ DOMAIN Append(s, e) = 1 .. Len(s) + 1
  OBVIOUS
<1>2. \A i \in 1 .. Len(s) : Append(s, e)[i] = s[i]
  OBVIOUS
<1>3. Append(s, e)[Len(s) + 1] = e
  OBVIOUS
<1>4. DOMAIN s = 1 .. Len(s) /\ Len(s) \in Nat
  OBVIOUS
<1>5. ASSUME NEW x \in ToSet(Append(s, e))
      PROVE  x \in ToSet(s) \cup {e}
  <2>1. PICK i \in 1 .. Len(s) + 1 : x = Append(s, e)[i]
    BY <1>1, <1>5 DEF ToSet
  <2>2. i \in 1 .. Len(s) \/ i = Len(s) + 1
    BY <1>4
  <2> QED BY <2>1, <2>2, <1>2, <1>3, <1>4 DEF ToSet
<1>6. ASSUME NEW x \in ToSet(s)
      PROVE  x \in ToSet(Append(s, e))
  <2>1. PICK i \in 1 .. Len(s) : x = s[i]
    BY <1>4, <1>6 DEF ToSet
  <2>2. i \in 1 .. Len(s) + 1
    BY <1>4
  <2> QED BY <2>1, <2>2, <1>1, <1>2 DEF ToSet
<1>7. e \in ToSet(Append(s, e))
  <2>1. Len(s) + 1 \in 1 .. Len(s) + 1
    BY <1>4
  <2> QED BY <2>1, <1>1, <1>3 DEF ToSet
<1> QED BY <1>1, <1>5, <1>6, <1>7

LEMMA ToSetOfTail ==
    ASSUME NEW S, NEW s \in Seq(S), s # <<>>
    PROVE  /\ Head(s) \in S /\ Tail(s) \in Seq(S)
           /\ ToSet(s) = ToSet(Tail(s)) \cup {Head(s)}
<1>1. Head(s) \in S /\ Tail(s) \in Seq(S)
  OBVIOUS
<1>2. ASSUME NEW e \in ToSet(s)
      PROVE  e \in ToSet(Tail(s)) \cup {Head(s)}
  <2>1. PICK i \in 1 .. Len(s) : e = s[i]
    BY <1>2 DEF ToSet
  <2>2. CASE i = 1
    BY <2>1, <2>2
  <2>3. CASE i # 1
    <3>1. i - 1 \in DOMAIN Tail(s) /\ Tail(s)[i - 1] = s[i]
      BY <2>3
    <3> QED BY <2>1, <3>1, Zenon DEF ToSet
  <2> QED BY <2>2, <2>3
<1>3. ASSUME NEW e \in ToSet(Tail(s))
      PROVE  e \in ToSet(s)
  <2>1. PICK i \in 1 .. Len(Tail(s)) : e = Tail(s)[i]
    BY <1>3 DEF ToSet
  <2>2. i + 1 \in 1 .. Len(s) /\ Tail(s)[i] = s[i + 1]
    OBVIOUS
  <2> QED BY <2>1, <2>2 DEF ToSet
<1>4. Head(s) \in ToSet(s)
  BY DEF ToSet
<1> QED BY <1>1, <1>2, <1>3, <1>4

(* set_result and set_exception change the futures that are not done.        *)
LEMMA SettleSettles ==
    ASSUME Types, NEW R \in SUBSET Requests, NEW v \in {"result", "error"},
           future' = Settle(Pending(R), v)
    PROVE  /\ future' \in [Requests -> {"new", "pending", "result", "error", "timeout"}]
           /\ \A r \in Requests : /\ future[r] # "new" => future'[r] # "new"
                                  /\ future'[r] = "pending" => /\ future[r] = "pending"
                                                               /\ r \notin R
BY DEF Types, Settle, Pending

LEMMA InHeld ==
    \A r : r \in Held <=> \/ \E b \in ToSet(batches) : r \in b
                          \/ \E w \in Workers : r \in work[w].batch
<1> TAKE r
<1>1. r \in Held <=> \E b \in InBatches : r \in b
  BY DEF Held
<1> QED BY <1>1 DEF InBatches

LEMMA InHeldNext ==
    \A r : r \in Held' <=> \/ \E b \in ToSet(batches)' : r \in b
                           \/ \E w \in Workers : r \in work'[w].batch
<1> TAKE r
<1>1. r \in Held' <=> \E b \in InBatches' : r \in b
  BY DEF Held
<1> QED BY <1>1 DEF InBatches

(* One more batch, and the workers' are as they were.                        *)
LEMMA HeldGrows ==
    ASSUME NEW b, ToSet(batches') = ToSet(batches) \cup {b}, work' = work
    PROVE  Held' = Held \cup b
<1>1. ASSUME NEW r PROVE r \in Held' <=> r \in Held \cup b
  BY InHeld, InHeldNext, ToSet(batches)' = ToSet(batches') DEF ToSet
<1> QED BY <1>1

LEMMA InitInv == Init => Inv
<1> SUFFICES ASSUME Init PROVE Inv
  OBVIOUS
<1> USE DEF Init
<1>1. Types
  BY DEF Types, Idle, Stages
<1>2. Held = {}
  BY ToSetOfEmpty DEF Held, InBatches, Idle
<1>3. NobodyIsNew /\ DueAreHeld /\ DueAreDone
  BY <1>2, ToSetOfEmpty DEF NobodyIsNew, DueAreHeld, DueAreDone
<1> QED BY <1>1, <1>3 DEF Inv

(* A request that comes, or gives up, is in no batch yet, or stays there.    *)
LEMMA ClientKeepsInv ==
    ASSUME Inv, NEW r \in Requests, Submit(r) \/ Timeout(r)
    PROVE  Inv'
<1> USE DEF Inv, Types
<1>1. Held' = Held
  BY DEF Submit, Timeout, Held, InBatches
<1>2. Types' /\ ToSet(queue') \subseteq ToSet(queue) \cup {r}
  <2>1. CASE Submit(r)
    BY <2>1, ToSetOfAppend DEF Submit
  <2>2. CASE Timeout(r)
    BY <2>2 DEF Timeout
  <2> QED BY <2>1, <2>2
<1>3. /\ future'[r] # "new" /\ due' = due /\ batch' = batch /\ stage' = stage
      /\ \A q \in Requests \ {r} : future'[q] = future[q]
      /\ future'[r] = "pending" => future[r] = "new"
  BY DEF Submit, Timeout
<1>4. ToSet(queue) \cup batch \cup Held \cup due \subseteq Requests
  BY InHeld DEF ToSet
<1>5. NobodyIsNew'
  BY <1>1, <1>2, <1>3, <1>4 DEF NobodyIsNew
<1>6. DueAreHeld' /\ DueAreDone'
  BY <1>1, <1>3 DEF DueAreHeld, DueAreDone, NobodyIsNew, Up
<1> QED BY <1>2, <1>5, <1>6

(* A batch goes from the scheduler to the workers' queue.                    *)
LEMMA HandOverHolds ==
    ASSUME Types, NEW b \in SUBSET Requests, HandOver(b)
    PROVE  /\ batches' \in Seq(SUBSET Requests) /\ batch' = {}
           /\ ToSet(batches') = ToSet(batches) \cup {b}
<1>1. batches \in Seq(SUBSET Requests) /\ batches' = Append(batches, b) /\ batch' = {}
  BY DEF Types, HandOver
<1> QED BY <1>1, ToSetOfAppend

(* What the scheduler does adds to the batches, and lets no shutdown end.    *)
LEMMA SchedulerKeepsInv ==
    ASSUME Inv, Take \/ HandOverRest
    PROVE  Inv'
<1> USE DEF Inv, Types
<1> DEFINE all == ToSet(queue) \cup batch \cup Held
<1>1. /\ Types' /\ Held \subseteq Held'
      /\ ToSet(queue') \cup batch' \cup Held' \subseteq all
      /\ stage' = stage \/ (stage' = "emptied" /\ stage = "emptying")
  <2>1. CASE Take
    <3> DEFINE b == batch \cup {Head(queue)}
    <3>1. /\ Head(queue) \in Requests /\ Tail(queue) \in Seq(Requests)
          /\ ToSet(queue) = ToSet(Tail(queue)) \cup {Head(queue)}
      BY <2>1, ToSetOfTail DEF Take
    <3>2. /\ batches' \in Seq(SUBSET Requests)
          /\ \/ batch' = b /\ batches' = batches
             \/ batch' = {} /\ ToSet(batches') = ToSet(batches) \cup {b}
      <4>1. b \in SUBSET Requests
        BY <3>1
      <4>2. CASE Cardinality(b) < MaxBatch
        BY <2>1, <4>1, <4>2 DEF Take
      <4>3. CASE ~ Cardinality(b) < MaxBatch
        BY <2>1, <4>1, <4>3, HandOverHolds DEF Take
      <4> QED BY <4>2, <4>3
    <3>3. /\ queue' = Tail(queue) /\ work' = work /\ future' = future /\ due' = due
          /\ stage' = stage \/ (stage' = "emptied" /\ stage = "emptying")
      BY <2>1 DEF Take
    <3>4. stage' \in Stages
      BY <3>3 DEF Stages
    <3>5. Held \subseteq Held' /\ Held' \subseteq Held \cup b
      <4>1. CASE batches' = batches
        BY <3>3, <4>1, InHeld, InHeldNext
      <4>2. CASE ToSet(batches') = ToSet(batches) \cup {b}
        BY <3>3, <4>2, HeldGrows
      <4> QED BY <3>2, <4>1, <4>2
    <3> QED BY <3>1, <3>2, <3>3, <3>4, <3>5
  <2>2. CASE HandOverRest
    <3>1. /\ batches' \in Seq(SUBSET Requests) /\ batch' = {}
          /\ ToSet(batches') = ToSet(batches) \cup {batch}
      BY <2>2, HandOverHolds DEF HandOverRest
    <3>2. Held \subseteq Held' /\ Held' \subseteq Held \cup batch
      BY <2>2, <3>1, HeldGrows DEF HandOverRest
    <3> QED BY <2>2, <3>1, <3>2 DEF HandOverRest
  <2> QED BY <2>1, <2>2
<1>2. future' = future /\ due' = due /\ Up
  BY DEF Take, HandOverRest
<1>3. NobodyIsNew'
  BY <1>1, <1>2 DEF NobodyIsNew
<1>4. DueAreHeld' /\ DueAreDone'
  BY <1>1, <1>2 DEF DueAreHeld, DueAreDone, Up
<1> QED BY <1>1, <1>3, <1>4

(* A worker takes the first batch, or makes another call for its own.        *)
LEMMA WorkKeepsInv ==
    ASSUME Inv, NEW w \in Workers, Start(w) \/ Generate(w)
    PROVE  Inv'
<1> USE DEF Inv, Types
<1>1. Types' /\ Held' = Held
  <2>1. CASE Start(w)
    <3> DEFINE b == Head(batches)
    <3>1. /\ b \in SUBSET Requests /\ Tail(batches) \in Seq(SUBSET Requests)
          /\ ToSet(batches) = ToSet(Tail(batches)) \cup {b}
      BY <2>1, ToSetOfTail DEF Start
    <3>2. Cardinality(b) \in Int
      BY <3>1, FS_Subset, FS_CardinalityType, RuntimeAssumption
    <3>3. /\ work[w].batch = {} /\ batches' = Tail(batches)
          /\ work' = [work EXCEPT ![w] = [batch |-> b, calls |-> Cardinality(b)]]
      BY <2>1 DEF Start, Idle
    <3>4. Types'
      BY <2>1, <3>1, <3>2, <3>3 DEF Start
    <3>5. ASSUME NEW r PROVE r \in Held' <=> r \in Held
      <4>1. ToSet(batches)' = ToSet(Tail(batches))
        BY <3>3 DEF ToSet
      <4>2. work'[w].batch = b /\ \A v \in Workers \ {w} : work'[v] = work[v]
        BY <3>3
      <4> QED BY <3>1, <3>3, <4>1, <4>2, InHeld, InHeldNext
    <3> QED BY <3>4, <3>5
  <2>2. CASE Generate(w)
    <3>1. /\ work' = [work EXCEPT ![w].calls = @ - 1]
          /\ work[w] \in [batch : SUBSET Requests, calls : Int]
      BY <2>2 DEF Generate
    <3>2. /\ work' \in [Workers -> [batch : SUBSET Requests, calls : Int]]
          /\ \A v \in Workers : work'[v].batch = work[v].batch
      BY <3>1
    <3>3. Types'
      BY <2>2, <3>2 DEF Generate
    <3>4. ToSet(batches)' = ToSet(batches)
      BY <2>2 DEF Generate, ToSet
    <3>5. ASSUME NEW r PROVE r \in Held' <=> r \in Held
      BY <3>2, <3>4, InHeld, InHeldNext
    <3> QED BY <3>3, <3>5
  <2> QED BY <2>1, <2>2
<1>2. /\ future' = future /\ due' = due /\ stage' = stage
      /\ queue' = queue /\ batch' = batch
  BY DEF Start, Generate
<1>3. NobodyIsNew' /\ DueAreHeld' /\ DueAreDone'
  BY <1>1, <1>2 DEF NobodyIsNew, DueAreHeld, DueAreDone, Up
<1> QED BY <1>1, <1>3

(* No batch in the queue and no worker busy: nobody is held.                 *)
LEMMA NobodyHeld ==
    ASSUME Types, batches = <<>>
    PROVE  /\ Busy \subseteq Workers
           /\ \A r \in Held : \E w \in Busy : r \in work[w].batch
<1>1. \A w \in Workers : w \notin Busy => work[w].batch = {}
  BY DEF Busy, Idle
<1>2. ToSet(batches) = {}
  BY ToSetOfEmpty
<1> QED BY <1>1, <1>2, InHeld DEF Busy

(* A batch that is done, or has failed, leaves nobody in it waiting; and it  *)
(* is the last one if the second join ends with it.                          *)
LEMMA ReturnKeepsInv ==
    ASSUME Inv, NEW w \in Workers, Finish(w) \/ Fail(w)
    PROVE  Inv'
<1> USE DEF Inv, Types
<1> DEFINE B == work[w].batch
<1>1. B \in SUBSET Requests
  OBVIOUS
<1>2. /\ future' \in [Requests -> {"new", "pending", "result", "error", "timeout"}]
      /\ \A r \in Requests : /\ future[r] # "new" => future'[r] # "new"
                             /\ future'[r] = "pending" => /\ future[r] = "pending"
                                                          /\ r \notin B
  <2>1. \/ future' = Settle(Pending(B), "result")
        \/ future' = Settle(Pending(B), "error")
    BY DEF Finish, Fail
  <2>2. CASE future' = Settle(Pending(B), "result")
    BY <1>1, <2>2, SettleSettles
  <2>3. CASE future' = Settle(Pending(B), "error")
    BY <1>1, <2>3, SettleSettles
  <2> QED BY <2>1, <2>2, <2>3
<1>3. Return(w) /\ Up
  BY DEF Finish, Fail
<1> DEFINE last == stage = "finishing" /\ batches = <<>> /\ Busy = {w}
<1>4. Types'
  <2>1. /\ queue' = queue /\ batch' = batch /\ batches' = batches /\ due' = due
        /\ work' = [work EXCEPT ![w] = Idle]
    BY <1>3 DEF Return
  <2>2. stage' \in Stages
    BY <1>3 DEF Return, Stages
  <2>3. work' \in [Workers -> [batch : SUBSET Requests, calls : Int]]
    BY <2>1 DEF Idle
  <2>4. future' \in [Requests -> {"new", "pending", "result", "error", "timeout"}]
    BY <1>2
  <2> QED BY <2>1, <2>2, <2>3, <2>4
<1>5. \A r : /\ r \in Held' => r \in Held
             /\ r \in Held => r \in Held' \/ r \in B
  <2>1. /\ ToSet(batches)' = ToSet(batches)
        /\ work'[w].batch = {} /\ \A v \in Workers \ {w} : work'[v] = work[v]
    BY <1>3 DEF Return, Idle, ToSet
  <2> QED BY <2>1, InHeld, InHeldNext
<1>6. NobodyIsNew'
  <2>1. ToSet(queue) \subseteq Requests
    BY DEF ToSet
  <2>2. Held \subseteq Requests
    BY InHeld DEF ToSet
  <2>3. ToSet(queue)' = ToSet(queue) /\ batch' = batch /\ due' = due
    BY <1>3 DEF Return, ToSet
  <2>4. ASSUME NEW r \in (ToSet(queue) \cup batch \cup Held \cup due)'
        PROVE  future'[r] # "new"
    <3>1. r \in Requests /\ future[r] # "new"
      BY <1>5, <2>1, <2>2, <2>3, <2>4 DEF NobodyIsNew
    <3> QED BY <1>2, <3>1
  <2> QED BY <2>4 DEF NobodyIsNew
<1>7. DueAreHeld'
  <2>1. due' = due
    BY <1>3 DEF Return
  <2>2. \A r \in due : future'[r] = "pending" => r \in Held /\ r \notin B
    BY <1>2, <1>3 DEF DueAreHeld
  <2> QED BY <1>5, <2>1, <2>2 DEF DueAreHeld
<1>8. DueAreDone'
  <2>1. due' = due /\ stage' = IF last THEN "finished" ELSE stage
    BY <1>3 DEF Return
  <2>2. CASE last
    <3>1. \A r \in Held : r \in B
      BY <2>2, NobodyHeld
    <3>2. \A r \in due : future[r] = "pending" => r \in B
      BY <1>3, <3>1 DEF DueAreHeld
    <3> QED BY <1>2, <2>1, <3>2 DEF DueAreDone
  <2>3. CASE ~ last
    BY <1>2, <2>1, <2>3 DEF DueAreDone
  <2> QED BY <2>2, <2>3
<1> QED BY <1>4, <1>6, <1>7, <1>8

-----------------------------------------------------------------------------
(* The two joins, and the end.                                               *)
LEMMA ShutdownKeepsInv ==
    ASSUME Inv, Shutdown
    PROVE  Inv'
<1> USE DEF Inv, Types
<1>1. /\ due' = Held /\ queue' = queue /\ batches' = batches /\ future' = future
      /\ Held \subseteq Requests
  <2>1. due' = Held /\ queue' = queue /\ batches' = batches /\ future' = future
    BY DEF Shutdown, Held
  <2>2. Held \subseteq Requests
    BY InHeld DEF ToSet
  <2> QED BY <2>1, <2>2
<1>2. CASE batch' = batch /\ work' = work /\ stage' \in {"emptying", "finishing"}
  <2>1. Held' = Held
    BY <1>1, <1>2 DEF Held, InBatches
  <2>2. Types'
    BY <1>1, <1>2 DEF Stages
  <2> QED BY <1>1, <1>2, <2>1, <2>2 DEF NobodyIsNew, DueAreHeld, DueAreDone, Up
<1>3. CASE batches = <<>> /\ Busy = {} /\ Cancel
  <2>1. Held = {}
    BY <1>3, NobodyHeld
  <2>2. Types' /\ batch' = {} /\ \A v \in Workers : work'[v].batch = {}
    BY <1>1, <1>3 DEF Cancel, Idle, Stages
  <2>3. Held' = {}
    BY <1>1, <1>3, <2>2, InHeldNext, ToSetOfEmpty DEF ToSet
  <2>4. ToSet(queue)' = ToSet(queue)
    BY <1>1 DEF ToSet
  <2> QED BY <1>1, <1>3, <2>1, <2>2, <2>3, <2>4
          DEF NobodyIsNew, DueAreHeld, DueAreDone, Up, Cancel
<1> QED BY <1>2, <1>3 DEF Shutdown, JoinBatches

LEMMA ResumeKeepsInv ==
    ASSUME Inv, ResumeShutdown
    PROVE  Inv'
<1> USE DEF Inv, Types
<1>1. due' = due /\ queue' = queue /\ batches' = batches /\ future' = future
  BY DEF ResumeShutdown
<1>2. CASE batch' = batch /\ work' = work /\ stage' = "finishing" /\ stage = "emptied"
  <2>1. Held' = Held
    BY <1>1, <1>2 DEF Held, InBatches
  <2>2. Types'
    BY <1>1, <1>2 DEF Stages
  <2> QED BY <1>1, <1>2, <2>1, <2>2 DEF NobodyIsNew, DueAreHeld, DueAreDone, Up
<1>3. CASE /\ Cancel
           /\ stage = "finished" \/ (stage = "emptied" /\ batches = <<>> /\ Busy = {})
  <2>1. \A r \in due : future[r] # "pending"
    <3>1. CASE stage = "finished"
      BY <3>1 DEF DueAreDone
    <3>2. CASE stage = "emptied" /\ batches = <<>> /\ Busy = {}
      BY <3>2, NobodyHeld DEF DueAreHeld, Up
    <3> QED BY <1>3, <3>1, <3>2
  <2>2. Types' /\ batch' = {} /\ \A v \in Workers : work'[v].batch = {}
    BY <1>1, <1>3 DEF Cancel, Idle, Stages
  <2>3. Held' \subseteq Held
    <3>1. ToSet(batches)' = ToSet(batches)
      BY <1>1 DEF ToSet
    <3> QED BY <2>2, <3>1, InHeld, InHeldNext
  <2>4. ToSet(queue)' = ToSet(queue)
    BY <1>1 DEF ToSet
  <2> QED BY <1>1, <1>3, <2>1, <2>2, <2>3, <2>4
          DEF NobodyIsNew, DueAreHeld, DueAreDone, Up, Cancel
<1> QED BY <1>2, <1>3 DEF ResumeShutdown, JoinBatches

LEMMA StutterKeepsInv ==
    ASSUME Inv, UNCHANGED vars
    PROVE  Inv'
BY DEF vars, Inv, Types, NobodyIsNew, DueAreHeld, DueAreDone, Up, Held, InBatches, ToSet

LEMMA NextKeepsInv == Inv /\ [Next]_vars => Inv'
BY ClientKeepsInv, SchedulerKeepsInv, WorkKeepsInv, ReturnKeepsInv, ShutdownKeepsInv,
   ResumeKeepsInv, StutterKeepsInv DEF Next

(* shutdown() cancels the tasks only when everyone is answered who was in a  *)
(* batch when it was called.                                                 *)
THEOREM ShutdownWaits == Spec => []BatchedWorkIsFinished
<1>1. Inv => BatchedWorkIsFinished
  BY DEF Inv, DueAreDone, BatchedWorkIsFinished
<1> QED BY <1>1, InitInv, NextKeepsInv, PTL DEF Spec

-----------------------------------------------------------------------------
(* Where a request is: on its way into a batch, in one that is handed over   *)
(* (Held), or nowhere; and that it is nowhere twice.                         *)
Entering == ToSet(queue) \cup batch
With(value) == {r \in Requests : future[r] = value}

BatchesAreApart ==
    /\ \A i, j \in DOMAIN batches : i # j => batches[i] \cap batches[j] = {}
    /\ \A v, w \in Workers : v # w => work[v].batch \cap work[w].batch = {}
    /\ \A i \in DOMAIN batches : \A w \in Workers : batches[i] \cap work[w].batch = {}

OnePlaceEach ==
    IsInjective(queue) /\ ToSet(queue) \cap batch = {} /\ Entering \cap Held = {}

(* Nobody is answered before the batch is done, and who waits for an answer  *)
(* has not got lost.                                                         *)
NobodyIsAnswered == \A r \in Entering \cup Held : future[r] \in {"pending", "timeout"}
NobodyIsLost == Up => With("pending") \subseteq Entering \cup Held

PlaceInv == BatchesAreApart /\ OnePlaceEach /\ NobodyIsAnswered /\ NobodyIsLost

LEMMA InjectiveAppend ==
    ASSUME NEW s \in Seq(Requests), IsInjective(s), NEW e \in Requests, e \notin ToSet(s)
    PROVE  IsInjective(Append(s, e))
<1>1. /\ DOMAIN Append(s, e) = 1 .. Len(s) + 1 /\ Len(s) \in Nat /\ DOMAIN s = 1 .. Len(s)
      /\ \A i \in 1 .. Len(s) : Append(s, e)[i] = s[i]
      /\ Append(s, e)[Len(s) + 1] = e
  OBVIOUS
<1>2. \A i \in 1 .. Len(s) : s[i] # e
  BY <1>1 DEF ToSet
<1>3. \A i, j \in 1 .. Len(s) : s[i] = s[j] => i = j
  BY <1>1 DEF IsInjective
<1>4. ASSUME NEW i \in 1 .. Len(s) + 1, NEW j \in 1 .. Len(s) + 1,
             Append(s, e)[i] = Append(s, e)[j]
      PROVE  i = j
  <2>1. (i \in 1 .. Len(s) \/ i = Len(s) + 1) /\ (j \in 1 .. Len(s) \/ j = Len(s) + 1)
    BY <1>1
  <2> QED BY <1>1, <1>2, <1>3, <1>4, <2>1
<1> QED BY <1>1, <1>4 DEF IsInjective

LEMMA InjectiveTail ==
    ASSUME NEW s \in Seq(Requests), IsInjective(s), s # <<>>
    PROVE  IsInjective(Tail(s)) /\ Head(s) \notin ToSet(Tail(s))
<1>1. /\ Len(s) \in Nat \ {0} /\ DOMAIN s = 1 .. Len(s) /\ Head(s) = s[1]
      /\ DOMAIN Tail(s) = 1 .. Len(s) - 1
      /\ \A i \in 1 .. Len(s) - 1 : Tail(s)[i] = s[i + 1]
  OBVIOUS
<1>2. \A i, j \in 1 .. Len(s) : s[i] = s[j] => i = j
  BY <1>1 DEF IsInjective
<1>3. ASSUME NEW i \in 1 .. Len(s) - 1, NEW j \in 1 .. Len(s) - 1, Tail(s)[i] = Tail(s)[j]
      PROVE  i = j
  <2>1. i + 1 \in 1 .. Len(s) /\ j + 1 \in 1 .. Len(s) /\ s[i + 1] = s[j + 1]
    BY <1>1, <1>3
  <2>2. i + 1 = j + 1
    BY <1>2, <2>1
  <2> QED BY <2>2
<1>4. ASSUME NEW i \in 1 .. Len(s) - 1 PROVE Tail(s)[i] # Head(s)
  <2>1. i + 1 \in 1 .. Len(s) /\ i + 1 # 1 /\ 1 \in 1 .. Len(s)
    BY <1>1
  <2> QED BY <1>1, <1>2, <2>1
<1> QED BY <1>1, <1>3, <1>4 DEF IsInjective, ToSet

LEMMA EverybodyIsARequest == Inv => Entering \subseteq Requests /\ Held \subseteq Requests
BY InHeld DEF Inv, Types, Entering, ToSet

(* Clients: who comes was nowhere, who gives up stays where it is.           *)
LEMMA SubmitMoves ==
    ASSUME Inv, PlaceInv, NEW r \in Requests, Submit(r)
    PROVE  /\ Entering' = Entering \cup {r} /\ r \notin Entering \cup Held
           /\ Held' = Held /\ BatchesAreApart' /\ OnePlaceEach'
<1>1. r \notin Entering \cup Held
  BY DEF Submit, PlaceInv, NobodyIsAnswered
<1>2. /\ queue \in Seq(Requests) /\ queue' = Append(queue, r) /\ batch' = batch
      /\ batches' = batches /\ work' = work
  BY DEF Submit, Inv, Types
<1>3. Held' = Held /\ BatchesAreApart'
  BY <1>2 DEF Held, InBatches, PlaceInv, BatchesAreApart
<1>4. ToSet(queue') = ToSet(queue) \cup {r} /\ IsInjective(queue')
  BY <1>1, <1>2, ToSetOfAppend, InjectiveAppend DEF PlaceInv, OnePlaceEach, Entering
<1>5. Entering' = Entering \cup {r}
  BY <1>2, <1>4 DEF Entering
<1>6. OnePlaceEach'
  <2>1. ToSet(queue') \cap batch' = {}
    BY <1>1, <1>2, <1>4 DEF PlaceInv, OnePlaceEach, Entering
  <2>2. Entering' \cap Held' = {}
    BY <1>1, <1>3, <1>5 DEF PlaceInv, OnePlaceEach
  <2> QED BY <1>4, <2>1, <2>2 DEF OnePlaceEach
<1> QED BY <1>1, <1>3, <1>5, <1>6

(* A batch b that is handed over comes from those entering.                  *)
LEMMA HandOverMoves ==
    ASSUME Inv, PlaceInv, NEW b \in SUBSET Entering, HandOver(b), work' = work
    PROVE  Held' = Held \cup b /\ BatchesAreApart'
<1>1. /\ batches \in Seq(SUBSET Requests) /\ b \in SUBSET Requests
      /\ batches' = Append(batches, b)
  BY EverybodyIsARequest DEF HandOver, Inv, Types
<1>2. ToSet(batches') = ToSet(batches) \cup {b}
  BY <1>1, ToSetOfAppend
<1>3. Held' = Held \cup b
  BY <1>2, HeldGrows
<1>4. /\ Len(batches) \in Nat /\ DOMAIN batches = 1 .. Len(batches)
      /\ DOMAIN batches' = 1 .. Len(batches) + 1
      /\ \A i \in 1 .. Len(batches) : batches'[i] = batches[i]
      /\ batches'[Len(batches) + 1] = b
  BY <1>1
<1>5. /\ \A i \in 1 .. Len(batches) : b \cap batches[i] = {}
      /\ \A w \in Workers : b \cap work[w].batch = {}
  <2>1. b \cap Held = {}
    BY DEF PlaceInv, OnePlaceEach
  <2>2. \A i \in 1 .. Len(batches) : batches[i] \in ToSet(batches)
    BY <1>4 DEF ToSet
  <2> QED BY <2>1, <2>2, InHeld
<1>6. ASSUME NEW i \in 1 .. Len(batches) + 1
      PROVE  /\ \A j \in 1 .. Len(batches) + 1 : i # j => batches'[i] \cap batches'[j] = {}
             /\ \A w \in Workers : batches'[i] \cap work[w].batch = {}
  <2>1. \A j \in 1 .. Len(batches) + 1 : j \in 1 .. Len(batches) \/ j = Len(batches) + 1
    BY <1>4
  <2>2. CASE i \in 1 .. Len(batches)
    BY <1>4, <1>5, <2>1, <2>2 DEF PlaceInv, BatchesAreApart
  <2>3. CASE i = Len(batches) + 1
    BY <1>4, <1>5, <2>1, <2>3
  <2> QED BY <2>1, <2>2, <2>3
<1>7. BatchesAreApart'
  BY <1>4, <1>6 DEF PlaceInv, BatchesAreApart
<1> QED BY <1>3, <1>7

(* The scheduler takes a request into its list, or hands a batch over.       *)
Passes(b) ==
    /\ Entering' = Entering \ b /\ Held' = Held \cup b
    /\ metrics' = [metrics EXCEPT !.batches = @ + 1,
                                  !.total_batch_size = @ + Cardinality(b)]

LEMMA SchedulerMoves ==
    ASSUME Inv, PlaceInv, Take \/ HandOverRest
    PROVE  /\ BatchesAreApart' /\ OnePlaceEach'
           /\ \/ Entering' = Entering /\ Held' = Held /\ metrics' = metrics
              \/ \E b \in SUBSET Entering : Passes(b)
<1>1. work' = work
  BY DEF Take, HandOverRest
<1>2. CASE Take
  <2> DEFINE b == batch \cup {Head(queue)}
  <2>1. /\ queue \in Seq(Requests) /\ queue # <<>> /\ queue' = Tail(queue)
        /\ \/ batch' = b /\ batches' = batches /\ metrics' = metrics
           \/ HandOver(b)
    BY <1>2 DEF Take, Inv, Types
  <2>2. /\ ToSet(queue) = ToSet(queue') \cup {Head(queue)}
        /\ Head(queue) \notin ToSet(queue') /\ IsInjective(queue')
    BY <2>1, ToSetOfTail, InjectiveTail DEF PlaceInv, OnePlaceEach
  <2>3. b \in SUBSET Entering /\ ToSet(queue') \cap b = {} /\ Entering = ToSet(queue') \cup b
    BY <2>2 DEF Entering, PlaceInv, OnePlaceEach
  <2>4. CASE batch' = b /\ batches' = batches /\ metrics' = metrics
    <3>1. Held' = Held /\ BatchesAreApart'
      BY <1>1, <2>4 DEF Held, InBatches, PlaceInv, BatchesAreApart
    <3>2. Entering' = Entering
      BY <2>3, <2>4 DEF Entering
    <3> QED BY <2>2, <2>3, <2>4, <3>1, <3>2 DEF PlaceInv, OnePlaceEach
  <2>5. CASE HandOver(b)
    <3>1. Held' = Held \cup b /\ BatchesAreApart' /\ batch' = {}
      BY <1>1, <2>3, <2>5, HandOverMoves DEF HandOver
    <3>2. Entering' = Entering \ b
      BY <2>3, <3>1 DEF Entering
    <3>3. OnePlaceEach'
      BY <2>2, <3>1, <3>2 DEF PlaceInv, OnePlaceEach
    <3> QED BY <2>3, <2>5, <3>1, <3>2, <3>3 DEF HandOver, Passes
  <2> QED BY <2>1, <2>4, <2>5
<1>3. CASE HandOverRest
  <2>1. batch \in SUBSET Entering /\ HandOver(batch) /\ queue' = queue /\ batch' = {}
    BY <1>3 DEF HandOverRest, HandOver, Entering
  <2>2. Held' = Held \cup batch /\ BatchesAreApart'
    BY <1>1, <2>1, HandOverMoves
  <2>3. ToSet(queue') = ToSet(queue) /\ IsInjective(queue') /\ Entering' = Entering \ batch
    BY <2>1 DEF Entering, PlaceInv, OnePlaceEach
  <2>4. OnePlaceEach'
    BY <2>1, <2>2, <2>3 DEF PlaceInv, OnePlaceEach
  <2> QED BY <2>1, <2>2, <2>3, <2>4 DEF HandOver, Passes
<1> QED BY <1>2, <1>3

(* A worker takes the first batch or goes on with its own.                   *)
LEMMA WorkMoves ==
    ASSUME Inv, PlaceInv, NEW w \in Workers, Start(w) \/ Generate(w)
    PROVE  /\ Entering' = Entering /\ Held' = Held
           /\ BatchesAreApart' /\ OnePlaceEach'
<1>1. queue' = queue /\ batch' = batch
  BY DEF Start, Generate
<1>2. Held' = Held /\ BatchesAreApart'
  <2>1. CASE Start(w)
    <3>1. /\ batches \in Seq(SUBSET Requests) /\ batches # <<>>
          /\ batches' = Tail(batches) /\ work[w].batch = {}
          /\ work'[w].batch = Head(batches)
          /\ \A v \in Workers \ {w} : work'[v].batch = work[v].batch
      BY <2>1 DEF Start, Idle, Inv, Types
    <3>2. /\ ToSet(batches) = ToSet(Tail(batches)) \cup {Head(batches)}
          /\ ToSet(batches)' = ToSet(Tail(batches))
      BY <3>1, ToSetOfTail DEF ToSet
    <3>3. \A r : r \in Held' <=> r \in Held
      BY <3>1, <3>2, InHeld, InHeldNext
    <3>4. /\ DOMAIN batches = 1 .. Len(batches) /\ Len(batches) \in Nat \ {0}
          /\ DOMAIN batches' = 1 .. Len(batches) - 1 /\ Head(batches) = batches[1]
          /\ \A i \in 1 .. Len(batches) - 1 : /\ batches'[i] = batches[i + 1]
                                              /\ i + 1 \in 1 .. Len(batches) /\ i + 1 # 1
          /\ 1 \in 1 .. Len(batches)
      BY <3>1
    <3>5. /\ \A i \in 1 .. Len(batches) - 1 : Head(batches) \cap batches'[i] = {}
          /\ \A v \in Workers : Head(batches) \cap work[v].batch = {}
          /\ \A i \in 1 .. Len(batches) - 1 : \A v \in Workers :
                batches'[i] \cap work[v].batch = {}
      BY <3>4 DEF PlaceInv, BatchesAreApart
    <3>6. \A i, j \in 1 .. Len(batches) - 1 : i # j => batches'[i] \cap batches'[j] = {}
      <4> TAKE i, j \in 1 .. Len(batches) - 1
      <4>1. i # j => i + 1 # j + 1
        OBVIOUS
      <4> QED BY <3>4, <4>1 DEF PlaceInv, BatchesAreApart
    <3>7. \A u, v \in Workers : u # v => work'[u].batch \cap work'[v].batch = {}
      <4> TAKE u, v \in Workers
      <4>1. work[u].batch \cap work[v].batch = {} \/ u = v
        BY DEF PlaceInv, BatchesAreApart
      <4> QED BY <3>1, <3>5, <4>1
    <3>8. \A i \in 1 .. Len(batches) - 1 : \A v \in Workers :
             batches'[i] \cap work'[v].batch = {}
      <4> TAKE i \in 1 .. Len(batches) - 1
      <4> TAKE v \in Workers
      <4>1. CASE v = w
        BY <3>1, <3>5, <4>1
      <4>2. CASE v # w
        BY <3>1, <3>5, <4>2
      <4> QED BY <4>1, <4>2
    <3> QED BY <3>3, <3>4, <3>6, <3>7, <3>8 DEF BatchesAreApart
  <2>2. CASE Generate(w)
    <3>1. /\ batches' = batches /\ work' = [work EXCEPT ![w].calls = @ - 1]
          /\ work \in [Workers -> [batch : SUBSET Requests, calls : Int]]
      BY <2>2 DEF Generate, Inv, Types
    <3>2. \A v \in Workers : work'[v].batch = work[v].batch
      BY <3>1
    <3>3. ToSet(batches)' = ToSet(batches)
      BY <3>1 DEF ToSet
    <3>4. \A r : r \in Held' <=> r \in Held
      BY <3>2, <3>3, InHeld, InHeldNext
    <3> QED BY <3>1, <3>2, <3>4 DEF PlaceInv, BatchesAreApart
  <2> QED BY <2>1, <2>2
<1> QED BY <1>1, <1>2 DEF Entering, PlaceInv, OnePlaceEach

(* A batch that is done leaves; it shares nobody with those that stay.       *)
LEMMA ReturnMoves ==
    ASSUME Inv, PlaceInv, NEW w \in Workers, Return(w)
    PROVE  /\ Entering' = Entering /\ Held' = Held \ work[w].batch
           /\ work[w].batch \subseteq Held
           /\ BatchesAreApart' /\ OnePlaceEach'
<1>1. /\ queue' = queue /\ batch' = batch /\ batches' = batches
      /\ work'[w].batch = {} /\ \A v \in Workers \ {w} : work'[v].batch = work[v].batch
  BY DEF Return, Idle, Inv, Types
<1>2. ToSet(batches)' = ToSet(batches)
  BY <1>1 DEF ToSet
<1>3. \A b \in ToSet(batches) : b \cap work[w].batch = {}
  BY DEF ToSet, PlaceInv, BatchesAreApart
<1>4. \A v \in Workers \ {w} : work[v].batch \cap work[w].batch = {}
  BY DEF PlaceInv, BatchesAreApart
<1>5. \A r : r \in Held' <=> r \in Held /\ r \notin work[w].batch
  BY <1>1, <1>2, <1>3, <1>4, InHeld, InHeldNext
<1>6. work[w].batch \subseteq Held
  BY InHeld
<1>7. BatchesAreApart'
  <2>1. \A u, v \in Workers : u # v => work'[u].batch \cap work'[v].batch = {}
    <3> TAKE u, v \in Workers
    <3>1. work[u].batch \cap work[v].batch = {} \/ u = v
      BY DEF PlaceInv, BatchesAreApart
    <3> QED BY <1>1, <3>1
  <2>2. \A i \in DOMAIN batches : \A v \in Workers : batches[i] \cap work'[v].batch = {}
    BY <1>1 DEF PlaceInv, BatchesAreApart
  <2> QED BY <1>1, <2>1, <2>2 DEF PlaceInv, BatchesAreApart
<1>8. Entering' = Entering /\ OnePlaceEach'
  BY <1>1, <1>5 DEF Entering, PlaceInv, OnePlaceEach
<1> QED BY <1>5, <1>6, <1>7, <1>8

(* The steps of shutdown() only let go.                                      *)
LEMMA ShutdownMoves ==
    ASSUME Inv, PlaceInv, Shutdown \/ ResumeShutdown
    PROVE  /\ Entering' \subseteq Entering /\ Held' \subseteq Held
           /\ BatchesAreApart' /\ OnePlaceEach'
           /\ Up' => Entering' = Entering /\ Held' = Held
<1>1. /\ queue' = queue /\ batches' = batches
      /\ \/ batch' = batch /\ work' = work
         \/ Cancel
  BY DEF Shutdown, ResumeShutdown, JoinBatches
<1>2. CASE batch' = batch /\ work' = work
  BY <1>1, <1>2 DEF Entering, Held, InBatches, PlaceInv, BatchesAreApart, OnePlaceEach
<1>3. CASE Cancel
  <2>1. batch' = {} /\ (\A w \in Workers : work'[w].batch = {}) /\ ~Up'
    BY <1>3 DEF Cancel, Idle, Up
  <2>2. ToSet(queue)' = ToSet(queue) /\ ToSet(batches)' = ToSet(batches)
    BY <1>1 DEF ToSet
  <2>3. Entering' \subseteq Entering
    BY <2>1, <2>2 DEF Entering
  <2>4. \A r : r \in Held' => r \in Held
    BY <2>1, <2>2, InHeld, InHeldNext
  <2>5. BatchesAreApart'
    BY <1>1, <2>1 DEF PlaceInv, BatchesAreApart
  <2>6. OnePlaceEach'
    BY <1>1, <2>1, <2>2, <2>3, <2>4 DEF PlaceInv, OnePlaceEach
  <2> QED BY <2>1, <2>3, <2>4, <2>5, <2>6
<1> QED BY <1>1, <1>2, <1>3

LEMMA PlaceInit == Init => PlaceInv
<1> SUFFICES ASSUME Init PROVE PlaceInv
  OBVIOUS
<1>1. /\ queue = <<>> /\ batch = {} /\ batches = <<>> /\ \A w \in Workers : work[w].batch = {}
      /\ \A r \in Requests : future[r] = "new"
  BY DEF Init, Idle
<1>2. Held = {} /\ Entering = {}
  BY <1>1, InHeld, ToSetOfEmpty DEF Entering
<1> QED BY <1>1, <1>2, ToSetOfEmpty
        DEF PlaceInv, BatchesAreApart, OnePlaceEach, NobodyIsAnswered, NobodyIsLost,
            With, IsInjective

LEMMA PlaceStep == Inv /\ PlaceInv /\ [Next]_vars => PlaceInv'
<1> SUFFICES ASSUME Inv, PlaceInv, [Next]_vars PROVE PlaceInv'
  OBVIOUS
<1>1. /\ Entering \subseteq Requests /\ Held \subseteq Requests
      /\ future \in [Requests -> {"new", "pending", "result", "error", "timeout"}]
  BY EverybodyIsARequest DEF Inv, Types
<1> USE DEF PlaceInv, NobodyIsAnswered, NobodyIsLost, With
<1>2. ASSUME NEW r \in Requests, Submit(r) PROVE PlaceInv'
  <2>1. future' = [future EXCEPT ![r] = "pending"] /\ Up' = Up
    BY <1>2 DEF Submit, Up
  <2> QED BY <1>1, <1>2, <2>1, SubmitMoves
<1>3. ASSUME NEW r \in Requests, Timeout(r) PROVE PlaceInv'
  <2>1. /\ future' = [future EXCEPT ![r] = "timeout"] /\ future[r] = "pending" /\ Up' = Up
        /\ Entering' = Entering /\ Held' = Held /\ BatchesAreApart' /\ OnePlaceEach'
    BY <1>3 DEF Timeout, Up, Entering, Held, InBatches, BatchesAreApart, OnePlaceEach
  <2> QED BY <1>1, <2>1
<1>4. CASE Take \/ HandOverRest
  <2>1. future' = future /\ Up
    BY <1>4 DEF Take, HandOverRest
  <2>2. /\ BatchesAreApart' /\ OnePlaceEach'
        /\ Entering' \cup Held' = Entering \cup Held
    BY <1>4, SchedulerMoves DEF Passes
  <2> QED BY <2>1, <2>2
<1>5. ASSUME NEW w \in Workers, Start(w) \/ Generate(w) PROVE PlaceInv'
  <2>1. future' = future /\ Up
    BY <1>5 DEF Start, Generate
  <2> QED BY <1>5, <2>1, WorkMoves
<1>6. ASSUME NEW w \in Workers, Finish(w) \/ Fail(w) PROVE PlaceInv'
  <2> DEFINE B == work[w].batch
  <2>1. \E v \in {"result", "error"} : future' = Settle(Pending(B), v)
    BY <1>6 DEF Finish, Fail
  <2>2. \A r \in Requests : future'[r] = "pending" <=> future[r] = "pending" /\ r \notin B
    BY <1>1, <2>1 DEF Settle, Pending
  <2>3. \A r \in Requests \ B : future'[r] = future[r]
    BY <1>1, <2>1 DEF Settle, Pending
  <2>4. /\ Entering' = Entering /\ Held' = Held \ B /\ B \subseteq Held
        /\ BatchesAreApart' /\ OnePlaceEach' /\ Up
    BY <1>6, ReturnMoves DEF Finish, Fail
  <2> HIDE DEF B
  <2>5. NobodyIsAnswered'
    <3>1. Entering \cap B = {}
      BY <2>4 DEF OnePlaceEach
    <3> QED BY <1>1, <2>3, <2>4, <3>1
  <2>6. NobodyIsLost'
    BY <1>1, <2>2, <2>4
  <2> QED BY <2>4, <2>5, <2>6
<1>7. CASE Shutdown \/ ResumeShutdown
  <2>1. future' = future /\ Up
    BY <1>7 DEF Shutdown, ResumeShutdown, Up
  <2> QED BY <1>7, <2>1, ShutdownMoves
<1>8. CASE UNCHANGED vars
  BY <1>8 DEF vars, Entering, Held, InBatches, Up, BatchesAreApart, OnePlaceEach
<1> QED BY <1>2, <1>3, <1>4, <1>5, <1>6, <1>7, <1>8 DEF Next

-----------------------------------------------------------------------------
(* The counters.  Put are those who have been put into a batch, Gone those   *)
(* who had given up and have left it since.                                  *)
Put == {r \in Requests : future[r] # "new"} \ Entering
Gone == With("timeout") \ (Entering \cup Held)

Counters == {"submitted", "success", "timeout", "cancelled", "batches", "total_batch_size"}
CountersAreTyped == DOMAIN metrics = Counters /\ \A c \in Counters : metrics[c] \in Nat

(* What is added up for avg_batch_size is a number of requests, as long as   *)
(* shutdown() has not thrown a batch away.                                   *)
CountsAreRight ==
    /\ metrics.success = Cardinality(With("result"))
    /\ metrics.timeout = Cardinality(With("timeout"))
    /\ metrics.cancelled <= Cardinality(With("error")) + Cardinality(Gone)
    /\ Up => metrics.total_batch_size = Cardinality(Put)

CountInv == CountersAreTyped /\ CountsAreRight

LEMMA Numbers ==
    /\ \A S \in SUBSET Requests : IsFiniteSet(S) /\ Cardinality(S) \in Nat
    /\ \A S, T \in SUBSET Requests :
          /\ S \cap T = {} => Cardinality(S \cup T) = Cardinality(S) + Cardinality(T)
          /\ S \subseteq T => Cardinality(S) <= Cardinality(T)
<1>1. \A S \in SUBSET Requests : IsFiniteSet(S) /\ Cardinality(S) \in Nat
  BY RuntimeAssumption, FS_Subset, FS_CardinalityType
<1>2. ASSUME NEW S \in SUBSET Requests, NEW T \in SUBSET Requests, S \cap T = {}
      PROVE  Cardinality(S \cup T) = Cardinality(S) + Cardinality(T)
  <2>1. /\ IsFiniteSet(S) /\ Cardinality(S) \in Nat
        /\ IsFiniteSet(T) /\ Cardinality(T) \in Nat
    BY <1>1
  <2>2. Cardinality(S \cap T) = 0
    BY <1>2, FS_EmptySet
  <2>3. Cardinality(S \cup T) = Cardinality(S) + Cardinality(T) - Cardinality(S \cap T)
    BY <2>1, FS_Union
  <2> QED BY <2>1, <2>2, <2>3
<1>3. ASSUME NEW S \in SUBSET Requests, NEW T \in SUBSET Requests, S \subseteq T
      PROVE  Cardinality(S) <= Cardinality(T)
  BY <1>1, <1>3, FS_Subset
<1> QED BY <1>1, <1>2, <1>3

LEMMA CountInit == Init => CountInv
<1> SUFFICES ASSUME Init PROVE CountInv
  OBVIOUS
<1>1. metrics = NothingCounted /\ \A r \in Requests : future[r] = "new"
  BY DEF Init
<1>2. With("result") = {} /\ With("timeout") = {} /\ Gone = {} /\ Put = {}
  BY <1>1 DEF With, Gone, Put
<1>3. Cardinality({}) = 0 /\ Cardinality(With("error")) = 0
  <2>1. With("error") = {}
    BY <1>1 DEF With
  <2> QED BY <2>1, FS_EmptySet
<1>4. CountersAreTyped
  BY <1>1 DEF NothingCounted, CountersAreTyped, Counters
<1>5. metrics.success = 0 /\ metrics.timeout = 0 /\ metrics.cancelled = 0
      /\ metrics.total_batch_size = 0
  BY <1>1 DEF NothingCounted
<1> QED BY <1>2, <1>3, <1>4, <1>5 DEF CountInv, CountsAreRight

(* Nothing is counted, nobody answered, and who has been put into a batch    *)
(* has.                                                                      *)
LEMMA CountStays ==
    ASSUME CountInv, Inv, metrics' = metrics, Gone \subseteq Gone',
           \A v \in {"result", "timeout", "error"} : With(v)' = With(v),
           Up' => Up /\ Put' = Put
    PROVE  CountInv'
<1>1. Cardinality(Gone) <= Cardinality(Gone') /\ Cardinality(Gone) \in Nat
      /\ Cardinality(Gone') \in Nat /\ Cardinality(With("error")) \in Nat
  <2>1. Gone \in SUBSET Requests /\ Gone' \in SUBSET Requests
        /\ With("error") \in SUBSET Requests
    BY DEF Gone, With
  <2> QED BY <2>1, Numbers
<1>2. CountersAreTyped'
  BY DEF CountInv, CountersAreTyped
<1>3. metrics.cancelled \in Nat
  BY DEF CountInv, CountersAreTyped, Counters
<1> QED BY <1>1, <1>2, <1>3 DEF CountInv, CountsAreRight

LEMMA CountClients ==
    ASSUME CountInv, Inv, PlaceInv, NEW r \in Requests, Submit(r) \/ Timeout(r)
    PROVE  CountInv'
<1>1. future \in [Requests -> {"new", "pending", "result", "error", "timeout"}]
      /\ Entering \subseteq Requests /\ Held \subseteq Requests
      /\ Up' = Up
  BY EverybodyIsARequest DEF Inv, Types, Submit, Timeout, Up
<1>2. CASE Submit(r)
  <2>1. /\ future' = [future EXCEPT ![r] = "pending"] /\ future[r] = "new"
        /\ metrics' = [metrics EXCEPT !.submitted = @ + 1]
    BY <1>2 DEF Submit
  <2>2. Entering' = Entering \cup {r} /\ Held' = Held
    BY <1>2, SubmitMoves
  <2>3. With("result")' = With("result") /\ With("timeout")' = With("timeout")
        /\ With("error")' = With("error")
    BY <1>1, <2>1 DEF With
  <2>4. Gone' = Gone /\ Put' = Put
    BY <1>1, <2>1, <2>2, <2>3 DEF With, Gone, Put
  <2>5. CountersAreTyped'
    BY <2>1 DEF CountInv, CountersAreTyped, Counters
  <2>6. /\ metrics'.success = metrics.success /\ metrics'.timeout = metrics.timeout
        /\ metrics'.cancelled = metrics.cancelled
        /\ metrics'.total_batch_size = metrics.total_batch_size
    BY <2>1 DEF CountInv, CountersAreTyped, Counters
  <2> QED BY <1>1, <2>3, <2>4, <2>5, <2>6 DEF CountInv, CountsAreRight
<1>3. CASE Timeout(r)
  <2>1. /\ future' = [future EXCEPT ![r] = "timeout"] /\ future[r] = "pending"
        /\ metrics' = [metrics EXCEPT !.timeout = @ + 1]
        /\ Entering' = Entering /\ Held' = Held
    BY <1>3 DEF Timeout, Entering, Held, InBatches
  <2>2. /\ With("result")' = With("result") /\ With("error")' = With("error")
        /\ With("timeout")' = With("timeout") \cup {r} /\ r \notin With("timeout")
    BY <1>1, <2>1 DEF With
  <2>3. Gone \subseteq Gone' /\ Put' = Put
    BY <1>1, <2>1, <2>2 DEF Gone, Put
  <2>4. /\ Cardinality(With("timeout")') = Cardinality(With("timeout")) + 1
        /\ Cardinality(Gone) <= Cardinality(Gone') /\ Cardinality(Gone) \in Nat
        /\ Cardinality(Gone') \in Nat /\ Cardinality(With("error")) \in Nat
    <3>1. /\ With("timeout") \in SUBSET Requests /\ With("error") \in SUBSET Requests
          /\ Gone \in SUBSET Requests /\ Gone' \in SUBSET Requests
      BY DEF With, Gone
    <3> QED BY <2>2, <2>3, <3>1, Numbers, FS_AddElement
  <2>5. CountersAreTyped'
    BY <2>1 DEF CountInv, CountersAreTyped, Counters
  <2>6. /\ metrics'.success = metrics.success /\ metrics'.timeout = metrics.timeout + 1
        /\ metrics'.cancelled = metrics.cancelled /\ metrics.cancelled \in Nat
        /\ metrics'.total_batch_size = metrics.total_batch_size
    BY <2>1 DEF CountInv, CountersAreTyped, Counters
  <2> QED BY <1>1, <2>2, <2>3, <2>4, <2>5, <2>6 DEF CountInv, CountsAreRight
<1> QED BY <1>2, <1>3

(* A batch that is handed over is counted with those it takes from the list. *)
LEMMA CountScheduler ==
    ASSUME CountInv, Inv, PlaceInv, Take \/ HandOverRest
    PROVE  CountInv'
<1>1. /\ future' = future /\ Up /\ Entering \subseteq Requests /\ Held \subseteq Requests
      /\ \A v : With(v)' = With(v)
  BY EverybodyIsARequest DEF Take, HandOverRest, With
<1>2. CASE Entering' = Entering /\ Held' = Held /\ metrics' = metrics
  <2>1. Gone' = Gone /\ Put' = Put
    BY <1>1, <1>2 DEF Gone, Put
  <2> QED BY <1>1, <1>2, <2>1, CountStays
<1>3. CASE \E b \in SUBSET Entering : Passes(b)
  <2>1. PICK b \in SUBSET Entering : Passes(b)
    BY <1>3
  <2>2. /\ Entering' = Entering \ b /\ Held' = Held \cup b /\ b \in SUBSET Requests
        /\ metrics' = [metrics EXCEPT !.batches = @ + 1,
                                      !.total_batch_size = @ + Cardinality(b)]
    BY <1>1, <2>1 DEF Passes
  <2>3. Gone' = Gone
    BY <1>1, <2>2 DEF Gone
  <2>4. Put' = Put \cup b /\ Put \cap b = {}
    <3>1. \A r \in b : future[r] # "new"
      BY DEF PlaceInv, NobodyIsAnswered
    <3> QED BY <1>1, <2>2, <3>1 DEF Put
  <2>5. Cardinality(Put') = Cardinality(Put) + Cardinality(b) /\ Cardinality(b) \in Nat
    <3>1. Put \in SUBSET Requests
      BY DEF Put
    <3> QED BY <2>2, <2>4, <3>1, Numbers
  <2>6. CountersAreTyped'
    BY <2>2, <2>5 DEF CountInv, CountersAreTyped, Counters
  <2>7. /\ metrics'.success = metrics.success /\ metrics'.timeout = metrics.timeout
        /\ metrics'.cancelled = metrics.cancelled
        /\ metrics'.total_batch_size = metrics.total_batch_size + Cardinality(b)
    BY <2>2 DEF CountInv, CountersAreTyped, Counters
  <2> QED BY <1>1, <2>3, <2>5, <2>6, <2>7 DEF CountInv, CountsAreRight
<1> QED BY <1>2, <1>3, SchedulerMoves

(* A batch that is done: those who waited are answered, the others gone.     *)
LEMMA CountReturn ==
    ASSUME CountInv, Inv, PlaceInv, NEW w \in Workers, Finish(w) \/ Fail(w)
    PROVE  CountInv'
<1> DEFINE B == work[w].batch
           A == Pending(B)
           G == B \ A
<1>1. /\ future \in [Requests -> {"new", "pending", "result", "error", "timeout"}]
      /\ Entering \subseteq Requests /\ Held \subseteq Requests
  BY EverybodyIsARequest DEF Inv, Types
<1>2. /\ Entering' = Entering /\ Held' = Held \ B /\ B \subseteq Held /\ Up
  BY ReturnMoves DEF Finish, Fail
<1>3. A \subseteq Requests /\ A \subseteq B /\ \A r \in A : future[r] = "pending"
  BY <1>1, <1>2 DEF Pending
<1>4. \A r \in G : future[r] = "timeout"
  BY <1>2 DEF Pending, PlaceInv, NobodyIsAnswered
<1>5. Pending(A) = A
  BY DEF Pending
<1>6. \/ /\ future' = [r \in Requests |-> IF r \in A THEN "result" ELSE future[r]]
         /\ metrics' = [metrics EXCEPT !.success = @ + Cardinality(A),
                                       !.cancelled = @ + Cardinality(G)]
      \/ /\ future' = [r \in Requests |-> IF r \in A THEN "error" ELSE future[r]]
         /\ metrics' = [metrics EXCEPT !.cancelled = @ + Cardinality(A)]
  BY <1>5 DEF Finish, Fail, Settle
<1> HIDE DEF A, B
<1>7. /\ With("timeout")' = With("timeout")
      /\ With("result") \cap A = {} /\ With("error") \cap A = {}
  BY <1>1, <1>3, <1>6 DEF With
<1>8. Gone' = Gone \cup G /\ Gone \cap G = {} /\ Put' = Put
  <2>1. Gone' = Gone \cup G /\ Gone \cap G = {}
    <3>1. B \cap Entering = {} /\ G \subseteq B
      BY <1>2 DEF PlaceInv, OnePlaceEach
    <3>2. G \subseteq With("timeout")
      BY <1>1, <1>2, <1>4 DEF With
    <3>3. With("timeout") \cap B = G
      BY <1>3, <3>1, <3>2 DEF With
    <3> HIDE DEF G
    <3> QED BY <1>2, <1>7, <3>1, <3>2, <3>3 DEF Gone
  <2>2. \A r \in Requests : future'[r] # "new" <=> future[r] # "new"
    BY <1>1, <1>3, <1>6
  <2> QED BY <1>2, <2>1, <2>2 DEF Put
<1>9. /\ A \in SUBSET Requests /\ G \in SUBSET Requests /\ Gone \in SUBSET Requests
      /\ With("result") \in SUBSET Requests /\ With("error") \in SUBSET Requests
  BY <1>1, <1>2, <1>3 DEF With, Gone
<1> HIDE DEF G
<1>10. /\ Cardinality(A) \in Nat /\ Cardinality(G) \in Nat
       /\ Cardinality(Gone') = Cardinality(Gone) + Cardinality(G)
       /\ Cardinality(With("result") \cup A) = Cardinality(With("result")) + Cardinality(A)
       /\ Cardinality(With("error") \cup A) = Cardinality(With("error")) + Cardinality(A)
       /\ Cardinality(Gone) \in Nat /\ Cardinality(With("error")) \in Nat
  BY <1>7, <1>8, <1>9, Numbers
<1>11. CountersAreTyped'
  <2>1. CountersAreTyped
    BY DEF CountInv
  <2>2. CASE metrics' = [metrics EXCEPT !.success = @ + Cardinality(A),
                                        !.cancelled = @ + Cardinality(G)]
    BY <1>10, <2>1, <2>2 DEF CountersAreTyped, Counters
  <2>3. CASE metrics' = [metrics EXCEPT !.cancelled = @ + Cardinality(A)]
    BY <1>10, <2>1, <2>3 DEF CountersAreTyped, Counters
  <2> QED BY <1>6, <2>2, <2>3
<1>12. CountersAreTyped /\ CountsAreRight /\ metrics.cancelled \in Nat
  BY DEF CountInv, CountersAreTyped, Counters
<1>13. CASE /\ future' = [r \in Requests |-> IF r \in A THEN "result" ELSE future[r]]
            /\ metrics' = [metrics EXCEPT !.success = @ + Cardinality(A),
                                          !.cancelled = @ + Cardinality(G)]
  <2>1. With("result")' = With("result") \cup A /\ With("error")' = With("error")
    BY <1>1, <1>3, <1>13 DEF With
  <2>2. /\ metrics'.success = metrics.success + Cardinality(A)
        /\ metrics'.cancelled = metrics.cancelled + Cardinality(G)
        /\ metrics'.timeout = metrics.timeout
        /\ metrics'.total_batch_size = metrics.total_batch_size
    BY <1>12, <1>13 DEF CountersAreTyped, Counters
  <2>3. metrics'.success = Cardinality(With("result")')
    BY <1>10, <1>12, <2>1, <2>2 DEF CountsAreRight
  <2>4. metrics'.cancelled <= Cardinality(With("error")') + Cardinality(Gone')
    BY <1>10, <1>12, <2>1, <2>2 DEF CountsAreRight
  <2>5. /\ metrics'.timeout = Cardinality(With("timeout")')
        /\ Up' => metrics'.total_batch_size = Cardinality(Put')
    BY <1>2, <1>7, <1>8, <1>12, <2>2 DEF CountsAreRight
  <2> QED BY <1>11, <2>3, <2>4, <2>5 DEF CountInv, CountsAreRight
<1>14. CASE /\ future' = [r \in Requests |-> IF r \in A THEN "error" ELSE future[r]]
            /\ metrics' = [metrics EXCEPT !.cancelled = @ + Cardinality(A)]
  <2>1. With("error")' = With("error") \cup A /\ With("result")' = With("result")
    BY <1>1, <1>3, <1>14 DEF With
  <2>2. /\ metrics'.success = metrics.success
        /\ metrics'.cancelled = metrics.cancelled + Cardinality(A)
        /\ metrics'.timeout = metrics.timeout
        /\ metrics'.total_batch_size = metrics.total_batch_size
    BY <1>12, <1>14 DEF CountersAreTyped, Counters
  <2>3. metrics'.success = Cardinality(With("result")')
    BY <1>12, <2>1, <2>2 DEF CountsAreRight
  <2>4. metrics'.cancelled <= Cardinality(With("error")') + Cardinality(Gone')
    <3>1. Cardinality(With("error")') = Cardinality(With("error")) + Cardinality(A)
      BY <1>10, <2>1
    <3>2. metrics.cancelled <= Cardinality(With("error")) + Cardinality(Gone)
      BY <1>12 DEF CountsAreRight
    <3> QED BY <1>10, <1>12, <2>2, <3>1, <3>2
  <2>5. /\ metrics'.timeout = Cardinality(With("timeout")')
        /\ Up' => metrics'.total_batch_size = Cardinality(Put')
    BY <1>2, <1>7, <1>8, <1>12, <2>2 DEF CountsAreRight
  <2> QED BY <1>11, <2>3, <2>4, <2>5 DEF CountInv, CountsAreRight
<1> QED BY <1>6, <1>13, <1>14

LEMMA CountStep == CountInv /\ Inv /\ PlaceInv /\ [Next]_vars => CountInv'
<1> SUFFICES ASSUME CountInv, Inv, PlaceInv, [Next]_vars PROVE CountInv'
  OBVIOUS
<1>1. ASSUME NEW r \in Requests, Submit(r) \/ Timeout(r) PROVE CountInv'
  BY <1>1, CountClients
<1>2. CASE Take \/ HandOverRest
  BY <1>2, CountScheduler
<1>3. ASSUME NEW w \in Workers, Start(w) \/ Generate(w) PROVE CountInv'
  <2>1. metrics' = metrics /\ future' = future /\ Up
    BY <1>3 DEF Start, Generate
  <2>2. Entering' = Entering /\ Held' = Held
    BY <1>3, WorkMoves
  <2> QED BY <2>1, <2>2, CountStays DEF With, Gone, Put
<1>4. ASSUME NEW w \in Workers, Finish(w) \/ Fail(w) PROVE CountInv'
  BY <1>4, CountReturn
<1>5. CASE Shutdown \/ ResumeShutdown
  <2>1. metrics' = metrics /\ future' = future /\ Up
    BY <1>5 DEF Shutdown, ResumeShutdown, Up
  <2>2. Entering' \subseteq Entering /\ Held' \subseteq Held /\ (Up' => Entering' = Entering)
    BY <1>5, ShutdownMoves
  <2> QED BY <2>1, <2>2, CountStays DEF With, Gone, Put
<1>6. CASE UNCHANGED vars
  <2>1. /\ metrics' = metrics /\ future' = future /\ Up' = Up
        /\ Entering' = Entering /\ Held' = Held
    BY <1>6 DEF vars, Up, Entering, Held, InBatches
  <2> QED BY <2>1, CountStays DEF With, Gone, Put
<1> QED BY <1>1, <1>2, <1>3, <1>4, <1>5, <1>6 DEF Next

(* Who has been put into a batch is in one, or has an answer, or is gone.    *)
LEMMA CountsAddUp == Inv /\ PlaceInv /\ CountInv => BatchesAddUp
<1> SUFFICES ASSUME Inv, PlaceInv, CountInv PROVE BatchesAddUp
  OBVIOUS
<1> DEFINE R == With("result")
           E == With("error")
           T == With("timeout")
           P == Pending(Held)
<1>1. /\ Entering \subseteq Requests /\ Held \subseteq Requests
      /\ future \in [Requests -> {"new", "pending", "result", "error", "timeout"}]
  BY EverybodyIsARequest DEF Inv, Types
<1>2. /\ R \in SUBSET Requests /\ E \in SUBSET Requests /\ T \in SUBSET Requests
      /\ P \in SUBSET Requests /\ Gone \in SUBSET Requests /\ Put \in SUBSET Requests
      /\ Held \in SUBSET Requests /\ Gone \subseteq T
  BY <1>1 DEF With, Pending, Gone, Put
<1>3. /\ R \cap E = {} /\ (R \cup E) \cap T = {} /\ (R \cup E \cup T) \cap P = {}
      /\ (R \cup E) \cap Held = {} /\ Gone \cap Held = {}
  BY <1>1 DEF With, Pending, Gone, PlaceInv, NobodyIsAnswered
<1>4. Up => Put \subseteq R \cup E \cup T \cup P
  BY <1>1 DEF With, Pending, Put, PlaceInv, NobodyIsLost
<1>5. R \cup E \cup Gone \cup Held \subseteq Put
  BY <1>1 DEF With, Gone, Put, PlaceInv, NobodyIsAnswered, OnePlaceEach
<1> HIDE DEF R, E, T, P
<1>6. /\ Cardinality(R \cup E) = Cardinality(R) + Cardinality(E)
      /\ Cardinality(R \cup E \cup T) = Cardinality(R \cup E) + Cardinality(T)
      /\ Cardinality(R \cup E \cup T \cup P) = Cardinality(R \cup E \cup T) + Cardinality(P)
      /\ Cardinality(R \cup E \cup Gone) = Cardinality(R \cup E) + Cardinality(Gone)
      /\ Cardinality(R \cup E \cup Gone \cup Held)
            = Cardinality(R \cup E \cup Gone) + Cardinality(Held)
  <2>1. /\ R \cup E \in SUBSET Requests /\ R \cup E \cup T \in SUBSET Requests
        /\ R \cup E \cup Gone \in SUBSET Requests
        /\ (R \cup E) \cap Gone = {} /\ (R \cup E \cup Gone) \cap Held = {}
    BY <1>2, <1>3
  <2> QED BY <1>2, <1>3, <2>1, Numbers
<1>7. /\ Up => Cardinality(Put) <= Cardinality(R \cup E \cup T \cup P)
      /\ Cardinality(R \cup E \cup Gone \cup Held) <= Cardinality(Put)
  <2>1. R \cup E \cup T \cup P \in SUBSET Requests
        /\ R \cup E \cup Gone \cup Held \in SUBSET Requests
    BY <1>2
  <2> QED BY <1>2, <1>4, <1>5, <2>1, Numbers
<1>8. Cardinality(Gone) <= Cardinality(T)
  BY <1>2, Numbers
<1>9. /\ Cardinality(R) \in Nat /\ Cardinality(E) \in Nat /\ Cardinality(T) \in Nat
      /\ Cardinality(P) \in Nat /\ Cardinality(Gone) \in Nat /\ Cardinality(Held) \in Nat
      /\ Cardinality(Put) \in Nat
  BY <1>2, Numbers
<1>10. /\ metrics.success = Cardinality(R) /\ metrics.timeout = Cardinality(T)
       /\ metrics.cancelled <= Cardinality(E) + Cardinality(Gone)
       /\ Up => metrics.total_batch_size = Cardinality(Put)
       /\ metrics.cancelled \in Nat
  BY DEF CountInv, CountsAreRight, CountersAreTyped, Counters, R, E, T
<1>11. /\ metrics.cancelled <= Cardinality(E) + metrics.timeout
       /\ Up => /\ metrics.total_batch_size
                      >= metrics.success + metrics.cancelled + Cardinality(Held)
                /\ metrics.total_batch_size
                      <= metrics.success + metrics.timeout + Cardinality(E) + Cardinality(P)
  BY <1>6, <1>7, <1>8, <1>9, <1>10
<1> QED BY <1>10, <1>11 DEF BatchesAddUp, Held, R, E, T, P, With

(* The metrics of the first runtime add up whatever fails, gives up or is    *)
(* cancelled: avg_batch_size is taken over requests that were put into a     *)
(* batch, each once, and those are the ones with an outcome or in a batch.   *)
THEOREM MetricsAddUp == Spec => []BatchesAddUp
<1>1. Init => Inv /\ PlaceInv /\ CountInv
  BY InitInv, PlaceInit, CountInit
<1>2. Inv /\ PlaceInv /\ CountInv /\ [Next]_vars => (Inv /\ PlaceInv /\ CountInv)'
  BY NextKeepsInv, PlaceStep, CountStep
<1>3. Inv /\ PlaceInv /\ CountInv => BatchesAddUp
  BY CountsAddUp
<1> QED BY <1>1, <1>2, <1>3, PTL DEF Spec

-----------------------------------------------------------------------------
(* Sums of sizes.                                                            *)
PlusOf(f, s, x) == f[x] + s
SumsOf == INSTANCE Folding WITH op <- PlusOf

LEMMA SumTakesAway ==
    ASSUME NEW S, IsFiniteSet(S), NEW f, \A x \in S : f[x] \in Nat
    PROVE  /\ SumFunctionOnSet(f, {}) = 0
           /\ SumFunctionOnSet(f, S) \in Nat
           /\ \A x \in S : SumFunctionOnSet(f, S) = f[x] + SumFunctionOnSet(f, S \ {x})
<1>1. \A T : SumFunctionOnSet(f, T) = SumsOf!SetFold(f, 0, T)
  BY DEF SumFunctionOnSet, FoldFunctionOnSet, PlusOf, SumsOf!SetFold,
         SumsOf!FoldSet, FoldSet, SumsOf!MapThenFoldSet, MapThenFoldSet
<1>2. SumsOf!IsFiniteSet(S)
  BY DEF IsFiniteSet, SumsOf!IsFiniteSet
<1>3. \A v \in Nat, x \in S : PlusOf(f, v, x) \in Nat
  BY DEF PlusOf
<1>4. \A v \in Nat, x, y \in S : PlusOf(f, PlusOf(f, v, x), y) = PlusOf(f, PlusOf(f, v, y), x)
  BY DEF PlusOf
<1>5. /\ SumsOf!SetFold(f, 0, {}) = 0
      /\ SumsOf!SetFold(f, 0, S) \in Nat
      /\ \A x \in S : SumsOf!SetFold(f, 0, S) = PlusOf(f, SumsOf!SetFold(f, 0, S \ {x}), x)
  <2>1. 0 \in Nat
    OBVIOUS
  <2>2. SumsOf!StepsChangePlaces(f, 0, S, Nat)
    BY <1>2, <1>3, <1>4, <2>1 DEF SumsOf!StepsChangePlaces
  <2> QED BY <2>2, SumsOf!SetFoldAnyOrder
<1> QED BY <1>1, <1>5 DEF PlusOf

(* As many are in one of the sets f[i] as they have members together, when   *)
(* no two of them share one.                                                 *)
AllIn(f, S) == UNION {f[i] : i \in S}

LEMMA SizesAddUp ==
    ASSUME NEW S, IsFiniteSet(S), NEW f, \A i \in S : f[i] \in SUBSET Requests,
           \A i, j \in S : i # j => f[i] \cap f[j] = {}
    PROVE  Cardinality(AllIn(f, S)) = SumFunctionOnSet([i \in S |-> Cardinality(f[i])], S)
<1> DEFINE n == Cardinality(S)
           c == [i \in S |-> Cardinality(f[i])]
           P == {k \in Nat : \A T \in SUBSET S : Cardinality(T) <= k =>
                   Cardinality(AllIn(f, T)) = SumFunctionOnSet(c, T)}
<1>1. n \in Nat /\ \A T \in SUBSET S : IsFiniteSet(T) /\ Cardinality(T) \in Nat
                                       /\ Cardinality(T) <= n
                                       /\ (Cardinality(T) = 0 <=> T = {})
  <2>1. \A T \in SUBSET S : IsFiniteSet(T) /\ Cardinality(T) <= Cardinality(S)
    BY FS_Subset
  <2>2. \A T \in SUBSET S : Cardinality(T) \in Nat /\ (Cardinality(T) = 0 <=> T = {})
    BY <2>1, FS_CardinalityType, FS_EmptySet
  <2> QED BY <2>1, <2>2
<1>2. \A i \in S : c[i] = Cardinality(f[i]) /\ c[i] \in Nat
  BY Numbers
<1>3. \A T \in SUBSET S : AllIn(f, T) \in SUBSET Requests
  BY DEF AllIn
<1> HIDE DEF c
<1>4. \A T \in SUBSET S : T = {} => Cardinality(AllIn(f, T)) = SumFunctionOnSet(c, T)
  <2>1. SumFunctionOnSet(c, {}) = 0
    BY <1>2, SumTakesAway
  <2>2. AllIn(f, {}) = {}
    BY DEF AllIn
  <2> QED BY <2>1, <2>2, FS_EmptySet
<1>5. 0 \in P
  <2>1. ASSUME NEW T \in SUBSET S, Cardinality(T) <= 0 PROVE T = {}
    <3>1. Cardinality(T) \in Nat /\ (Cardinality(T) = 0 <=> T = {})
      BY <1>1
    <3> QED BY <2>1, <3>1
  <2> QED BY <1>4, <2>1
<1>6. ASSUME NEW k \in 0 .. n - 1, k \in P PROVE k + 1 \in P
  <2>1. k \in Nat
    BY <1>1
  <2> SUFFICES ASSUME NEW T \in SUBSET S, Cardinality(T) <= k + 1
               PROVE  Cardinality(AllIn(f, T)) = SumFunctionOnSet(c, T)
    BY <2>1
  <2>2. CASE T = {}
    BY <1>4, <2>2
  <2>3. CASE T # {}
    <3>1. PICK y \in T : TRUE
      BY <2>3
    <3> DEFINE R == T \ {y}
    <3>2. R \in SUBSET S /\ Cardinality(R) = Cardinality(T) - 1
      BY <1>1, <3>1, FS_RemoveElement
    <3>3. Cardinality(R) <= k
      BY <1>1, <2>1, <3>2
    <3>4. Cardinality(AllIn(f, R)) = SumFunctionOnSet(c, R)
      BY <1>6, <3>2, <3>3
    <3>5. IsFiniteSet(T) /\ \A x \in T : c[x] \in Nat
      BY <1>1, <1>2
    <3>6. SumFunctionOnSet(c, T) = c[y] + SumFunctionOnSet(c, R)
      BY <3>1, <3>5, SumTakesAway
    <3>7. AllIn(f, T) = f[y] \cup AllIn(f, R) /\ f[y] \cap AllIn(f, R) = {}
      BY <3>1 DEF AllIn
    <3>8. Cardinality(f[y] \cup AllIn(f, R)) = Cardinality(f[y]) + Cardinality(AllIn(f, R))
      <4>1. f[y] \in SUBSET Requests /\ AllIn(f, R) \in SUBSET Requests
        BY <1>3, <3>1, <3>2
      <4> QED BY <3>7, <4>1, Numbers
    <3> HIDE DEF R
    <3> QED BY <1>2, <3>1, <3>4, <3>6, <3>7, <3>8
  <2> QED BY <2>2, <2>3
<1>7. n \in P
  <2> HIDE DEF P, n
  <2> QED BY <1>1, <1>5, <1>6, SumsOf!IntervalInduction
<1> QED BY <1>1, <1>7 DEF c

(* The length of a list is the number of those in it.                        *)
LEMMA ListSize ==
    ASSUME NEW s \in Seq(Requests), IsInjective(s)
    PROVE  Cardinality(ToSet(s)) = Len(s)
<1>1. Len(s) \in Nat /\ DOMAIN s = 1 .. Len(s)
  OBVIOUS
<1>2. s \in Bijection(1 .. Len(s), ToSet(s))
  <2>1. s \in [1 .. Len(s) -> ToSet(s)]
    BY <1>1 DEF ToSet
  <2>2. s \in Injection(1 .. Len(s), ToSet(s))
    BY <1>1, <2>1 DEF Injection, IsInjective
  <2>3. s \in Surjection(1 .. Len(s), ToSet(s))
    BY <1>1, <2>1 DEF Surjection, ToSet
  <2> QED BY <2>2, <2>3 DEF Bijection
<1>3. IsFiniteSet(1 .. Len(s)) /\ Cardinality(1 .. Len(s)) = Len(s)
  BY <1>1, FS_Interval
<1> QED BY <1>2, <1>3, FS_Bijection DEF ExistsBijection

(* So that as many requests are in the runtime as its places have room for.  *)
LEMMA EveryoneIsSomewhereOnce ==
    ASSUME Inv, PlaceInv
    PROVE  Cardinality(ToSet(queue) \cup batch \cup UNION InBatches)
              = Len(queue) + Cardinality(batch)
                + SumFunction([i \in DOMAIN batches |-> Cardinality(batches[i])])
                + SumFunction([w \in Workers |-> Cardinality(work[w].batch)])
<1> DEFINE I == DOMAIN batches
           f == [w \in Workers |-> work[w].batch]
           A == AllIn(batches, I)
           B == AllIn(f, Workers)
<1>1. /\ I = 1 .. Len(batches) /\ Len(batches) \in Nat
      /\ \A i \in I : batches[i] \in SUBSET Requests
      /\ \A w \in Workers : f[w] \in SUBSET Requests /\ f[w] = work[w].batch
      /\ queue \in Seq(Requests) /\ batch \in SUBSET Requests
  BY DEF Inv, Types
<1>2. IsFiniteSet(I) /\ IsFiniteSet(Workers)
  BY <1>1, FS_Interval, RuntimeAssumption
<1>3. Cardinality(A) = SumFunctionOnSet([i \in I |-> Cardinality(batches[i])], I)
  <2>1. \A i, j \in I : i # j => batches[i] \cap batches[j] = {}
    BY DEF PlaceInv, BatchesAreApart
  <2> HIDE DEF I
  <2> QED BY <1>1, <1>2, <2>1, SizesAddUp
<1>4. Cardinality(B) = SumFunctionOnSet([w \in Workers |-> Cardinality(f[w])], Workers)
  <2>1. \A v, w \in Workers : v # w => f[v] \cap f[w] = {}
    BY DEF PlaceInv, BatchesAreApart
  <2> HIDE DEF f
  <2> QED BY <1>1, <1>2, <2>1, SizesAddUp
<1>5. SumFunction([i \in DOMAIN batches |-> Cardinality(batches[i])]) = Cardinality(A)
  BY <1>3 DEF SumFunction
<1>6. SumFunction([w \in Workers |-> Cardinality(work[w].batch)]) = Cardinality(B)
  <2>1. [w \in Workers |-> Cardinality(work[w].batch)] = [w \in Workers |-> Cardinality(f[w])]
    OBVIOUS
  <2> DEFINE c == [w \in Workers |-> Cardinality(f[w])]
  <2>2. DOMAIN c = Workers
    OBVIOUS
  <2> HIDE DEF f, c
  <2>3. SumFunction(c) = Cardinality(B)
    BY <1>4, <2>2 DEF SumFunction, c
  <2> QED BY <2>1, <2>3 DEF c
<1>7. A \in SUBSET Requests /\ B \in SUBSET Requests /\ A \cup B = Held
  <2>1. A \in SUBSET Requests /\ B \in SUBSET Requests
    BY <1>1 DEF AllIn
  <2>2. ToSet(batches) = {batches[i] : i \in I}
    BY DEF ToSet
  <2>3. \A r : r \in Held <=> r \in A \cup B
    BY <2>2, InHeld DEF AllIn
  <2> QED BY <2>1, <2>3
<1>8. A \cap B = {}
  BY DEF AllIn, PlaceInv, BatchesAreApart
<1>9. /\ ToSet(queue) \in SUBSET Requests /\ ToSet(queue) \cap batch = {}
      /\ Entering = ToSet(queue) \cup batch /\ Entering \in SUBSET Requests
      /\ Entering \cap Held = {}
  BY EverybodyIsARequest DEF PlaceInv, OnePlaceEach, Entering
<1>10. Cardinality(ToSet(queue)) = Len(queue)
  BY <1>1, ListSize DEF PlaceInv, OnePlaceEach
<1> HIDE DEF A, B, I, f
<1>11. Cardinality(A \cup B) = Cardinality(A) + Cardinality(B)
  BY <1>7, <1>8, Numbers
<1>12. Cardinality(Entering) = Len(queue) + Cardinality(batch)
  BY <1>1, <1>9, <1>10, Numbers
<1>13. Cardinality(Entering \cup Held)
          = Len(queue) + Cardinality(batch) + (Cardinality(A) + Cardinality(B))
  <2>1. Held \in SUBSET Requests
    BY <1>7
  <2> QED BY <1>7, <1>9, <1>11, <1>12, <2>1, Numbers
<1>14. ToSet(queue) \cup batch \cup UNION InBatches = Entering \cup Held
  BY DEF Entering, Held
<1>15. Len(queue) \in Nat /\ Cardinality(batch) \in Nat /\ Cardinality(A) \in Nat
       /\ Cardinality(B) \in Nat
  BY <1>1, <1>7, Numbers
<1> DEFINE a == SumFunction([i \in DOMAIN batches |-> Cardinality(batches[i])])
           b == SumFunction([w \in Workers |-> Cardinality(work[w].batch)])
           all == Cardinality(ToSet(queue) \cup batch \cup UNION InBatches)
<1>16. a = Cardinality(A) /\ b = Cardinality(B)
  BY <1>5, <1>6
<1>17. all = Cardinality(Entering \cup Held)
  BY <1>14, Zenon
<1> HIDE DEF a, b, all
<1>18. all = Len(queue) + Cardinality(batch) + a + b
  BY <1>13, <1>15, <1>16, <1>17
<1> QED BY <1>18 DEF a, b, all

-----------------------------------------------------------------------------
(* No batch is empty or too large, and a worker has no more calls to make    *)
(* than its batch has requests.                                              *)
BatchesFit ==
    /\ Cardinality(batch) < MaxBatch
    /\ \A b \in ToSet(batches) : Cardinality(b) \in 1 .. MaxBatch
    /\ \A w \in Workers : work[w].calls <= Cardinality(work[w].batch)

LEMMA FitInit == Init => BatchesFit
<1> SUFFICES ASSUME Init PROVE BatchesFit
  OBVIOUS
<1>1. /\ batch = {} /\ batches = <<>>
      /\ \A w \in Workers : work[w].calls = 0 /\ work[w].batch = {}
  BY DEF Init, Idle
<1>2. Cardinality({}) = 0 /\ MaxBatch \in Nat \ {0}
  BY FS_EmptySet, RuntimeAssumption
<1>3. Cardinality(batch) < MaxBatch /\ ToSet(batches) = {}
  BY <1>1, <1>2, ToSetOfEmpty
<1>4. \A w \in Workers : work[w].calls <= Cardinality(work[w].batch)
  <2> TAKE w \in Workers
  <2>1. work[w].calls = 0 /\ Cardinality(work[w].batch) = 0
    BY <1>1, <1>2, Zenon
  <2> QED BY <2>1
<1> QED BY <1>3, <1>4 DEF BatchesFit

(* A batch is handed over that has someone in it, and not too many.          *)
LEMMA HandOverFits ==
    ASSUME Inv, BatchesFit, NEW b \in SUBSET Requests, Cardinality(b) \in 1 .. MaxBatch,
           HandOver(b), work' = work
    PROVE  BatchesFit'
<1>1. batches \in Seq(SUBSET Requests) /\ batches' = Append(batches, b) /\ batch' = {}
  BY DEF Inv, Types, HandOver
<1>2. ToSet(batches') = ToSet(batches) \cup {b}
  BY <1>1, ToSetOfAppend
<1>3. Cardinality(batch') < MaxBatch
  BY <1>1, FS_EmptySet, RuntimeAssumption
<1> QED BY <1>2, <1>3, ToSet(batches)' = ToSet(batches') DEF BatchesFit, ToSet

LEMMA FitStep == Inv /\ BatchesFit /\ [Next]_vars => BatchesFit'
<1> SUFFICES ASSUME Inv, BatchesFit, [Next]_vars PROVE BatchesFit'
  OBVIOUS
<1>1. /\ batch \in SUBSET Requests /\ queue \in Seq(Requests)
      /\ batches \in Seq(SUBSET Requests)
      /\ work \in [Workers -> [batch : SUBSET Requests, calls : Int]]
  BY DEF Inv, Types
<1>2. MaxBatch \in Nat \ {0} /\ Cardinality({}) = 0 /\ Cardinality(batch) \in Nat
  BY <1>1, RuntimeAssumption, FS_EmptySet, Numbers
<1>3. ASSUME UNCHANGED <<batch, batches, work>> PROVE BatchesFit'
  BY <1>3 DEF BatchesFit, ToSet
<1>4. CASE UNCHANGED vars \/ \E r \in Requests : Submit(r) \/ Timeout(r)
  BY <1>3, <1>4 DEF vars, Submit, Timeout
<1>5. CASE Take
  <2> DEFINE b == batch \cup {Head(queue)}
  <2>1. Head(queue) \in Requests /\ work' = work
    BY <1>1, <1>5 DEF Take
  <2>2. b \in SUBSET Requests /\ b # {} /\ Cardinality(b) \in Nat
        /\ Cardinality(b) <= Cardinality(batch) + 1 /\ Cardinality(b) # 0
    <3>1. IsFiniteSet(batch) /\ IsFiniteSet(b)
      BY <1>1, <2>1, Numbers
    <3>2. Cardinality(b) = Cardinality(batch) \/ Cardinality(b) = Cardinality(batch) + 1
      BY <3>1, FS_AddElement
    <3>3. Cardinality(b) # 0
      BY <3>1, FS_EmptySet
    <3> QED BY <1>1, <1>2, <2>1, <3>2, <3>3
  <2>3. CASE Cardinality(b) < MaxBatch
    <3>1. batch' = b /\ batches' = batches
      BY <1>5, <2>3 DEF Take
    <3> HIDE DEF b
    <3> QED BY <2>1, <2>3, <3>1 DEF BatchesFit, ToSet
  <2>4. CASE ~ (Cardinality(b) < MaxBatch)
    <3>1. HandOver(b)
      BY <1>5, <2>4 DEF Take
    <3> HIDE DEF b
    <3>2. Cardinality(b) \in 1 .. MaxBatch
      BY <1>2, <2>2 DEF BatchesFit
    <3> QED BY <2>1, <2>2, <3>1, <3>2, HandOverFits
  <2> QED BY <2>3, <2>4
<1>6. CASE HandOverRest
  <2>1. batch # {} /\ HandOver(batch) /\ work' = work
    BY <1>6 DEF HandOverRest
  <2>2. Cardinality(batch) # 0
    BY <1>1, <2>1, Numbers, FS_EmptySet
  <2>3. Cardinality(batch) \in 1 .. MaxBatch
    BY <1>2, <2>2 DEF BatchesFit
  <2> QED BY <1>1, <2>1, <2>3, HandOverFits
<1>7. ASSUME NEW w \in Workers, Start(w) PROVE BatchesFit'
  <2> DEFINE b == Head(batches)
  <2>1. /\ batches # <<>> /\ batches' = Tail(batches) /\ batch' = batch
        /\ work' = [work EXCEPT ![w] = [batch |-> b, calls |-> Cardinality(b)]]
    BY <1>7 DEF Start
  <2>2. ToSet(batches') \subseteq ToSet(batches) /\ b \in SUBSET Requests
    BY <1>1, <2>1, ToSetOfTail
  <2>3. Cardinality(b) \in Nat
    BY <2>2, Numbers
  <2> HIDE DEF b
  <2>4. \A v \in Workers : work'[v].calls <= Cardinality(work'[v].batch)
    BY <1>1, <2>1, <2>3 DEF BatchesFit
  <2> QED BY <2>1, <2>2, <2>4, ToSet(batches)' = ToSet(batches') DEF BatchesFit, ToSet
<1>8. ASSUME NEW w \in Workers, Generate(w) PROVE BatchesFit'
  <2>1. batches' = batches /\ batch' = batch /\ work' = [work EXCEPT ![w].calls = @ - 1]
    BY <1>8 DEF Generate
  <2>2. \A v \in Workers : /\ work'[v].batch = work[v].batch
                           /\ work'[v].calls = work[v].calls \/ work'[v].calls = work[v].calls - 1
    BY <1>1, <2>1
  <2>3. \A v \in Workers : work'[v].calls <= Cardinality(work'[v].batch)
    <3> TAKE v \in Workers
    <3>1. work[v].calls \in Int /\ Cardinality(work[v].batch) \in Nat
      BY <1>1, Numbers
    <3>2. work[v].calls <= Cardinality(work[v].batch)
      BY DEF BatchesFit
    <3> QED BY <2>2, <3>1, <3>2
  <2> QED BY <2>1, <2>3 DEF BatchesFit, ToSet
<1>9. ASSUME NEW w \in Workers, Finish(w) \/ Fail(w) PROVE BatchesFit'
  <2>1. batches' = batches /\ batch' = batch /\ work' = [work EXCEPT ![w] = Idle]
    BY <1>9 DEF Finish, Fail, Return
  <2>2. \A v \in Workers : work'[v].calls <= Cardinality(work'[v].batch)
    BY <1>1, <1>2, <2>1 DEF BatchesFit, Idle
  <2> QED BY <2>1, <2>2 DEF BatchesFit, ToSet
<1>10. CASE Shutdown \/ ResumeShutdown
  <2>1. batches' = batches /\ (UNCHANGED <<batch, work>> \/ Cancel)
    BY <1>10 DEF Shutdown, ResumeShutdown, JoinBatches
  <2>2. CASE Cancel
    <3>1. batch' = {} /\ \A w \in Workers : work'[w].calls = 0 /\ work'[w].batch = {}
      BY <2>2 DEF Cancel, Idle
    <3>2. Cardinality(batch') < MaxBatch
      BY <1>2, <3>1
    <3>3. \A w \in Workers : work'[w].calls <= Cardinality(work'[w].batch)
      <4> TAKE w \in Workers
      <4>1. work'[w].calls = 0 /\ Cardinality(work'[w].batch) = 0
        BY <1>2, <3>1, Zenon
      <4> QED BY <4>1
    <3> QED BY <2>1, <3>2, <3>3 DEF BatchesFit, ToSet
  <2> QED BY <1>3, <2>1, <2>2
<1> QED BY <1>4, <1>5, <1>6, <1>7, <1>8, <1>9, <1>10 DEF Next

LEMMA TypesFollow == Inv /\ PlaceInv /\ BatchesFit => TypeOK
<1> SUFFICES ASSUME Inv, PlaceInv, BatchesFit PROVE TypeOK
  OBVIOUS
<1>1. /\ queue \in Seq(Requests) /\ IsInjective(queue) /\ batch \subseteq Requests
      /\ future \in [Requests -> {"new", "pending", "result", "error", "timeout"}]
      /\ stage \in Stages
  BY DEF Inv, Types, PlaceInv, OnePlaceEach
<1>2. \A b \in ToSet(batches) : b \subseteq Requests
  BY DEF Inv, Types, ToSet
<1> QED BY <1>1, <1>2, EveryoneIsSomewhereOnce DEF TypeOK, BatchesFit

(* runtime_v0.py:109-124, :126-128: for any number of requests and workers,  *)
(* a request is in one place at most, the queue, the scheduler's list, one   *)
(* batch that waits or one at work, and no batch is empty or too large.      *)
THEOREM EachRequestIsInOnePlace == Spec => []TypeOK
<1>1. Init => Inv /\ PlaceInv /\ BatchesFit
  BY InitInv, PlaceInit, FitInit
<1>2. Inv /\ PlaceInv /\ BatchesFit /\ [Next]_vars => (Inv /\ PlaceInv /\ BatchesFit)'
  BY NextKeepsInv, PlaceStep, FitStep
<1> QED BY <1>1, <1>2, TypesFollow, PTL DEF Spec

=============================================================================
