------------------------------- MODULE Service -------------------------------
(***************************************************************************)
(* What the engine is to its clients, without blocks, caches and prefill   *)
(* chunks: requests wait in line, enter a batch of bounded size in that    *)
(* order, get their first token and then, all of the batch together, one   *)
(* token per step, and are answered once.  Engine implements this.         *)
(***************************************************************************)
EXTENDS Naturals, Sequences, FiniteSets

CONSTANTS
    Requests,
    Limits,      \* the numbers of tokens a request may ask for
    MaxBatch,    \* how many may be in the batch
    MayDrop      \* whether a request may leave the line without an answer

(* What a user of this module gives for the constants: Engine's assumptions  *)
(* say so of its own.                                                        *)
Parameters == /\ IsFiniteSet(Requests)
              /\ Limits \subseteq Nat
              /\ MaxBatch \in Nat
              /\ MayDrop \in BOOLEAN

VARIABLES
    waiting,     \* the line
    batch,       \* who has entered
    limit,       \* how many tokens a request asks for
    got,         \* how many it has
    answer,      \* "new", "pending", or how it was answered
    over         \* nobody enters any more

vars == <<waiting, batch, limit, got, answer, over>>

Answers == {"result", "error", "timeout", "cancelled"}

(* Everyone of the line.                                                     *)
InLine == {waiting[i] : i \in DOMAIN waiting}

(* Those of the batch who have their first token.                            *)
Served == {r \in batch : got[r] > 0}

(* Those of R who still wait for an answer get this one.                     *)
Answered(R, value) ==
    [r \in Requests |-> IF r \in R /\ answer[r] = "pending" THEN value ELSE answer[r]]

Init ==
    /\ waiting = <<>>
    /\ batch = {}
    /\ limit = [r \in Requests |-> 0]
    /\ got = [r \in Requests |-> 0]
    /\ answer = [r \in Requests |-> "new"]
    /\ over = FALSE

Submit(r, n) ==
    /\ answer[r] = "new"
    /\ answer' = [answer EXCEPT ![r] = "pending"]
    /\ limit' = [limit EXCEPT ![r] = n]
    /\ waiting' = Append(waiting, r)
    /\ UNCHANGED <<batch, got, over>>

(* The client gives up; the service goes on as if it had not.                *)
GiveUp(r) ==
    /\ answer[r] = "pending"
    /\ answer' = [answer EXCEPT ![r] = "timeout"]
    /\ UNCHANGED <<waiting, batch, limit, got, over>>

Enter ==
    /\ ~over
    /\ waiting # <<>>
    /\ Cardinality(batch) < MaxBatch
    /\ waiting' = Tail(waiting)
    /\ batch' = batch \cup {Head(waiting)}
    /\ UNCHANGED <<limit, got, answer, over>>

Drop ==
    /\ MayDrop /\ ~over
    /\ waiting # <<>>
    /\ waiting' = Tail(waiting)
    /\ UNCHANGED <<batch, limit, got, answer, over>>

FirstToken(S) ==
    /\ ~over
    /\ S \subseteq batch \ Served
    /\ got' = [r \in Requests |-> IF r \in S THEN 1 ELSE got[r]]
    /\ UNCHANGED <<waiting, batch, limit, answer, over>>

(* Everybody served gets a token, but for those of D, for whom there is no   *)
(* room.  Those of F are done: who has enough tokens is, others may be.      *)
Step(D, F) ==
    /\ ~over
    /\ D \subseteq Served /\ F \subseteq Served \ D
    /\ got' = [r \in Requests |-> IF r \in Served \ D THEN got[r] + 1 ELSE got[r]]
    /\ \A r \in Served \ (D \cup F) : got'[r] < limit[r]
    /\ batch' = batch \ (D \cup F)
    /\ answer' = [r \in Requests |-> IF r \in D THEN Answered(D, "error")[r]
                                     ELSE Answered(F, "result")[r]]
    /\ UNCHANGED <<waiting, limit, over>>

(* The end for everyone in the service: it failed, or was shut down.  Who    *)
(* submits later joins the line all the same.                                *)
End(value) ==
    /\ answer' = Answered(InLine \cup batch, value)
    /\ waiting' = <<>>
    /\ batch' = {}
    /\ over' = TRUE
    /\ UNCHANGED <<limit, got>>

(* A step that fails halfway: who is done by then, in F, has the answer, and *)
(* it is the end for everyone else.                                          *)
Break(D, F) ==
    /\ ~over
    /\ D \subseteq Served /\ F \subseteq Served \ D
    /\ got' = [r \in Requests |-> IF r \in Served \ D THEN got[r] + 1 ELSE got[r]]
    /\ answer' = [r \in Requests |-> IF r \in F THEN Answered(F, "result")[r]
                                     ELSE Answered(InLine \cup batch, "error")[r]]
    /\ waiting' = <<>>
    /\ batch' = {}
    /\ over' = TRUE
    /\ UNCHANGED limit

Next ==
    \/ \E r \in Requests : GiveUp(r) \/ \E n \in Limits : Submit(r, n)
    \/ Enter
    \/ Drop
    \/ \E S \in SUBSET Requests : FirstToken(S)
    \/ \E D, F \in SUBSET Requests : Step(D, F) \/ Break(D, F)
    \/ \E value \in {"error", "cancelled"} : End(value)

Spec == Init /\ [][Next]_vars

-----------------------------------------------------------------------------
(* Types; a request is in the line or in the batch, once, and in neither     *)
(* before it is submitted; the batch is empty when the service is over.      *)
TypeOK ==
    /\ waiting \in Seq(Requests)
    /\ \A i, j \in DOMAIN waiting : waiting[i] = waiting[j] => i = j
    /\ batch \subseteq Requests
    /\ batch \cap InLine = {}
    /\ limit \in [Requests -> Nat]
    /\ got \in [Requests -> Nat]
    /\ answer \in [Requests -> {"new", "pending"} \cup Answers]
    /\ \A r \in InLine \cup batch : answer[r] # "new"
    /\ \A r \in Requests : r \in InLine \/ answer[r] = "new" => got[r] = 0
    /\ over \in BOOLEAN
    /\ over => batch = {}

(* Who has no answer yet is in the line or in the batch, where every way out *)
(* has one.                                                                  *)
NobodyIsForgotten ==
    ~MayDrop => \A r \in Requests : answer[r] = "pending" => r \in InLine \cup batch

(* No request gets more tokens than it asked for, except that it gets two    *)
(* before anyone looks at the limit.                                         *)
TokensWithinLimit == \A r \in Requests : got[r] <= 2 \/ got[r] <= limit[r]

(* The batch is no larger than the engine's max_batch_size.                  *)
BatchWithinLimit == Cardinality(batch) <= MaxBatch

(* An answer is given once.                                                  *)
AnsweredOnce ==
    [][\A r \in Requests : answer[r] \in Answers => answer'[r] = answer[r]]_vars

(* Between two requests of the batch that have their first token, neither    *)
(* gets ahead of the other: a step serves both, or one of them leaves.       *)
NobodyLagsBehind ==
    [][\A r, s \in Served : r \in batch' /\ s \in batch'
           => got'[r] - got[r] = got'[s] - got[s]]_vars

=============================================================================
