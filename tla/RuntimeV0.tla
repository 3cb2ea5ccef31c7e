------------------------------ MODULE RuntimeV0 ------------------------------
(***************************************************************************)
(* The first runtime (archive/runtime_v0.py): static batching.  A          *)
(* scheduler task collects requests into batches, handing one over when it *)
(* is full or when no request has come for batch_timeout; worker tasks     *)
(* take batches from a second queue.  shutdown() joins the two queues and  *)
(* then cancels the tasks, whatever they hold.                             *)
(*                                                                         *)
(* A step is what a task does between two points where it suspends itself. *)
(* put() never does, as the queues have no bound.  The tokens, the clock   *)
(* and the times are left out: a timer may expire whenever it is set, also *)
(* just as what it waits for arrives.  A batch is a set: nothing reads the *)
(* order of its list.                                                      *)
(***************************************************************************)
EXTENDS Integers, Sequences, FiniteSets, SequencesExt, FiniteSetsExt

CONSTANTS
    Requests,
    Workers,
    MaxBatch     \* max_batch_size

ASSUME RuntimeAssumption == /\ MaxBatch \in Nat \ {0}
                            /\ IsFiniteSet(Requests) /\ IsFiniteSet(Workers)

VARIABLES
    queue,       \* request_queue
    batch,       \* the list the scheduler fills
    batches,     \* batch_queue
    work,        \* each worker's batch, and the generate_batch calls to come
    future,      \* the future of each request: "new" before submit()
    metrics,
    stage,       \* where shutdown() is
    due          \* history: who was in a batch already when it was called

vars == <<queue, batch, batches, work, future, metrics, stage, due>>

NothingCounted == [submitted |-> 0, success |-> 0, timeout |-> 0, cancelled |-> 0,
                   batches |-> 0, total_batch_size |-> 0]
Idle == [batch |-> {}, calls |-> 0]
Stages == {"open", "emptying", "emptied", "finishing", "finished", "stopped"}

Init ==
    /\ queue = <<>>
    /\ batch = {}
    /\ batches = <<>>
    /\ work = [w \in Workers |-> Idle]
    /\ future = [r \in Requests |-> "new"]
    /\ metrics = NothingCounted
    /\ stage = "open"
    /\ due = {}

Up == stage # "stopped"
Busy == {w \in Workers : work[w] # Idle}
Pending(R) == {r \in R : future[r] = "pending"}

(* set_result or set_exception on the futures of R that are not done.        *)
Settle(R, value) ==
    [r \in Requests |-> IF r \in Pending(R) THEN value ELSE future[r]]

-----------------------------------------------------------------------------
(* The clients.                                                              *)
Submit(r) ==
    /\ future[r] = "new"
    /\ future' = [future EXCEPT ![r] = "pending"]
    /\ queue' = Append(queue, r)
    /\ metrics' = [metrics EXCEPT !.submitted = @ + 1]
    /\ UNCHANGED <<batch, batches, work, stage, due>>

(* wait_for() gives up.                                                      *)
Timeout(r) ==
    /\ future[r] = "pending"
    /\ future' = [future EXCEPT ![r] = "timeout"]
    /\ metrics' = [metrics EXCEPT !.timeout = @ + 1]
    /\ UNCHANGED <<queue, batch, batches, work, stage, due>>

-----------------------------------------------------------------------------
(* The scheduler.                                                            *)

(* Mutant: the batch is handed over uncounted.                               *)
HandOverUncounted(b) ==
    /\ batches' = Append(batches, b)
    /\ batch' = {}
    /\ metrics' = [metrics EXCEPT !.batches = @ + 1]

HandOver(b) ==
    /\ batches' = Append(batches, b)
    /\ batch' = {}
    /\ metrics' = [metrics EXCEPT !.batches = @ + 1,
                                  !.total_batch_size = @ + Cardinality(b)]

(* Mutants: task_done() is forgotten; get() leaves the request that fills a  *)
(* batch in the queue.                                                       *)
TakeNotDone ==
    LET b == batch \cup {Head(queue)}
    IN  /\ Up /\ queue # <<>>
        /\ queue' = Tail(queue)
        /\ IF Cardinality(b) < MaxBatch
           THEN batch' = b /\ UNCHANGED <<batches, metrics>>
           ELSE HandOver(b)
        /\ UNCHANGED <<work, future, stage, due>>

TakeOver ==
    LET b == batch \cup {Head(queue)}
    IN  /\ Up /\ queue # <<>>
        /\ queue' = IF Cardinality(b) < MaxBatch THEN Tail(queue) ELSE queue
        /\ stage' = IF stage = "emptying" /\ queue' = <<>> THEN "emptied" ELSE stage
        /\ IF Cardinality(b) < MaxBatch
           THEN batch' = b /\ UNCHANGED <<batches, metrics>>
           ELSE HandOver(b)
        /\ UNCHANGED <<work, future, due>>

(* get() and task_done(), which ends the first join of shutdown() when the   *)
(* queue is empty; a full batch is handed over at once.                      *)
Take ==
    LET b == batch \cup {Head(queue)}
    IN  /\ Up /\ queue # <<>>
        /\ queue' = Tail(queue)
        /\ stage' = IF stage = "emptying" /\ queue' = <<>> THEN "emptied" ELSE stage
        /\ IF Cardinality(b) < MaxBatch
           THEN batch' = b /\ UNCHANGED <<batches, metrics>>
           ELSE HandOver(b)
        /\ UNCHANGED <<work, future, due>>

(* Mutant: only a full batch is handed over.                                 *)
HandOverFull ==
    /\ Up /\ Cardinality(batch) = MaxBatch
    /\ HandOver(batch)
    /\ UNCHANGED <<queue, work, future, stage, due>>

(* batch_timeout: the batch goes as it is.                                   *)
HandOverRest ==
    /\ Up /\ batch # {}
    /\ HandOver(batch)
    /\ UNCHANGED <<queue, work, future, stage, due>>

-----------------------------------------------------------------------------
(* The workers.  generate_batch is called once for each request of the batch *)
(* (runtime_v0.py:138), each time for all of it.                             *)
Start(w) ==
    /\ Up /\ work[w] = Idle /\ batches # <<>>
    /\ work' = [work EXCEPT ![w] = [batch |-> Head(batches),
                                    calls |-> Cardinality(Head(batches))]]
    /\ batches' = Tail(batches)
    /\ UNCHANGED <<queue, batch, future, metrics, stage, due>>

Generate(w) ==
    /\ Up /\ work[w].calls > 1
    /\ work' = [work EXCEPT ![w].calls = @ - 1]
    /\ UNCHANGED <<queue, batch, batches, future, metrics, stage, due>>

(* task_done() on the batch ends the second join of shutdown() when it was   *)
(* the last one.                                                             *)
Return(w) ==
    /\ work' = [work EXCEPT ![w] = Idle]
    /\ stage' = IF stage = "finishing" /\ batches = <<>> /\ Busy = {w} THEN "finished"
                ELSE stage
    /\ UNCHANGED <<queue, batch, batches, due>>

(* The last call returns: every request of the batch has its result, and who *)
(* has given up is counted as cancelled.                                     *)
Finish(w) ==
    LET done == Pending(work[w].batch)
    IN  /\ Up /\ work[w].calls = 1
        /\ future' = Settle(done, "result")
        /\ metrics' = [metrics EXCEPT
                          !.success = @ + Cardinality(done),
                          !.cancelled = @ + Cardinality(work[w].batch \ done)]
        /\ Return(w)

(* A call raises: the futures that are not done get the exception.           *)
Fail(w) ==
    LET failed == Pending(work[w].batch)
    IN  /\ Up /\ work[w] # Idle
        /\ future' = Settle(failed, "error")
        /\ metrics' = [metrics EXCEPT !.cancelled = @ + Cardinality(failed)]
        /\ Return(w)

-----------------------------------------------------------------------------
(* shutdown(): join() returns at once where nothing is left to wait for.     *)
Cancel ==
    /\ stage' = "stopped"
    /\ batch' = {}
    /\ work' = [w \in Workers |-> Idle]

(* Mutant: the batches are not joined.                                       *)
JoinNoBatches == Cancel

JoinBatches ==
    \/ /\ batches = <<>> /\ Busy = {}
       /\ Cancel
    \/ /\ batches # <<>> \/ Busy # {}
       /\ stage' = "finishing"
       /\ UNCHANGED <<batch, work>>

InBatches == ToSet(batches) \cup {work[w].batch : w \in Workers}

Shutdown ==
    /\ stage = "open"
    /\ due' = UNION InBatches
    /\ \/ /\ queue = <<>>
          /\ JoinBatches
       \/ /\ queue # <<>>
          /\ stage' = "emptying"
          /\ UNCHANGED <<batch, work>>
    /\ UNCHANGED <<queue, batches, future, metrics>>

ResumeShutdown ==
    /\ \/ stage = "emptied" /\ JoinBatches
       \/ stage = "finished" /\ Cancel
    /\ UNCHANGED <<queue, batches, future, metrics, due>>

Next ==
    \/ \E r \in Requests : Submit(r) \/ Timeout(r)
    \/ Take \/ HandOverRest
    \/ \E w \in Workers : Start(w) \/ Generate(w) \/ Finish(w) \/ Fail(w)
    \/ Shutdown \/ ResumeShutdown

Spec == Init /\ [][Next]_vars

(* Every task gets its turn, every call of the backend comes to an end, and  *)
(* the timer of a get() expires that brings nothing.                         *)
Fairness ==
    /\ WF_vars(Take) /\ WF_vars(HandOverRest) /\ WF_vars(ResumeShutdown)
    /\ \A w \in Workers : WF_vars(Start(w)) /\ WF_vars(Generate(w) \/ Finish(w) \/ Fail(w))

FairSpec == Spec /\ Fairness

-----------------------------------------------------------------------------
(* Types; a request is in one place at most, and no batch is empty or larger *)
(* than max_batch_size.                                                      *)
TypeOK ==
    /\ queue \in Seq(Requests) /\ IsInjective(queue)
    /\ batch \subseteq Requests /\ Cardinality(batch) < MaxBatch
    /\ \A b \in ToSet(batches) : b \subseteq Requests /\ Cardinality(b) \in 1 .. MaxBatch
    /\ \A w \in Workers : work[w].calls <= Cardinality(work[w].batch)
    /\ future \in [Requests -> {"new", "pending", "result", "error", "timeout"}]
    /\ stage \in Stages
    /\ Cardinality(ToSet(queue) \cup batch \cup UNION InBatches)
          = Len(queue) + Cardinality(batch)
            + SumFunction([i \in DOMAIN batches |-> Cardinality(batches[i])])
            + SumFunction([w \in Workers |-> Cardinality(work[w].batch)])

(* avg_batch_size is right: the requests that were put into batches are      *)
(* those of the batches to come or in work, and those counted as success or  *)
(* cancelled; who failed after giving up is counted nowhere else.            *)
BatchesAddUp ==
    LET Number(value) == Cardinality({r \in Requests : future[r] = value})
    IN  /\ metrics.success = Number("result")
        /\ metrics.cancelled <= Number("error") + metrics.timeout
        /\ Up => /\ metrics.total_batch_size
                      >= metrics.success + metrics.cancelled
                           + Cardinality(UNION InBatches)
                 /\ metrics.total_batch_size
                      <= metrics.success + metrics.timeout + Number("error")
                           + Cardinality(Pending(UNION InBatches))

(* shutdown() waits for the batches: who was in one when it was called has   *)
(* an answer when the tasks are cancelled (runtime_v0.py:194).               *)
BatchedWorkIsFinished ==
    stage = "stopped" => \A r \in due : future[r] # "pending"

(* A request does not wait for company for ever: it gets into a batch, and   *)
(* out of it with an answer, unless the tasks are cancelled.                 *)
EveryoneIsServed ==
    \A r \in Requests : future[r] = "pending" ~> future[r] # "pending" \/ ~Up

(* shutdown() comes to its end, whatever the clients do meanwhile.           *)
ShutdownEnds == stage = "emptying" ~> ~Up

=============================================================================
